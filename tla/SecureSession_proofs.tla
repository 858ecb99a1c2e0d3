------------------------- MODULE SecureSession_proofs -------------------------
(***************************************************************************)
(* Theorems about SecureSession, for any number of clients and rooms, any  *)
(* settings, and queues of any length.                                     *)
(***************************************************************************)
EXTENDS SecureSession, SequenceTheorems, FiniteSetTheorems, TLAPS

----------------------------------------------------------------------------
(***************************************************************************)
(* What the proofs say of a queue.                                         *)
(***************************************************************************)
Has(q, code) == \E i \in 1 .. Len(q) : q[i].code = code

Single(q, code) ==
  \A i, j \in 1 .. Len(q) : q[i].code = code /\ q[j].code = code => i = j

\* All messages of the one code are ahead of those of the other.
Ahead(q, first, then) ==
  \A i, j \in 1 .. Len(q) : q[i].code = first /\ q[j].code = then => i < j

\* After a message of the one code, there is one of the other.
Leads(q, first, then) ==
  \A i \in 1 .. Len(q) : q[i].code = first => \E j \in i + 1 .. Len(q) : q[j].code = then

----------------------------------------------------------------------------
(***************************************************************************)
(* Types.  A message about a room names a room, one about a conversation   *)
(* names a client, and one that carries keys to a client carries some.     *)
(***************************************************************************)
AboutRoom == {"CREATE_ROOM", "CREATE_ROOM_KO", "JOIN_ROOM", "QUIT_ROOM", "DELETE_ROOM", "MESSAGE",
              "CREATE_ROOM_SEC", "JOIN_ROOM_SEC", "ACCEPT_JOIN_ROOM_SEC",
              "EJECT_FROM_ROOM_SEC", "ASK_JOIN_ROOM_SEC", "REFRESH_KEYIV", "QUIT_ROOM_SEC",
              "DELETE_ROOM_SEC"}
AboutClient == {"MP", "MP_SEC", "MP_SEC_OK"}

\* What is said about a login, and about a conversation.
Session == {"CONNECT_SEC", "CONNECT_OK", "CONNECT", "CONNECT_KO", "DISCONNECT", "DISCONNECT_SEC",
            "DEL_ACCOUNT_SEC", "EOF"}
Conversation == {"MP_SEC", "MP_SEC_OK"}
Talk == Session \cup Conversation

Mail ==
  {m \in Message :
     /\ m.code \in AboutRoom => m.name \in Room
     /\ m.code \in AboutClient => m.name \in Client
     /\ m.code = "ASK_JOIN_ROOM_SEC" => m.from \in Client
     /\ m.code = "MP_SEC_OK" => m.k \in Key}

Queues == [Client -> Seq(Mail)]

\* What a handler has still to say about a room.
Word == {m \in Mail : m.code \notin Talk}

ClientState ==
  [status : {"running", "exited", "crashed"}, refused : BOOLEAN, login : BOOLEAN, connected : BOOLEAN,
   created : SUBSET Room, asked : SUBSET (Room \X Client), typed : Nat, garbled : BOOLEAN,
   keys : [Name -> Key \cup {NoKey, Absent}]]

PlainState == [users : SUBSET Client, ended : SUBSET Client, rooms : [Room -> RoomState]]

SecureState ==
  [users : SUBSET Client, ended : SUBSET Client, rooms : [Room -> RoomState],
   accounts : SUBSET Client, first_connection : SUBSET Client, dealing : [Client -> Message],
   telling : [Client -> Word], todo : [Client -> SUBSET Client], crossed : SUBSET Client]

WellFormed ==
  /\ setting \in Settings
  /\ plain \in PlainState
  /\ secure \in SecureState
  /\ client \in [Client -> ClientState]
  /\ toPlain \in Queues /\ toSecure \in Queues /\ fromPlain \in Queues /\ fromSecure \in Queues

Bounded == \A c \in Client : client[c].typed \in 0 .. setting.typed[c]

\* The keys of a conversation reach the client that asked before its text returns.
Deal == {m \in Message : m.code = "MP_SEC" /\ m.name \in Client /\ m.k \in Key}

KeysOnTheWay(c, d, i) ==
  \/ client[c].keys[d] \in Key
  \/ \E j \in 1 .. i : fromSecure[c][j].code = "MP_SEC_OK" /\ fromSecure[c][j].name = d

KeysComeFirst ==
  \A c \in Client :
    /\ secure.dealing[c] \in Deal \cup {NotDealing}
    /\ secure.dealing[c] # NotDealing /\ c \in Running =>
         KeysOnTheWay(c, secure.dealing[c].name, Len(fromSecure[c]))
    /\ \A i \in 1 .. Len(fromSecure[c]) :
         fromSecure[c][i].code = "MP_SEC" => KeysOnTheWay(c, fromSecure[c][i].name, i)

TInv == WellFormed /\ Bounded /\ KeysComeFirst

----------------------------------------------------------------------------
(***************************************************************************)
(* Logging in and out, as one client sees it.                              *)
(***************************************************************************)
\* Before a client asks to log in, nobody knows it.
Unknown(c) ==
  ~ client[c].login =>
    /\ client[c].status = "running"
    /\ c \notin plain.users \cup plain.ended
    /\ c \notin secure.users \cup secure.ended \cup secure.accounts \cup secure.first_connection
    /\ \A code \in Session :
         /\ ~ Has(toPlain[c], code) /\ ~ Has(toSecure[c], code)
         /\ ~ Has(fromPlain[c], code) /\ ~ Has(fromSecure[c], code)

\* What the end of a connection, at either side of it, says of the other side.
Ends(c) ==
  /\ c \in plain.ended => toPlain[c] = <<>> /\ c \notin plain.users
  /\ c \in secure.ended => toSecure[c] = <<>>
  /\ Has(fromSecure[c], "DISCONNECT_SEC") => c \in secure.ended
  /\ IF c \in Running
     THEN /\ ~ Has(toPlain[c], "EOF") /\ ~ Has(toSecure[c], "EOF")
          /\ c \in plain.ended => Has(fromPlain[c], "DISCONNECT")
          /\ c \in secure.ended => Has(fromSecure[c], "DISCONNECT_SEC") /\ c \notin secure.users
          /\ Has(toPlain[c], "DISCONNECT") \/ Has(fromPlain[c], "DISCONNECT") =>
               Has(toSecure[c], "DISCONNECT_SEC") \/ c \in secure.ended
     ELSE /\ fromPlain[c] = <<>> /\ fromSecure[c] = <<>>
          /\ c \in plain.ended \/ Has(toPlain[c], "EOF")
          /\ c \in secure.ended \/ Has(toSecure[c], "EOF")
  /\ Ahead(toSecure[c], "DISCONNECT_SEC", "EOF")
  /\ client[c].status = "exited" =>
       IF c \in secure.ended THEN c \notin secure.users ELSE Has(toSecure[c], "DISCONNECT_SEC")

\* A login goes from the one server to the other, and stops nowhere.
GoesOn(c) ==
  c \in Running =>
    /\ client[c].login =>
         Has(toSecure[c], "CONNECT_SEC") \/ c \in secure.users \cup secure.ended \cup setting.refused
    /\ c \in secure.users =>
         \/ c \in plain.users \cup plain.ended
         \/ Has(fromSecure[c], "CONNECT_SEC") \/ Has(toPlain[c], "CONNECT")
         \/ Has(fromPlain[c], "CONNECT_KO") \/ Has(toSecure[c], "DISCONNECT_SEC")

\* Accounts: deleted on the way out only, and never confirmed by a login that the plain
\* server refuses.  One that the secure server refuses gets nowhere.
Accounted(c) ==
  /\ Leads(toSecure[c], "DEL_ACCOUNT_SEC", "DISCONNECT_SEC")
  /\ c \in secure.users \ secure.accounts => Has(toSecure[c], "DISCONNECT_SEC")
  /\ c \in setting.taken =>
       /\ c \notin plain.users
       /\ ~ Has(fromPlain[c], "CONNECT") /\ ~ Has(toSecure[c], "CONNECT_OK")
       /\ c \in secure.accounts => c \in secure.users \cap secure.first_connection
  /\ c \in setting.refused =>
       /\ c \notin plain.users \cup secure.users \cup secure.accounts
       /\ ~ Has(fromSecure[c], "CONNECT_SEC") /\ ~ Has(toPlain[c], "CONNECT")

\* A login is asked for once.
Once(c) ==
  LET asked    == Has(toSecure[c], "CONNECT_SEC")
      granted  == Has(fromSecure[c], "CONNECT_SEC")
      followed == Has(toPlain[c], "CONNECT")
  IN
  /\ Single(toSecure[c], "CONNECT_SEC") /\ Single(fromSecure[c], "CONNECT_SEC")
  /\ Single(toPlain[c], "CONNECT")
  /\ ~ (asked /\ granted) /\ ~ (asked /\ followed) /\ ~ (granted /\ followed)
  /\ asked \/ granted \/ followed => c \notin plain.users

\* Nothing makes a client leave that stays.
Remains(c) ==
  Stays(c) /\ client[c].status # "exited" =>
    /\ ~ Has(toSecure[c], "DISCONNECT_SEC") /\ ~ Has(toSecure[c], "DEL_ACCOUNT_SEC")
    /\ ~ Has(fromSecure[c], "DISCONNECT_SEC") /\ ~ Has(fromSecure[c], "DEL_ACCOUNT_SEC")
    /\ ~ Has(toPlain[c], "DISCONNECT") /\ ~ Has(fromPlain[c], "DISCONNECT")
    /\ ~ Has(fromPlain[c], "CONNECT_KO")
    /\ Ahead(toSecure[c], "CONNECT_SEC", "EOF")
    /\ client[c].login => Has(toSecure[c], "CONNECT_SEC") \/ c \in secure.users

LoginInv(c) == Unknown(c) /\ Ends(c) /\ GoesOn(c) /\ Accounted(c) /\ Once(c) /\ Remains(c)

AllLoginInv == \A c \in Client : LoginInv(c)

----------------------------------------------------------------------------
(***************************************************************************)
(* Conversations.  The keys that a client will hold for another, once it   *)
(* has read what it was sent.                                              *)
(***************************************************************************)
IsDeal(m, d) == m.code = "MP_SEC_OK" /\ m.name = d

WillGet(had, q, d, k) ==
  \/ had = k /\ \A i \in 1 .. Len(q) : ~ IsDeal(q[i], d)
  \/ \E i \in 1 .. Len(q) :
       IsDeal(q[i], d) /\ q[i].k = k /\ \A j \in i + 1 .. Len(q) : ~ IsDeal(q[j], d)

WillHold(c, d, k) == WillGet(client[c].keys[d], fromSecure[c], d, k)

Calls(c) == "MP_SEC" \in setting.commands[c]

CallersCall ==
  \A c \in Client : Has(toSecure[c], "MP_SEC") \/ secure.dealing[c] # NotDealing => Calls(c)

Dealt(c, d) == secure.dealing[c] # NotDealing /\ secure.dealing[c].name = d

Paired(c, d) ==
  \/ Dealt(c, d) /\ WillHold(c, d, secure.dealing[c].k)
  \/ Dealt(d, c) /\ WillHold(d, c, secure.dealing[d].k)
  \/ ~ Dealt(c, d) /\ ~ Dealt(d, c) /\ \E k : WillHold(c, d, k) /\ WillHold(d, c, k)

Pairs == \A c, d \in Running : c # d => Paired(c, d)

PairsInv == CallersCall /\ (OneCalls => Pairs)

----------------------------------------------------------------------------
(***************************************************************************)
(* Queues.                                                                 *)
(***************************************************************************)
LEMMA AppendSays ==
  ASSUME NEW q \in Seq(Mail), NEW m \in Mail
  PROVE  /\ Append(q, m) \in Seq(Mail) /\ Append(q, m) # <<>>
         /\ Len(Append(q, m)) = Len(q) + 1
         /\ Append(q, m)[Len(q) + 1] = m
         /\ \A i \in 1 .. Len(q) : Append(q, m)[i] = q[i]
         /\ \A code : Has(Append(q, m), code) <=> Has(q, code) \/ m.code = code
  BY AppendProperties DEF Has

LEMMA TailSays ==
  ASSUME NEW q \in Seq(Mail), q # <<>>
  PROVE  /\ Head(q) \in Mail /\ Head(q) = q[1] /\ Tail(q) \in Seq(Mail)
         /\ Len(q) \in Nat \ {0} /\ Len(Tail(q)) = Len(q) - 1
         /\ \A i \in 1 .. Len(q) - 1 : Tail(q)[i] = q[i + 1]
         /\ \A code : Has(q, code) <=> Has(Tail(q), code) \/ Head(q).code = code
<1>1. /\ Head(q) \in Mail /\ Head(q) = q[1] /\ Tail(q) \in Seq(Mail)
      /\ Len(q) \in Nat \ {0} /\ Len(Tail(q)) = Len(q) - 1
      /\ \A i \in 1 .. Len(q) - 1 : Tail(q)[i] = q[i + 1]
  BY HeadTailProperties, EmptySeq
<1>2. ASSUME NEW code, Has(q, code), Head(q).code # code
      PROVE  Has(Tail(q), code)
  <2>1. PICK i \in 1 .. Len(q) : q[i].code = code
    BY <1>2 DEF Has
  <2>2. i # 1 /\ i - 1 \in 1 .. Len(q) - 1 /\ Tail(q)[i - 1] = q[i]
    BY <1>1, <1>2, <2>1
  <2>3. QED
    BY <1>1, <2>1, <2>2 DEF Has
<1>3. ASSUME NEW code, Has(Tail(q), code)
      PROVE  Has(q, code)
  BY <1>1, <1>3 DEF Has
<1>4. ASSUME NEW code, Head(q).code = code
      PROVE  Has(q, code)
  BY <1>1, <1>4 DEF Has
<1>5. QED
  BY <1>1, <1>2, <1>3, <1>4

LEMMA EmptySays ==
  /\ <<>> \in Seq(Mail)
  /\ \A code : ~ Has(<<>>, code) /\ Single(<<>>, code)
  /\ \A a, b : Ahead(<<>>, a, b) /\ Leads(<<>>, a, b)
  BY EmptySeq DEF Has, Single, Ahead, Leads

\* What is there once stays so, unless there is one more.
LEMMA SingleStays ==
  ASSUME NEW q \in Seq(Mail), NEW code, Single(q, code)
  PROVE  /\ \A m \in Mail : m.code # code \/ ~ Has(q, code) => Single(Append(q, m), code)
         /\ q # <<>> => Single(Tail(q), code) /\ (Head(q).code = code => ~ Has(Tail(q), code))
<1>1. ASSUME NEW m \in Mail, m.code # code \/ ~ Has(q, code)
      PROVE  Single(Append(q, m), code)
  <2>1. Len(q) \in Nat
    OBVIOUS
  <2>2. QED
    BY <1>1, <2>1, AppendSays DEF Single, Has
<1>2. ASSUME q # <<>> PROVE Single(Tail(q), code) /\ (Head(q).code = code => ~ Has(Tail(q), code))
  BY <1>2, TailSays DEF Single, Has
<1>3. QED
  BY <1>1, <1>2

LEMMA AheadStays ==
  ASSUME NEW q \in Seq(Mail), NEW a, NEW b, a # b, Ahead(q, a, b)
  PROVE  /\ \A m \in Mail : m.code # a \/ ~ Has(q, b) => Ahead(Append(q, m), a, b)
         /\ q # <<>> => Ahead(Tail(q), a, b) /\ (Head(q).code = b => ~ Has(q, a))
<1>1. ASSUME NEW m \in Mail, m.code # a \/ ~ Has(q, b)
      PROVE  Ahead(Append(q, m), a, b)
  <2>1. Len(q) \in Nat
    OBVIOUS
  <2>2. QED
    BY <1>1, <2>1, AppendSays DEF Ahead, Has
<1>2. ASSUME q # <<>> PROVE Ahead(Tail(q), a, b) /\ (Head(q).code = b => ~ Has(q, a))
  BY <1>2, TailSays DEF Ahead, Has
<1>3. QED
  BY <1>1, <1>2

LEMMA LeadsStays ==
  ASSUME NEW q \in Seq(Mail), NEW a, NEW b, a # b
  PROVE  /\ \A m \in Mail : Leads(q, a, b) /\ m.code # a => Leads(Append(q, m), a, b)
         /\ \A m, n \in Mail : Leads(q, a, b) /\ m.code = a /\ n.code = b
                                => Leads(Append(Append(q, m), n), a, b)
         /\ q # <<>> /\ Leads(q, a, b) =>
              Leads(Tail(q), a, b) /\ (Head(q).code = a => Has(Tail(q), b))
<1>1. ASSUME NEW m \in Mail, Leads(q, a, b), m.code # a PROVE Leads(Append(q, m), a, b)
  <2>1. Len(q) \in Nat
    OBVIOUS
  <2>2. QED
    BY <1>1, <2>1, AppendSays DEF Leads
<1>2. ASSUME NEW m \in Mail, NEW n \in Mail, Leads(q, a, b), m.code = a, n.code = b
      PROVE  Leads(Append(Append(q, m), n), a, b)
  <2>1. Len(q) \in Nat /\ Append(q, m) \in Seq(Mail)
    BY AppendSays
  <2> DEFINE s == Append(Append(q, m), n)
  <2>2. /\ Len(s) = Len(q) + 2 /\ s[Len(q) + 2] = n
    BY <2>1, AppendSays
  <2>3. \A i \in 1 .. Len(s) : i # Len(q) + 2 => Len(s) \in i + 1 .. Len(s)
    BY <2>1, <2>2
  <2> HIDE DEF s
  <2>4. Leads(s, a, b)
    BY <1>2, <2>1, <2>2, <2>3 DEF Leads
  <2>5. QED
    BY <2>4 DEF s
<1>3. ASSUME q # <<>>, Leads(q, a, b)
      PROVE  Leads(Tail(q), a, b) /\ (Head(q).code = a => Has(Tail(q), b))
  <2>1. ASSUME NEW i \in 1 .. Len(q), q[i].code = a
        PROVE  \E j \in i .. Len(q) - 1 : Tail(q)[j].code = b
    <3>1. PICK j \in i + 1 .. Len(q) : q[j].code = b
      BY <1>3, <2>1 DEF Leads
    <3>2. j - 1 \in i .. Len(q) - 1 /\ Tail(q)[j - 1] = q[j]
      BY <1>3, <3>1, TailSays
    <3>3. QED
      BY <3>1, <3>2
  <2>2. ASSUME NEW i \in 1 .. Len(q) - 1, Tail(q)[i].code = a
        PROVE  \E j \in i + 1 .. Len(q) - 1 : Tail(q)[j].code = b
    <3>1. i + 1 \in 1 .. Len(q) /\ q[i + 1].code = a
      BY <1>3, <2>2, TailSays
    <3>2. QED
      BY <2>1, <3>1
  <2>3. QED
    BY <1>3, <2>1, <2>2, TailSays DEF Leads, Has
<1>4. QED
  BY <1>1, <1>2, <1>3

----------------------------------------------------------------------------
(***************************************************************************)
(* There are always keys that nobody holds: those in use are finitely many. *)
(***************************************************************************)
LEMMA ImageIsFinite ==
  ASSUME NEW S, IsFiniteSet(S), NEW f, DOMAIN f = S, NEW T, T = {f[x] : x \in S}
  PROVE  IsFiniteSet(T)
<1> DEFINE g == [x \in S |-> f[x]]
<1>1. g \in Surjection(S, T)
  BY DEF Surjection
<1>2. QED
  BY <1>1, FS_Surjection

LEMMA UnionIsFinite ==
  ASSUME NEW S, IsFiniteSet(S), NEW f, DOMAIN f = S, \A x \in S : IsFiniteSet(f[x])
  PROVE  IsFiniteSet(UNION {f[x] : x \in S})
<1>1. IsFiniteSet({f[x] : x \in S})
  BY ImageIsFinite
<1>2. \A T \in {f[x] : x \in S} : IsFiniteSet(T)
  OBVIOUS
<1>3. QED
  BY <1>1, <1>2, FS_UNION

LEMMA CarriedIsFinite ==
  ASSUME NEW q \in [Client -> Seq(Mail)]
  PROVE  IsFiniteSet(Carried(q))
<1> DEFINE carried(c) == {q[c][i].k : i \in DOMAIN q[c]}
           f == [c \in Client |-> carried(c)]
<1>1. ASSUME NEW c \in Client PROVE IsFiniteSet(carried(c))
  <2> DEFINE g == [i \in DOMAIN q[c] |-> q[c][i].k]
  <2>1. q[c] \in Seq(Mail) /\ DOMAIN q[c] = 1 .. Len(q[c]) /\ Len(q[c]) \in Nat
    BY LenProperties
  <2>2. IsFiniteSet(DOMAIN q[c])
    BY <2>1, FS_Interval
  <2>3. carried(c) = {g[i] : i \in DOMAIN q[c]} /\ DOMAIN g = DOMAIN q[c]
    OBVIOUS
  <2> HIDE DEF carried, g
  <2>4. QED
    BY <2>2, <2>3, ImageIsFinite
<1>2. {carried(c) : c \in Client} = {f[c] : c \in Client} /\ DOMAIN f = Client
  OBVIOUS
<1>3. \A c \in Client : IsFiniteSet(f[c])
  BY <1>1
<1> HIDE DEF f
<1>4. IsFiniteSet(UNION {f[c] : c \in Client})
  BY <1>2, <1>3, UnionIsFinite, ConstantsAssumption
<1>5. QED
  BY <1>2, <1>4 DEF Carried

LEMMA SomeNumberIsMissing ==
  ASSUME NEW S, IsFiniteSet(S)
  PROVE  \E k \in 1 .. Cardinality(S) + 1 : k \notin S
<1> SUFFICES ASSUME 1 .. Cardinality(S) + 1 \subseteq S PROVE FALSE
  OBVIOUS
<1>1. Cardinality(S) \in Nat
  BY FS_CardinalityType
<1>2. Cardinality(1 .. Cardinality(S) + 1) = Cardinality(S) + 1
  BY <1>1, FS_Interval
<1>3. Cardinality(1 .. Cardinality(S) + 1) <= Cardinality(S)
  BY FS_Subset
<1>4. QED
  BY <1>1, <1>2, <1>3

LEMMA FreshKeyIsKey == ASSUME WellFormed PROVE FreshKey \in Key
<1> DEFINE dealt == {secure.dealing[c].k : c \in Client}
           told == {secure.telling[c].k : c \in Client}
<1>1. IsFiniteSet(Client) /\ IsFiniteSet(Name)
  BY ConstantsAssumption, FS_Union DEF Name
<1>2. IsFiniteSet(Held)
  <2> DEFINE f == [c \in Client |-> {client[c].keys[n] : n \in Name}]
  <2>1. ASSUME NEW c \in Client PROVE IsFiniteSet(f[c])
    <3> DEFINE g == [n \in Name |-> client[c].keys[n]]
    <3>1. f[c] = {g[n] : n \in Name} /\ DOMAIN g = Name
      OBVIOUS
    <3> HIDE DEF f, g
    <3>2. QED
      BY <1>1, <3>1, ImageIsFinite
  <2>2. Held = UNION {f[c] : c \in Client} /\ DOMAIN f = Client
    BY DEF Held
  <2> HIDE DEF f
  <2>3. QED
    BY <1>1, <2>1, <2>2, UnionIsFinite
<1>3. IsFiniteSet(dealt)
  <2> DEFINE f == [c \in Client |-> secure.dealing[c].k]
  <2>1. dealt = {f[c] : c \in Client} /\ DOMAIN f = Client
    OBVIOUS
  <2> HIDE DEF f, dealt
  <2>2. QED
    BY <1>1, <2>1, ImageIsFinite
<1>9. IsFiniteSet(told)
  <2> DEFINE f == [c \in Client |-> secure.telling[c].k]
  <2>1. told = {f[c] : c \in Client} /\ DOMAIN f = Client
    OBVIOUS
  <2> HIDE DEF f, told
  <2>2. QED
    BY <1>1, <2>1, ImageIsFinite
<1>4. IsFiniteSet(Carried(fromSecure)) /\ IsFiniteSet(Carried(fromPlain)) /\ IsFiniteSet(Carried(toPlain))
  BY CarriedIsFinite DEF WellFormed, Queues
<1>5. KeysInUse = Held \cup dealt \cup told \cup Carried(fromSecure) \cup Carried(fromPlain) \cup Carried(toPlain)
  BY DEF KeysInUse
<1> HIDE DEF dealt, told
<1>6. IsFiniteSet(KeysInUse)
  BY <1>2, <1>3, <1>9, <1>4, <1>5, FS_Union
<1>7. FreshKey \in 1 .. Cardinality(KeysInUse) + 1
  BY <1>6, SomeNumberIsMissing DEF FreshKey
<1>8. QED
  BY <1>6, <1>7, FS_CardinalityType DEF Key, NoKey

----------------------------------------------------------------------------
(***************************************************************************)
(* The type of what is on its way.                                         *)
(***************************************************************************)
LEMMA MsgIsMail ==
  ASSUME NEW code \in Code, NEW name \in Name \cup {NULL}, NEW from \in Client \cup {NULL},
         NEW k \in Key \cup {NoKey},
         code \in AboutRoom => name \in Room, code \in AboutClient => name \in Client,
         code = "ASK_JOIN_ROOM_SEC" => from \in Client, code = "MP_SEC_OK" => k \in Key
  PROVE  Msg(code, name, from, k) \in Mail /\ Msg(code, name, from, k).code = code
  BY DEF Msg, Mail, Message

LEMMA SignalIsMail ==
  /\ \A code \in Session : Signal(code) \in Mail /\ Signal(code).code = code
  /\ Signal("CONNECT_SEC_OK") \in Mail /\ Signal("CONNECT_SEC_KO") \in Mail
<1>1. ASSUME NEW code \in Session \cup {"CONNECT_SEC_OK", "CONNECT_SEC_KO"}
      PROVE  Signal(code) \in Mail /\ Signal(code).code = code
  <2>1. code \in Code
    BY DEF Session, Code
  <2>4. code \notin AboutRoom /\ code \notin AboutClient
    BY DEF AboutRoom, AboutClient, Session
  <2>5. code # "ASK_JOIN_ROOM_SEC" /\ code # "MP_SEC_OK"
    BY DEF Session
  <2>2. NULL \in Name \cup {NULL} /\ NULL \in Client \cup {NULL} /\ NoKey \in Key \cup {NoKey}
    OBVIOUS
  <2>3. QED
    BY <2>1, <2>2, <2>4, <2>5, MsgIsMail DEF Signal, About
<1>2. QED
  BY <1>1

LEMMA AboutIsMail ==
  ASSUME NEW r \in Room, NEW code \in Code \ (AboutClient \cup {"ASK_JOIN_ROOM_SEC"})
  PROVE  About(code, r) \in Mail /\ About(code, r).code = code
<1>1. code # "MP_SEC_OK" /\ r \in Name \cup {NULL}
  BY DEF AboutClient, Name
<1>2. QED
  BY <1>1, MsgIsMail DEF About

LEMMA PutSays ==
  ASSUME NEW q \in Queues, NEW readers, NEW m \in Mail
  PROVE  /\ Put(q, readers, m) \in Queues
         /\ \A x \in Client :
              Put(q, readers, m)[x] = IF x \in readers THEN Append(q[x], m) ELSE q[x]
<1>1. \A x \in Client : q[x] \in Seq(Mail) /\ Append(q[x], m) \in Seq(Mail)
  BY AppendSays DEF Queues
<1>2. QED
  BY <1>1 DEF Put, Queues

LEMMA PopSays ==
  ASSUME NEW q \in Queues, NEW c \in Client, q[c] # <<>>
  PROVE  /\ Head(q[c]) \in Mail /\ q[c] \in Seq(Mail)
         /\ [q EXCEPT ![c] = Tail(@)] \in Queues
         /\ [q EXCEPT ![c] = Tail(@)][c] = Tail(q[c])
         /\ \A x \in Client \ {c} : [q EXCEPT ![c] = Tail(@)][x] = q[x]
<1>1. q[c] \in Seq(Mail) /\ Head(q[c]) \in Mail /\ Tail(q[c]) \in Seq(Mail)
  BY TailSays DEF Queues
<1>2. QED
  BY <1>1 DEF Queues

LEMMA CutSays ==
  ASSUME NEW q \in Queues, NEW c \in Client
  PROVE  /\ [q EXCEPT ![c] = <<>>] \in Queues /\ [q EXCEPT ![c] = <<>>][c] = <<>>
         /\ \A x \in Client \ {c} : [q EXCEPT ![c] = <<>>][x] = q[x]
  BY EmptySays DEF Queues

\* The last words of a client, and the end of the connection.
LEMMA ByeSays ==
  ASSUME NEW q \in Queues, NEW writers, NEW m \in Mail
  PROVE  /\ Bye(q, writers, <<>>) = Put(q, writers, Signal("EOF"))
         /\ Bye(q, writers, <<m>>) = Put(Put(q, writers, m), writers, Signal("EOF"))
         /\ Bye(q, writers, <<>>) \in Queues /\ Bye(q, writers, <<m>>) \in Queues
<1>1. Signal("EOF") \in Mail
  BY SignalIsMail DEF Session
<1>2. ASSUME NEW x \in Client
      PROVE  /\ q[x] \o <<>> \o <<Signal("EOF")>> = Append(q[x], Signal("EOF"))
             /\ q[x] \o <<m>> \o <<Signal("EOF")>> = Append(Append(q[x], m), Signal("EOF"))
  <2>1. q[x] \in Seq(Mail) /\ Append(q[x], m) \in Seq(Mail)
    BY AppendSays DEF Queues
  <2>2. q[x] \o <<>> = q[x] /\ q[x] \o <<m>> = Append(q[x], m)
    BY <2>1
  <2>3. \A s \in Seq(Mail) : s \o <<Signal("EOF")>> = Append(s, Signal("EOF"))
    BY <1>1
  <2>4. QED
    BY <2>1, <2>2, <2>3
<1>3. /\ Bye(q, writers, <<>>) = Put(q, writers, Signal("EOF"))
      /\ Bye(q, writers, <<m>>) = Put(Put(q, writers, m), writers, Signal("EOF"))
  BY <1>2 DEF Bye, Put
<1>4. QED
  BY <1>1, <1>3, PutSays

----------------------------------------------------------------------------
(***************************************************************************)
(* The handlers of the plain server keep the types.                        *)
(***************************************************************************)
LEMMA PlainServesSays ==
  ASSUME WellFormed, NEW c \in Client, NEW codes, PlainServes(c, codes)
  PROVE  /\ Head(toPlain[c]) \in Mail /\ Head(toPlain[c]).code \in codes
         /\ toPlain[c] # <<>> /\ toPlain[c] \in Seq(Mail)
         /\ toPlain' \in Queues /\ toPlain'[c] = Tail(toPlain[c])
         /\ \A x \in Client \ {c} : toPlain'[x] = toPlain[x]
         /\ UNCHANGED <<secure, client, toSecure, fromSecure>>
<1>1. /\ toPlain[c] # <<>> /\ Head(toPlain[c]).code \in codes
      /\ toPlain' = [toPlain EXCEPT ![c] = Tail(@)]
      /\ UNCHANGED <<secure, client, toSecure, fromSecure>>
  BY Zenon DEF PlainServes
<1>2. toPlain \in Queues
  BY DEF WellFormed
<1>3. /\ Head(toPlain[c]) \in Mail /\ toPlain[c] \in Seq(Mail)
      /\ [toPlain EXCEPT ![c] = Tail(@)] \in Queues
      /\ [toPlain EXCEPT ![c] = Tail(@)][c] = Tail(toPlain[c])
      /\ \A x \in Client \ {c} : [toPlain EXCEPT ![c] = Tail(@)][x] = toPlain[x]
  BY <1>1, <1>2, PopSays
<1>4. QED
  BY <1>1, <1>3, Zenon

LEMMA PlainTellsSays ==
  ASSUME WellFormed, NEW users, NEW m \in Mail, PlainTells(users, m)
  PROVE  /\ fromPlain' \in Queues
         /\ \A x \in Client :
              fromPlain'[x] = IF x \in users \cap Running THEN Append(fromPlain[x], m) ELSE fromPlain[x]
<1>1. fromPlain' = Put(fromPlain, users \cap Running, m)
  BY DEF PlainTells
<1>2. fromPlain \in Queues
  BY DEF WellFormed
<1>3. QED
  BY <1>1, <1>2, PutSays

LEMMA MailSays ==
  ASSUME NEW m \in Mail
  PROVE  /\ m.code \in AboutRoom => m.name \in Room
         /\ m.code \in AboutClient => m.name \in Client
         /\ m.code = "ASK_JOIN_ROOM_SEC" => m.from \in Client
         /\ m.code = "MP_SEC_OK" => m.k \in Key
         /\ m.from \in Client \cup {NULL} /\ m.k \in Key \cup {NoKey}
         /\ m.code \in Code /\ m.name \in Name \cup {NULL}
  BY DEF Mail, Message

\* What the handlers about a room are made of.
LEMMA PlainRoomSays ==
  ASSUME WellFormed, NEW c \in Client, toPlain[c] # <<>>, Head(toPlain[c]).code \in AboutRoom
  PROVE  /\ Head(toPlain[c]).name \in Room /\ PlainRoom(c) \in RoomState
         /\ About("CREATE_ROOM", Head(toPlain[c]).name) \in Mail
         /\ \A room \in RoomState :
              [plain EXCEPT !.rooms[Head(toPlain[c]).name] = room] \in PlainState
<1>1. toPlain \in Queues /\ plain \in PlainState
  BY DEF WellFormed
<1>2. Head(toPlain[c]) \in Mail
  BY <1>1, PopSays
<1>3. Head(toPlain[c]).name \in Room
  BY <1>2, MailSays
<1>4. plain.rooms[Head(toPlain[c]).name] \in RoomState
  BY <1>1, <1>3 DEF PlainState
<1>5. ASSUME NEW r \in Room, NEW room \in RoomState
      PROVE  [plain EXCEPT !.rooms[r] = room] \in PlainState
  BY <1>1 DEF PlainState
<1>6. About("CREATE_ROOM", Head(toPlain[c]).name) \in Mail
  BY <1>3, AboutIsMail DEF AboutClient, Code
<1>7. QED
  BY <1>3, <1>4, <1>5, <1>6 DEF PlainRoom

PlainTyped == plain' \in PlainState /\ fromPlain' \in Queues

LEMMA PlainEntersTyped ==
  ASSUME WellFormed, NEW c \in Client, toPlain[c] # <<>>, Head(toPlain[c]).code \in AboutRoom,
         NEW room \in RoomState, PlainEnters(c, room)
  PROVE  PlainTyped
<1>1. plain' = [plain EXCEPT !.rooms[Head(toPlain[c]).name] = room]
      /\ PlainTells({c}, About("CREATE_ROOM", Head(toPlain[c]).name))
  BY Zenon DEF PlainEnters
<1>2. QED
  BY <1>1, PlainRoomSays, PlainTellsSays DEF PlainTyped

LEMMA PlainRoomBecomesTyped ==
  ASSUME WellFormed, NEW c \in Client, toPlain[c] # <<>>, Head(toPlain[c]).code \in AboutRoom,
         NEW room \in RoomState, PlainRoomBecomes(c, room)
  PROVE  PlainTyped
<1>1. plain' = [plain EXCEPT !.rooms[Head(toPlain[c]).name] = room] /\ UNCHANGED fromPlain
  BY Zenon DEF PlainRoomBecomes
<1>2. QED
  BY <1>1, PlainRoomSays DEF PlainTyped, WellFormed

LEMMA RoomStates ==
  /\ Closed \in RoomState
  /\ \A c \in Client : [admin |-> c, members |-> {c}] \in RoomState
  /\ \A c \in Client, m \in SUBSET Client : [admin |-> c, members |-> m] \in RoomState
  /\ \A room \in RoomState, c \in Client : [room EXCEPT !.members = @ \cup {c}] \in RoomState
  /\ \A room \in RoomState : \A x : [room EXCEPT !.members = @ \ {x}] \in RoomState
  BY DEF RoomState, Closed

LEMMA PlainServerTyped ==
  ASSUME WellFormed, NEW c \in Client, PlainServer(c)
  PROVE  /\ PlainTyped /\ toPlain' \in Queues
         /\ UNCHANGED <<secure, client, toSecure, fromSecure>>
<1>0. plain \in PlainState /\ fromPlain \in Queues /\ toPlain \in Queues
  BY DEF WellFormed
<1>1. ASSUME PlainConnect(c) PROVE PlainTyped
  <2>1. Signal("CONNECT") \in Mail /\ Signal("CONNECT_KO") \in Mail
    BY SignalIsMail DEF Session
  <2>2. \/ PlainTells({c}, Signal("CONNECT_KO")) /\ UNCHANGED plain
        \/ PlainTells({c}, Signal("CONNECT")) /\ plain' = [plain EXCEPT !.users = @ \cup {c}]
    BY <1>1, Zenon DEF PlainConnect
  <2>3. [plain EXCEPT !.users = @ \cup {c}] \in PlainState
    BY <1>0 DEF PlainState
  <2>4. QED
    BY <1>0, <2>1, <2>2, <2>3, PlainTellsSays DEF PlainTyped
<1>2. ASSUME PlainRejects(c) PROVE PlainTyped
  BY <1>0, <1>2 DEF PlainRejects, PlainIgnores, PlainTyped
<1>3. ASSUME PlainCreate(c) PROVE PlainTyped
  <2>1. PlainServes(c, {"CREATE_ROOM"})
    BY <1>3, Zenon DEF PlainCreate
  <2>2. toPlain[c] # <<>> /\ Head(toPlain[c]).code \in AboutRoom
    BY <2>1, PlainServesSays DEF AboutRoom
  <2>3. Head(toPlain[c]).name \in Room
    BY <2>2, PlainRoomSays
  <2>4. About("CREATE_ROOM_KO", Head(toPlain[c]).name) \in Mail
    BY <2>3, AboutIsMail DEF AboutClient, Code
  <2>5. CASE PlainTells({c}, About("CREATE_ROOM_KO", Head(toPlain[c]).name)) /\ UNCHANGED plain
    BY <1>0, <2>4, <2>5, PlainTellsSays DEF PlainTyped
  <2>6. CASE PlainEnters(c, [admin |-> c, members |-> {c}])
    BY <2>2, <2>6, PlainEntersTyped, RoomStates
  <2>7. QED
    BY <1>3, <2>5, <2>6, Zenon DEF PlainCreate
<1>4. ASSUME PlainJoin(c) PROVE PlainTyped
  <2>1. PlainServes(c, {"JOIN_ROOM"})
    BY <1>4, Zenon DEF PlainJoin
  <2>2. toPlain[c] # <<>> /\ Head(toPlain[c]).code \in AboutRoom
    BY <2>1, PlainServesSays DEF AboutRoom
  <2>3. PlainRoom(c) \in RoomState
    BY <2>2, PlainRoomSays
  <2>4. [PlainRoom(c) EXCEPT !.members = @ \cup {c}] \in RoomState
    BY <2>3, RoomStates
  <2>5. CASE PlainIgnores
    BY <1>0, <2>5 DEF PlainIgnores, PlainTyped
  <2>6. CASE PlainEnters(c, [PlainRoom(c) EXCEPT !.members = @ \cup {c}])
    BY <2>2, <2>4, <2>6, PlainEntersTyped
  <2>7. QED
    BY <1>4, <2>5, <2>6, Zenon DEF PlainJoin
<1>5. ASSUME PlainQuit(c) PROVE PlainTyped
  <2>1. PlainServes(c, {"QUIT_ROOM", "DELETE_ROOM"})
    BY <1>5, Zenon DEF PlainQuit
  <2>2. toPlain[c] # <<>> /\ Head(toPlain[c]).code \in AboutRoom
    BY <2>1, PlainServesSays DEF AboutRoom
  <2>3. PlainRoom(c) \in RoomState
    BY <2>2, PlainRoomSays
  <2>4. [PlainRoom(c) EXCEPT !.members = @ \ {c}] \in RoomState /\ Closed \in RoomState
    BY <2>3, RoomStates
  <2>5. CASE PlainIgnores
    BY <1>0, <2>5 DEF PlainIgnores, PlainTyped
  <2>6. CASE PlainRoomBecomes(c, Closed) \/ PlainRoomBecomes(c, [PlainRoom(c) EXCEPT !.members = @ \ {c}])
    BY <2>2, <2>4, <2>6, PlainRoomBecomesTyped
  <2>7. QED
    BY <1>5, <2>5, <2>6, Zenon DEF PlainQuit
<1>6. ASSUME PlainMessage(c) \/ PlainMp(c) PROVE PlainTyped
  <2>1. PlainServes(c, {"MESSAGE"}) \/ PlainServes(c, {"MP"})
    BY <1>6, Zenon DEF PlainMessage, PlainMp
  <2>2. Head(toPlain[c]) \in Mail
    BY <2>1, PlainServesSays
  <2>3. (\E users : PlainTells(users, Head(toPlain[c]))) /\ UNCHANGED plain
    BY <1>6, Zenon DEF PlainMessage, PlainMp
  <2>4. QED
    BY <1>0, <2>2, <2>3, PlainTellsSays DEF PlainTyped
<1>7. ASSUME PlainLeave(c)
      PROVE  PlainTyped /\ toPlain' \in Queues /\ UNCHANGED <<secure, client, toSecure, fromSecure>>
  <2>1. /\ plain'.users = plain.users \ {c} /\ plain'.ended = plain.ended \cup {c}
        /\ toPlain' = [toPlain EXCEPT ![c] = <<>>]
        /\ UNCHANGED <<secure, client, toSecure, fromSecure>>
        /\ \E users : PlainTells(users, Signal("DISCONNECT"))
    BY <1>7 DEF PlainLeave
  <2>2. plain' \in PlainState
    <3> DEFINE without(room) == IF c \notin room.members THEN room
                                ELSE IF room.admin = c THEN Closed
                                ELSE [room EXCEPT !.members = @ \ {c}]
    <3>1. \A r \in Room : without(plain.rooms[r]) \in RoomState
      BY <1>0, RoomStates DEF PlainState
    <3>2. plain' = [users |-> plain.users \ {c}, ended |-> plain.ended \cup {c},
                    rooms |-> [r \in Room |-> without(plain.rooms[r])]]
      BY <1>7, Zenon DEF PlainLeave
    <3> HIDE DEF without
    <3>3. QED
      BY <1>0, <3>1, <3>2 DEF PlainState
  <2>3. Signal("DISCONNECT") \in Mail
    BY SignalIsMail DEF Session
  <2>4. fromPlain' \in Queues
    BY <2>1, <2>3, PlainTellsSays
  <2>5. QED
    BY <1>0, <2>1, <2>2, <2>4, CutSays DEF PlainTyped
<1>8. ASSUME ~ PlainLeave(c) PROVE \E codes : PlainServes(c, codes)
  BY <1>8, Zenon DEF PlainServer, PlainConnect, PlainRejects, PlainCreate, PlainJoin, PlainQuit,
                     PlainMessage, PlainMp
<1>9. CASE PlainLeave(c)
  BY <1>7, <1>9
<1>10. CASE ~ PlainLeave(c)
  <2>1. PlainTyped
    BY <1>1, <1>2, <1>3, <1>4, <1>5, <1>6, <1>10 DEF PlainServer
  <2>2. QED
    BY <1>8, <1>10, <2>1, PlainServesSays
<1>11. QED
  BY <1>9, <1>10

----------------------------------------------------------------------------
(***************************************************************************)
(* The handlers of the secure server keep the types.                       *)
(***************************************************************************)
LEMMA SecureServesSays ==
  ASSUME WellFormed, NEW c \in Client, NEW code, SecureServes(c, code)
  PROVE  /\ Head(toSecure[c]) \in Mail /\ Head(toSecure[c]).code = code
         /\ toSecure[c] # <<>> /\ toSecure[c] \in Seq(Mail) /\ secure.dealing[c] = NotDealing
         /\ toSecure' \in Queues /\ toSecure'[c] = Tail(toSecure[c])
         /\ \A x \in Client \ {c} : toSecure'[x] = toSecure[x]
         /\ UNCHANGED <<plain, client, toPlain, fromPlain>>
<1>1. /\ toSecure[c] # <<>> /\ Head(toSecure[c]).code = code /\ secure.dealing[c] = NotDealing
      /\ toSecure' = [toSecure EXCEPT ![c] = Tail(@)]
      /\ UNCHANGED <<plain, client, toPlain, fromPlain>>
  BY Zenon DEF SecureServes, Serving
<1>2. toSecure \in Queues
  BY DEF WellFormed
<1>3. /\ Head(toSecure[c]) \in Mail /\ toSecure[c] \in Seq(Mail)
      /\ [toSecure EXCEPT ![c] = Tail(@)] \in Queues
      /\ [toSecure EXCEPT ![c] = Tail(@)][c] = Tail(toSecure[c])
      /\ \A x \in Client \ {c} : [toSecure EXCEPT ![c] = Tail(@)][x] = toSecure[x]
  BY <1>1, <1>2, PopSays
<1>4. QED
  BY <1>1, <1>3, Zenon

\* What the clients are sent: more, but nothing of some kinds.
Grows(q, s, codes) ==
  \A x \in Client :
    /\ Len(q[x]) <= Len(s[x])
    /\ \A i \in 1 .. Len(q[x]) : s[x][i] = q[x][i]
    /\ \A i \in Len(q[x]) + 1 .. Len(s[x]) : s[x][i].code \notin codes

LEMMA PutGrows ==
  ASSUME NEW codes, NEW q \in Queues, NEW s \in Queues, Grows(q, s, codes), NEW readers,
         NEW m \in Mail, m.code \notin codes
  PROVE  Put(s, readers, m) \in Queues /\ Grows(q, Put(s, readers, m), codes)
<1>1. ASSUME NEW x \in Client
      PROVE  /\ Len(q[x]) <= Len(Put(s, readers, m)[x])
             /\ \A i \in 1 .. Len(q[x]) : Put(s, readers, m)[x][i] = q[x][i]
             /\ \A i \in Len(q[x]) + 1 .. Len(Put(s, readers, m)[x]) :
                  Put(s, readers, m)[x][i].code \notin codes
  <2>1. q[x] \in Seq(Mail) /\ s[x] \in Seq(Mail) /\ Len(q[x]) \in Nat /\ Len(s[x]) \in Nat
    BY LenProperties DEF Queues
  <2>2. Put(s, readers, m)[x] = IF x \in readers THEN Append(s[x], m) ELSE s[x]
    BY PutSays
  <2>3. /\ Len(Append(s[x], m)) = Len(s[x]) + 1
        /\ Append(s[x], m)[Len(s[x]) + 1] = m
        /\ \A i \in 1 .. Len(s[x]) : Append(s[x], m)[i] = s[x][i]
    BY <2>1, AppendSays
  <2>4. QED
    BY <2>1, <2>2, <2>3 DEF Grows
<1>2. QED
  BY <1>1, PutSays DEF Grows

LEMMA GrowsFromItself == \A q \in Queues : \A codes : Grows(q, q, codes)
  BY DEF Grows, Queues

SecureTyped(codes) ==
  /\ secure' \in SecureState /\ secure'.dealing = secure.dealing
  /\ fromSecure' \in Queues /\ Grows(fromSecure, fromSecure', codes)

LEMMA SecureTellsSays ==
  ASSUME WellFormed, NEW users, NEW m \in Mail, SecureTells(users, m), NEW codes
  PROVE  /\ fromSecure' \in Queues
         /\ m.code \notin codes => Grows(fromSecure, fromSecure', codes)
         /\ \A x \in Client :
              fromSecure'[x] = IF x \in users \cap Running THEN Append(fromSecure[x], m) ELSE fromSecure[x]
<1>1. fromSecure' = Put(fromSecure, users \cap Running, m)
  BY DEF SecureTells
<1>2. fromSecure \in Queues /\ Grows(fromSecure, fromSecure, codes)
  BY GrowsFromItself DEF WellFormed
<1>3. QED
  BY <1>1, <1>2, PutSays, PutGrows

LEMMA SecureRoomSays ==
  ASSUME WellFormed, NEW c \in Client, toSecure[c] # <<>>, Head(toSecure[c]).code \in AboutRoom
  PROVE  /\ Asked(c) \in Room /\ SecureRoom(c) \in RoomState
         /\ About("CREATE_ROOM_KO", Asked(c)) \in Mail
<1>1. toSecure \in Queues /\ secure \in SecureState
  BY DEF WellFormed
<1>2. Head(toSecure[c]) \in Mail
  BY <1>1, PopSays
<1>3. Head(toSecure[c]).name \in Room
  BY <1>2, MailSays
<1>4. secure.rooms[Head(toSecure[c]).name] \in RoomState
  BY <1>1, <1>3 DEF SecureState
<1>5. About("CREATE_ROOM_KO", Head(toSecure[c]).name) \in Mail
  <2>1. "CREATE_ROOM_KO" \in Code \ (AboutClient \cup {"ASK_JOIN_ROOM_SEC"})
    BY DEF AboutClient, Code
  <2>2. QED
    BY <1>3, <2>1, AboutIsMail
<1>6. QED
  BY <1>3, <1>4, <1>5 DEF SecureRoom, Asked

\* What is said about a room.
Spoken == {"CREATE_ROOM_SEC", "ACCEPT_JOIN_ROOM_SEC", "EJECT_FROM_ROOM_SEC", "QUIT_ROOM_SEC",
           "JOIN_ROOM_SEC", "REFRESH_KEYIV", "DELETE_ROOM_SEC"}

LEMMA SpokenIsWord ==
  ASSUME NEW code \in Spoken, NEW r \in Room, NEW x \in Client \cup {NULL}, NEW k \in Key \cup {NoKey}
  PROVE  /\ Msg(code, r, x, k) \in Word
         /\ Msg(code, r, x, k).code = code /\ Msg(code, r, x, k).name = r
         /\ Msg(code, r, x, k).from = x /\ Msg(code, r, x, k).k = k
<1>1. code \in Code /\ code \notin AboutClient /\ code # "ASK_JOIN_ROOM_SEC" /\ code # "MP_SEC_OK"
  BY DEF Code, AboutClient, Spoken
<1>2. r \in Name \cup {NULL}
  BY DEF Name
<1>3. Msg(code, r, x, k) \in Mail /\ Msg(code, r, x, k).code = code
  BY <1>1, <1>2, MsgIsMail
<1>4. code \notin Talk
  BY DEF Talk, Conversation, Session, Spoken
<1>5. QED
  BY <1>3, <1>4 DEF Word, Msg

LEMMA NoneIsWord == NotDealing \in Word /\ NotDealing \in Message /\ NotDealing.code = "NONE"
<1>1. /\ "NONE" \in Code \ (AboutRoom \cup AboutClient)
      /\ NoKey \in Key \cup {NoKey} /\ NULL \in Client \cup {NULL} /\ NULL \in Name \cup {NULL}
  BY DEF Code, AboutRoom, AboutClient
<1>2. NotDealing \in Mail /\ NotDealing.code = "NONE"
  BY <1>1, MsgIsMail DEF NotDealing, About
<1>3. QED
  BY <1>2 DEF Word, Mail, Talk, Session, Conversation

\* The first half of a command about a room: it changes, and nobody is told yet.
LEMMA SecBeginsSays ==
  ASSUME WellFormed, NEW c \in Client, toSecure[c] # <<>>, Head(toSecure[c]).code \in Spoken,
         Asked(c) \in Room, NEW room \in RoomState, NEW x \in Client \cup {NULL},
         NEW k \in Key \cup {NoKey}, SecBegins(c, room, x, k)
  PROVE  SecureTyped(Talk)
<1>0. secure \in SecureState /\ fromSecure \in Queues /\ Grows(fromSecure, fromSecure, Talk)
  BY GrowsFromItself DEF WellFormed
<1> DEFINE word == Msg(Head(toSecure[c]).code, Asked(c), x, k)
           crossed == Crossing(x, Asked(c))
<1>1. /\ secure' = [secure EXCEPT !.rooms[Asked(c)] = room, !.crossed = crossed, !.telling[c] = word]
      /\ UNCHANGED fromSecure
  BY DEF SecBegins
<1>2. word \in Word
  BY SpokenIsWord
<1>3. crossed \in SUBSET Client
  BY <1>0 DEF Crossing, SecureState
<1> HIDE DEF word, crossed
<1>4. secure' \in SecureState /\ secure'.dealing = secure.dealing
  BY <1>0, <1>1, <1>2, <1>3 DEF SecureState
<1>5. QED
  BY <1>0, <1>1, <1>4 DEF SecureTyped

LEMMA AskIsMail ==
  ASSUME NEW r \in Room, NEW c \in Client
  PROVE  Msg("ASK_JOIN_ROOM_SEC", r, c, NoKey) \in Mail
  BY MsgIsMail DEF AboutClient, Code, Name

LEMMA ConversationIsMail ==
  ASSUME NEW d \in Client, NEW k \in Key
  PROVE  /\ Msg("MP_SEC_OK", d, NULL, k) \in Mail /\ About("MP_SEC", d) \in Mail
         /\ Msg("MP_SEC", d, NULL, k) \in Deal /\ Deal \subseteq Message
<1>1. d \in Name \cup {NULL} /\ NULL \in Client \cup {NULL} /\ k \in Key \cup {NoKey} /\ NoKey \in Key \cup {NoKey}
  BY DEF Name
<1>2. /\ "MP_SEC" \in Code /\ "MP_SEC_OK" \in Code /\ "MP_SEC" \notin AboutRoom /\ "MP_SEC_OK" \notin AboutRoom
  BY DEF Code, AboutRoom
<1>3. Msg("MP_SEC_OK", d, NULL, k) \in Mail
  BY <1>1, <1>2, MsgIsMail
<1>4. Msg("MP_SEC", d, NULL, NoKey) \in Mail
  BY <1>1, <1>2, MsgIsMail
<1>5. Msg("MP_SEC", d, NULL, k) \in Mail
  BY <1>1, <1>2, MsgIsMail
<1>6. QED
  BY <1>3, <1>4, <1>5 DEF Deal, Mail, About, Msg

LEMMA SecureRemoveTyped ==
  ASSUME WellFormed, NEW c \in Client, toSecure[c] # <<>>, Head(toSecure[c]).code \in AboutRoom,
         SecRemove(c)
  PROVE  SecureTyped(Talk)
<1>0. secure \in SecureState /\ fromSecure \in Queues /\ Grows(fromSecure, fromSecure, Talk)
  BY GrowsFromItself DEF WellFormed
<1> DEFINE word == About("DELETE_ROOM_SEC", Asked(c))
           members == SecureRoom(c).members
<1>1. secure' = [secure EXCEPT !.telling[c] = word, !.todo[c] = members] /\ UNCHANGED fromSecure
  BY Zenon DEF SecRemove
<1>2. word \in Word /\ members \in SUBSET Client
  BY SecureRoomSays, SpokenIsWord DEF About, Spoken, RoomState
<1> HIDE DEF word, members
<1>3. secure' \in SecureState /\ secure'.dealing = secure.dealing
  BY <1>0, <1>1, <1>2 DEF SecureState
<1>4. QED
  BY <1>0, <1>1, <1>3 DEF SecureTyped

LEMMA SecureIgnoresTyped == ASSUME WellFormed, SecureIgnores PROVE SecureTyped(Talk)
  BY GrowsFromItself DEF SecureIgnores, SecureTyped, WellFormed

\* Rooms: made, joined, left.
LEMMA SecureRoomsTyped ==
  ASSUME WellFormed, NEW c \in Client
  PROVE  SecCreate(c) \/ SecJoin(c) \/ SecQuit(c) \/ SecDelete(c) => SecureTyped(Talk)
<1>0. secure \in SecureState /\ fromSecure \in Queues
  BY DEF WellFormed
<1>1. ASSUME NEW code \in {"CREATE_ROOM_SEC", "JOIN_ROOM_SEC", "QUIT_ROOM_SEC", "DELETE_ROOM_SEC"},
             SecureServes(c, code)
      PROVE  /\ toSecure[c] # <<>> /\ Head(toSecure[c]).code \in AboutRoom
             /\ Asked(c) \in Room /\ SecureRoom(c) \in RoomState
  <2>1. toSecure[c] # <<>> /\ Head(toSecure[c]).code = code
    BY <1>1, SecureServesSays
  <2>2. Head(toSecure[c]).code \in AboutRoom
    BY <2>1 DEF AboutRoom
  <2>3. QED
    BY <2>1, <2>2, SecureRoomSays
<1>2. ASSUME SecCreate(c) PROVE SecureTyped(Talk)
  <2>1. SecureServes(c, "CREATE_ROOM_SEC")
    BY <1>2, Zenon DEF SecCreate
  <2>2. toSecure[c] # <<>> /\ Head(toSecure[c]).code \in AboutRoom /\ Asked(c) \in Room
    BY <1>1, <2>1
  <2>3. CASE SecureTells({c}, About("CREATE_ROOM_KO", Asked(c))) /\ UNCHANGED secure
    <3>1. About("CREATE_ROOM_KO", Asked(c)) \in Mail /\ About("CREATE_ROOM_KO", Asked(c)).code = "CREATE_ROOM_KO"
      BY <2>2, SecureRoomSays DEF About, Msg
    <3>2. fromSecure' \in Queues /\ Grows(fromSecure, fromSecure', Talk)
      BY <2>3, <3>1, SecureTellsSays DEF Talk, Conversation, Session
    <3>3. QED
      BY <1>0, <2>3, <3>2 DEF SecureTyped
  <2>4. CASE SecBegins(c, [admin |-> c, members |-> {c}], c, FreshKey)
    <3>1. Head(toSecure[c]).code \in Spoken
      BY <2>1, SecureServesSays DEF Spoken
    <3>2. QED
      BY <2>2, <2>4, <3>1, FreshKeyIsKey, RoomStates, SecBeginsSays
  <2>5. QED
    BY <1>2, <2>3, <2>4, Zenon DEF SecCreate
<1>3. ASSUME SecJoin(c) PROVE SecureTyped(Talk)
  <2>1. SecureServes(c, "JOIN_ROOM_SEC") /\ UNCHANGED secure
        /\ \E users : SecureTells(users, Msg("ASK_JOIN_ROOM_SEC", Asked(c), c, NoKey))
    BY <1>3, Zenon DEF SecJoin
  <2>2. Msg("ASK_JOIN_ROOM_SEC", Asked(c), c, NoKey) \in Mail
    BY <1>1, <2>1, AskIsMail
  <2>3. Msg("ASK_JOIN_ROOM_SEC", Asked(c), c, NoKey).code = "ASK_JOIN_ROOM_SEC"
    BY DEF Msg
  <2>4. fromSecure' \in Queues /\ Grows(fromSecure, fromSecure', Talk)
    BY <2>1, <2>2, <2>3, SecureTellsSays DEF Talk, Conversation, Session
  <2>5. QED
    BY <1>0, <2>1, <2>4 DEF SecureTyped
<1>4. ASSUME SecQuit(c) PROVE SecureTyped(Talk)
  <2>1. SecureServes(c, "QUIT_ROOM_SEC")
    BY <1>4, Zenon DEF SecQuit
  <2>2. /\ toSecure[c] # <<>> /\ Head(toSecure[c]).code \in AboutRoom
        /\ Asked(c) \in Room /\ SecureRoom(c) \in RoomState
    BY <1>1, <2>1
  <2>3. CASE SecBegins(c, [SecureRoom(c) EXCEPT !.members = @ \ {c}], c, NoKey)
    <3>1. Head(toSecure[c]).code \in Spoken
      BY <2>1, SecureServesSays DEF Spoken
    <3>2. [SecureRoom(c) EXCEPT !.members = @ \ {c}] \in RoomState
      BY <2>2, RoomStates
    <3>3. QED
      BY <2>2, <2>3, <3>1, <3>2, SecBeginsSays
  <2>4. CASE SecRemove(c)
    BY <2>2, <2>4, SecureRemoveTyped
  <2>5. CASE SecureIgnores
    BY <2>5, SecureIgnoresTyped
  <2>6. QED
    BY <1>4, <2>3, <2>4, <2>5, Zenon DEF SecQuit
<1>5. ASSUME SecDelete(c) PROVE SecureTyped(Talk)
  <2>1. SecureServes(c, "DELETE_ROOM_SEC") /\ (SecRemove(c) \/ SecureIgnores)
    BY <1>5, Zenon DEF SecDelete
  <2>2. toSecure[c] # <<>> /\ Head(toSecure[c]).code \in AboutRoom
    BY <1>1, <2>1
  <2>3. QED
    BY <2>1, <2>2, SecureRemoveTyped, SecureIgnoresTyped
<1>6. QED
  BY <1>2, <1>3, <1>4, <1>5

\* The decisions of the admin.
LEMMA SecureDecisionsTyped ==
  ASSUME WellFormed, NEW c \in Client
  PROVE  SecAccept(c) \/ SecEject(c) => SecureTyped(Talk)
<1>1. ASSUME NEW code \in {"ACCEPT_JOIN_ROOM_SEC", "EJECT_FROM_ROOM_SEC"}, SecureServes(c, code)
      PROVE  /\ toSecure[c] # <<>> /\ Head(toSecure[c]).code \in Spoken
             /\ Asked(c) \in Room /\ SecureRoom(c) \in RoomState
             /\ Head(toSecure[c]).from \in Client \cup {NULL}
  <2>1. toSecure[c] # <<>> /\ Head(toSecure[c]).code = code /\ Head(toSecure[c]) \in Mail
    BY <1>1, SecureServesSays
  <2>2. Head(toSecure[c]).code \in AboutRoom /\ Head(toSecure[c]).code \in Spoken
    BY <2>1 DEF AboutRoom, Spoken
  <2>3. Head(toSecure[c]).from \in Client \cup {NULL}
    BY <2>1 DEF Mail, Message
  <2>4. QED
    BY <2>1, <2>2, <2>3, SecureRoomSays
<1>2. ASSUME SecAccept(c) PROVE SecureTyped(Talk)
  <2> DEFINE claimer == Head(toSecure[c]).from
             room == [SecureRoom(c) EXCEPT !.members = @ \cup {claimer}]
  <2>1. SecureServes(c, "ACCEPT_JOIN_ROOM_SEC")
    BY <1>2, Zenon DEF SecAccept
  <2>2. /\ toSecure[c] # <<>> /\ Head(toSecure[c]).code \in Spoken
        /\ Asked(c) \in Room /\ SecureRoom(c) \in RoomState
    BY <1>1, <2>1
  <2>3. SecureIgnores \/ (claimer \in secure.users /\ SecBegins(c, room, claimer, FreshKey))
    BY <1>2, Zenon DEF SecAccept
  <2>4. secure.users \subseteq Client
    BY DEF WellFormed, SecureState
  <2>5. CASE claimer \in Client /\ SecBegins(c, room, claimer, FreshKey)
    <3>1. room \in RoomState
      BY <2>2, <2>5, RoomStates
    <3> HIDE DEF room, claimer
    <3>2. QED
      BY <2>2, <2>5, <3>1, FreshKeyIsKey, SecBeginsSays
  <2>6. QED
    BY <2>3, <2>4, <2>5, SecureIgnoresTyped
<1>3. ASSUME SecEject(c) PROVE SecureTyped(Talk)
  <2> DEFINE claimer == Head(toSecure[c]).from
             room == [SecureRoom(c) EXCEPT !.members = @ \ {claimer}]
  <2>1. SecureServes(c, "EJECT_FROM_ROOM_SEC")
    BY <1>3, Zenon DEF SecEject
  <2>2. /\ toSecure[c] # <<>> /\ Head(toSecure[c]).code \in Spoken
        /\ Asked(c) \in Room /\ SecureRoom(c) \in RoomState /\ claimer \in Client \cup {NULL}
    BY <1>1, <2>1
  <2>3. SecureIgnores \/ SecBegins(c, room, claimer, FreshKey)
    BY <1>3, Zenon DEF SecEject
  <2>4. room \in RoomState
    BY <2>2, RoomStates
  <2> HIDE DEF room, claimer
  <2>5. QED
    BY <2>2, <2>3, <2>4, FreshKeyIsKey, SecBeginsSays, SecureIgnoresTyped
<1>4. QED
  BY <1>2, <1>3

\* The second half: what is to be said is said, to one after the other.
LEMMA SecureTellingTyped ==
  ASSUME WellFormed, NEW c \in Client
  PROVE  SecTellFirst(c) \/ SecTellNext(c) \/ SecTold(c) =>
           SecureTyped(Talk) /\ UNCHANGED <<plain, client, toPlain, toSecure, fromPlain>>
<1> DEFINE it == secure.telling[c]
<1>0. /\ secure \in SecureState /\ fromSecure \in Queues /\ Grows(fromSecure, fromSecure, Talk)
      /\ it \in Word
  BY GrowsFromItself DEF WellFormed, SecureState
<1>1. ASSUME it.code \in Spoken
      PROVE  /\ it.name \in Room /\ it.k \in Key \cup {NoKey} /\ it.from \in Client \cup {NULL}
             /\ \A code \in Spoken :
                  /\ Msg(code, it.name, NULL, it.k) \in Word /\ About(code, it.name) \in Word
  <2>1. it.code \in AboutRoom
    BY <1>1 DEF Spoken, AboutRoom
  <2>2. it.name \in Room /\ it.k \in Key \cup {NoKey} /\ it.from \in Client \cup {NULL}
    BY <1>0, <2>1 DEF Word, Mail, Message
  <2> HIDE DEF it
  <2>3. QED
    BY <2>2, SpokenIsWord DEF About
<1>2. ASSUME NEW users, NEW m \in Word, SecureTells(users, m)
      PROVE  fromSecure' \in Queues /\ Grows(fromSecure, fromSecure', Talk)
  BY <1>2, SecureTellsSays DEF Word
<1>3. ASSUME NEW m \in Word, NEW users \in SUBSET Client,
             secure' = [secure EXCEPT !.telling[c] = m, !.todo[c] = users]
      PROVE  secure' \in SecureState /\ secure'.dealing = secure.dealing
  BY <1>0, <1>3 DEF SecureState
<1>4. ASSUME SecTellFirst(c)
      PROVE  SecureTyped(Talk) /\ UNCHANGED <<plain, client, toPlain, toSecure, fromPlain>>
  <2> DEFINE keys(code) == Msg(code, it.name, NULL, it.k)
             Becomes(m, users) == secure' = [secure EXCEPT !.telling[c] = m, !.todo[c] = users]
             members == secure.rooms[it.name].members
  <2>1. /\ it.code \in {"CREATE_ROOM_SEC", "ACCEPT_JOIN_ROOM_SEC", "EJECT_FROM_ROOM_SEC", "QUIT_ROOM_SEC"}
        /\ UNCHANGED <<plain, client, toPlain, toSecure, fromPlain>>
    BY <1>4, Zenon DEF SecTellFirst, SecTells
  <2>2. /\ \/ SecureTells({it.from}, About("QUIT_ROOM_SEC", it.name))
           \/ SecureTells({it.from}, keys("CREATE_ROOM_SEC"))
        /\ \/ Becomes(keys("JOIN_ROOM_SEC"), members)
           \/ Becomes(keys("REFRESH_KEYIV"), members)
           \/ Becomes(NotDealing, {})
    BY <1>4, <2>1 DEF SecTellFirst
  <2>3. /\ it.name \in Room /\ About("QUIT_ROOM_SEC", it.name) \in Word
        /\ keys("CREATE_ROOM_SEC") \in Word /\ keys("JOIN_ROOM_SEC") \in Word /\ keys("REFRESH_KEYIV") \in Word
    BY <1>1, <2>1 DEF Spoken
  <2>4. members \in SUBSET Client
    BY <1>0, <2>3 DEF SecureState, RoomState
  <2> HIDE DEF keys, members, it
  <2>5. fromSecure' \in Queues /\ Grows(fromSecure, fromSecure', Talk)
    BY <1>2, <2>2, <2>3
  <2>6. secure' \in SecureState /\ secure'.dealing = secure.dealing
    <3>1. PICK m \in Word, users \in SUBSET Client : Becomes(m, users)
      <4>1. {} \in SUBSET Client /\ NotDealing \in Word
        BY NoneIsWord
      <4> HIDE DEF Becomes
      <4>2. QED
        BY <2>2, <2>3, <2>4, <4>1
    <3>2. QED
      BY <1>3, <3>1
  <2>7. QED
    BY <2>1, <2>5, <2>6 DEF SecureTyped
<1>5. ASSUME SecTellNext(c)
      PROVE  SecureTyped(Talk) /\ UNCHANGED <<plain, client, toPlain, toSecure, fromPlain>>
  <2>1. it.code \in Notices /\ UNCHANGED <<plain, client, toPlain, toSecure, fromPlain>>
    BY <1>5, Zenon DEF SecTellNext, SecTells
  <2>2. PICK d \in secure.todo[c] :
          /\ SecureTells({d}, IF it.code = "DELETE_ROOM_SEC" THEN About("QUIT_ROOM_SEC", it.name) ELSE it)
          /\ secure' = [secure EXCEPT !.todo[c] = @ \ {d},
               !.telling[c] = IF secure.todo[c] = {d} /\ it.code # "DELETE_ROOM_SEC" THEN NotDealing ELSE @]
    BY <1>5, Zenon DEF SecTellNext
  <2>3. About("QUIT_ROOM_SEC", it.name) \in Word
    BY <1>1, <2>1 DEF Spoken, Notices
  <2>4. fromSecure' \in Queues /\ Grows(fromSecure, fromSecure', Talk)
    BY <1>0, <1>2, <2>2, <2>3
  <2>5. secure' \in SecureState /\ secure'.dealing = secure.dealing
    BY <1>0, <2>2, NoneIsWord DEF SecureState
  <2>6. QED
    BY <2>1, <2>4, <2>5 DEF SecureTyped
<1>6. ASSUME SecTold(c)
      PROVE  SecureTyped(Talk) /\ UNCHANGED <<plain, client, toPlain, toSecure, fromPlain>>
  <2>1. /\ it.code \in Notices /\ UNCHANGED <<plain, client, toPlain, toSecure, fromPlain, fromSecure>>
        /\ \/ secure' = [secure EXCEPT !.telling[c] = NotDealing, !.rooms[it.name] = Closed]
           \/ secure' = [secure EXCEPT !.telling[c] = NotDealing]
    BY <1>6, Zenon DEF SecTold, SecTells
  <2>2. secure' \in SecureState /\ secure'.dealing = secure.dealing
    <3>1. CASE secure' = [secure EXCEPT !.telling[c] = NotDealing, !.rooms[it.name] = Closed]
      <4>1. Closed \in RoomState /\ it.name \in Room
        BY <1>1, <2>1, RoomStates DEF Notices, Spoken
      <4> HIDE DEF it
      <4>2. QED
        BY <1>0, <3>1, <4>1, NoneIsWord DEF SecureState
    <3>2. CASE secure' = [secure EXCEPT !.telling[c] = NotDealing]
      BY <1>0, <3>2, NoneIsWord DEF SecureState
    <3>3. QED
      BY <2>1, <3>1, <3>2
  <2>3. QED
    BY <1>0, <2>1, <2>2 DEF SecureTyped
<1>7. QED
  BY <1>4, <1>5, <1>6

\* Logging in and out.
LEMMA SecureLoginsTyped ==
  ASSUME WellFormed, NEW c \in Client
  PROVE  SecConnect(c) \/ SecConfirm(c) \/ SecDelAccount(c) \/ SecLeave(c) \/ SecStopped(c) => SecureTyped(Conversation)
<1>0. secure \in SecureState /\ fromSecure \in Queues /\ Grows(fromSecure, fromSecure, Conversation)
  BY GrowsFromItself DEF WellFormed
<1>1. ASSUME NEW code \in {"CONNECT_SEC", "CONNECT_SEC_KO", "CONNECT_SEC_OK", "DEL_ACCOUNT_SEC", "DISCONNECT_SEC"},
             SecureTells({c}, Signal(code))
      PROVE  fromSecure' \in Queues /\ Grows(fromSecure, fromSecure', Conversation)
  <2>1. Signal(code) \in Mail /\ Signal(code).code = code
    BY SignalIsMail DEF Session, Signal, About, Msg
  <2>2. QED
    BY <1>1, <2>1, SecureTellsSays DEF Conversation
<1>2. ASSUME SecConnect(c) PROVE SecureTyped(Conversation)
  <2>1. \/ SecureTells({c}, Signal("CONNECT_SEC_KO")) /\ UNCHANGED secure
        \/ /\ secure' = [secure EXCEPT !.users = @ \cup {c}, !.accounts = @ \cup {c},
               !.first_connection = IF c \in secure.accounts THEN @ ELSE @ \cup {c}]
           /\ SecureTells({c}, Signal("CONNECT_SEC"))
    BY <1>2, Zenon DEF SecConnect
  <2>2. secure' \in SecureState /\ secure'.dealing = secure.dealing
    <3>1. CASE secure' = secure
      BY <1>0, <3>1
    <3>2. CASE secure' = [secure EXCEPT !.users = @ \cup {c}, !.accounts = @ \cup {c},
                 !.first_connection = IF c \in secure.accounts THEN @ ELSE @ \cup {c}]
      BY <1>0, <3>2 DEF SecureState
    <3>3. QED
      BY <2>1, <3>1, <3>2
  <2>3. QED
    BY <1>1, <2>1, <2>2 DEF SecureTyped
<1>3. ASSUME SecConfirm(c) PROVE SecureTyped(Conversation)
  <2>1. secure' = [secure EXCEPT !.first_connection = @ \ {c}]
    BY <1>3, Zenon DEF SecConfirm
  <2>2. secure' \in SecureState /\ secure'.dealing = secure.dealing
    BY <1>0, <2>1 DEF SecureState
  <2>3. QED
    BY <1>1, <1>3, <2>2 DEF SecConfirm, SecureTyped
<1>4. ASSUME SecDelAccount(c) PROVE SecureTyped(Conversation)
  <2>1. secure' = [secure EXCEPT !.accounts = @ \ {c}]
    BY <1>4, Zenon DEF SecDelAccount
  <2>2. secure' \in SecureState /\ secure'.dealing = secure.dealing
    BY <1>0, <2>1 DEF SecureState
  <2>3. QED
    BY <1>1, <1>4, <2>2 DEF SecDelAccount, SecureTyped
<1>5. ASSUME SecLeave(c) PROVE SecureTyped(Conversation)
  <2> DEFINE rooms == [r \in Room |-> IF c \in secure.rooms[r].members THEN Closed ELSE secure.rooms[r]]
             accounts == IF c \in secure.first_connection THEN secure.accounts \ {c} ELSE secure.accounts
  <2>1. secure' = [secure EXCEPT !.users = @ \ {c}, !.ended = @ \cup {c}, !.accounts = accounts, !.rooms = rooms]
    BY <1>5 DEF SecLeave
  <2>2. rooms \in [Room -> RoomState] /\ accounts \in SUBSET Client
    BY <1>0, RoomStates DEF SecureState
  <2> HIDE DEF rooms, accounts
  <2>3. secure' \in SecureState /\ secure'.dealing = secure.dealing
    BY <1>0, <2>1, <2>2 DEF SecureState
  <2>4. QED
    BY <1>1, <1>5, <2>3 DEF SecLeave, SecureTyped
<1>6. ASSUME SecStopped(c) PROVE SecureTyped(Conversation)
  <2>1. secure' = [secure EXCEPT !.ended = @ \cup {c}] /\ UNCHANGED fromSecure
    BY <1>6, Zenon DEF SecStopped
  <2>2. secure' \in SecureState /\ secure'.dealing = secure.dealing
    BY <1>0, <2>1 DEF SecureState
  <2>3. QED
    BY <1>0, <2>1, <2>2 DEF SecureTyped
<1>7. QED
  BY <1>2, <1>3, <1>4, <1>5, <1>6

----------------------------------------------------------------------------
(***************************************************************************)
(* How a step may change what clients know of each other, and what is on   *)
(* its way to them.                                                        *)
(***************************************************************************)
KeysKept == \A x, d \in Client : client'[x].keys[d] = client[x].keys[d]

\* Nobody learns anything, and no keys of a conversation are sent.
Plainly ==
  /\ secure'.dealing = secure.dealing /\ KeysKept /\ Running' = Running
  /\ Grows(fromSecure, fromSecure', Conversation)

\* A client reads a message.
Learns(c) ==
  /\ fromSecure[c] # <<>> /\ fromSecure' = [fromSecure EXCEPT ![c] = Tail(@)]
  /\ \A x, d \in Client :
       client'[x].keys[d] = IF x = c /\ IsDeal(Head(fromSecure[c]), d) THEN Head(fromSecure[c]).k
                                                                     ELSE client[x].keys[d]
  /\ secure'.dealing = secure.dealing /\ Running' = Running

\* A client stops, and reads no more.
Stops(c) ==
  /\ fromSecure' = [fromSecure EXCEPT ![c] = <<>>]
  /\ \A x \in Client \ {c}, d \in Client : client'[x].keys[d] = client[x].keys[d]
  /\ secure'.dealing = secure.dealing /\ Running' = Running \ {c}

\* The secure server makes keys, or passes them on.
DealStep(c) == (SecMp(c) \/ SecMpDeal(c)) /\ KeysKept /\ Running' = Running

LEMMA SecureMpTyped ==
  ASSUME WellFormed, NEW c \in Client, SecMp(c)
  PROVE  /\ secure' \in SecureState /\ fromSecure' \in Queues
         /\ \/ secure' = secure /\ fromSecure' = fromSecure
            \/ \E d \in Client, k \in Key :
                 /\ k = FreshKey /\ d = Asked(c) /\ secure.dealing[c] = NotDealing
                 /\ secure'.dealing = [secure.dealing EXCEPT ![c] = Msg("MP_SEC", d, NULL, k)]
                 /\ Msg("MP_SEC_OK", d, NULL, k) \in Mail
                 /\ fromSecure' = Put(fromSecure, {c} \cap Running, Msg("MP_SEC_OK", d, NULL, k))
<1>0. secure \in SecureState /\ fromSecure \in Queues
  BY DEF WellFormed
<1>1. SecureServes(c, "MP_SEC")
  BY Zenon DEF SecMp
<1>2. Asked(c) \in Client /\ secure.dealing[c] = NotDealing
  <2>1. Head(toSecure[c]) \in Mail /\ Head(toSecure[c]).code = "MP_SEC" /\ secure.dealing[c] = NotDealing
    BY <1>1, SecureServesSays
  <2>2. QED
    BY <2>1, MailSays DEF Asked, AboutClient
<1>3. FreshKey \in Key
  BY FreshKeyIsKey
<1>4. SUFFICES ASSUME NEW d \in Client, d = Asked(c), NEW k \in Key, k = FreshKey
               PROVE  /\ secure' \in SecureState /\ fromSecure' \in Queues
                      /\ \/ secure' = secure /\ fromSecure' = fromSecure
                         \/ /\ secure'.dealing = [secure.dealing EXCEPT ![c] = Msg("MP_SEC", d, NULL, k)]
                            /\ Msg("MP_SEC_OK", d, NULL, k) \in Mail
                            /\ fromSecure' = Put(fromSecure, {c} \cap Running, Msg("MP_SEC_OK", d, NULL, k))
  BY <1>2, <1>3
<1>5. CASE SecureIgnores
  BY <1>0, <1>5 DEF SecureIgnores
<1>6. CASE /\ secure' = [secure EXCEPT !.dealing[c] = Msg("MP_SEC", d, NULL, k)]
           /\ SecureTells({c}, Msg("MP_SEC_OK", d, NULL, k))
  <2>1. Msg("MP_SEC_OK", d, NULL, k) \in Mail /\ Msg("MP_SEC", d, NULL, k) \in Message
    BY ConversationIsMail
  <2>2. /\ secure' \in SecureState
        /\ secure'.dealing = [secure.dealing EXCEPT ![c] = Msg("MP_SEC", d, NULL, k)]
    BY <1>0, <1>6, <2>1 DEF SecureState
  <2>3. /\ fromSecure' \in Queues
        /\ fromSecure' = Put(fromSecure, {c} \cap Running, Msg("MP_SEC_OK", d, NULL, k))
    BY <1>6, <2>1, SecureTellsSays DEF SecureTells
  <2>4. QED
    BY <2>1, <2>2, <2>3
<1>7. QED
  BY <1>4, <1>5, <1>6, Zenon DEF SecMp

LEMMA SecureMpDealTyped ==
  ASSUME WellFormed, KeysComeFirst, NEW c \in Client, SecMpDeal(c)
  PROVE  /\ secure' \in SecureState /\ fromSecure' \in Queues
         /\ secure.dealing[c] # NotDealing
         /\ \E d \in Client, k \in Key :
              /\ d = secure.dealing[c].name /\ k = secure.dealing[c].k
              /\ Msg("MP_SEC_OK", c, NULL, k) \in Mail /\ About("MP_SEC", d) \in Mail
              /\ secure'.dealing = [secure.dealing EXCEPT ![c] = NotDealing]
              /\ Put(fromSecure, {d} \cap Running, Msg("MP_SEC_OK", c, NULL, k)) \in Queues
              /\ fromSecure' = Put(Put(fromSecure, {d} \cap Running, Msg("MP_SEC_OK", c, NULL, k)),
                                   {c} \cap Running, About("MP_SEC", d))
<1>0. secure \in SecureState /\ fromSecure \in Queues
  BY DEF WellFormed
<1>1. /\ secure.dealing[c] # NotDealing
      /\ fromSecure' = Put(Put(fromSecure, {secure.dealing[c].name} \cap Running,
                               Msg("MP_SEC_OK", c, NULL, secure.dealing[c].k)),
                           {c} \cap Running, About("MP_SEC", secure.dealing[c].name))
      /\ secure' = [secure EXCEPT !.dealing[c] = NotDealing]
  BY Zenon DEF SecMpDeal
<1>2. secure.dealing[c].name \in Client /\ secure.dealing[c].k \in Key
  BY <1>1 DEF KeysComeFirst, Deal
<1>3. NotDealing \in Message
  BY DEF NotDealing, About, Msg, Message, Code
<1>4. secure' \in SecureState /\ secure'.dealing = [secure.dealing EXCEPT ![c] = NotDealing]
  BY <1>0, <1>1, <1>3 DEF SecureState
<1>5. SUFFICES ASSUME NEW d \in Client, d = secure.dealing[c].name, NEW k \in Key, k = secure.dealing[c].k
               PROVE  /\ fromSecure' \in Queues
                      /\ Msg("MP_SEC_OK", c, NULL, k) \in Mail /\ About("MP_SEC", d) \in Mail
                      /\ Put(fromSecure, {d} \cap Running, Msg("MP_SEC_OK", c, NULL, k)) \in Queues
                      /\ fromSecure' = Put(Put(fromSecure, {d} \cap Running, Msg("MP_SEC_OK", c, NULL, k)),
                                           {c} \cap Running, About("MP_SEC", d))
  BY <1>1, <1>2, <1>4
<1>6. Msg("MP_SEC_OK", c, NULL, k) \in Mail /\ About("MP_SEC", d) \in Mail
  BY ConversationIsMail
<1>7. Put(fromSecure, {d} \cap Running, Msg("MP_SEC_OK", c, NULL, k)) \in Queues
  BY <1>0, <1>6, PutSays
<1>8. fromSecure' = Put(Put(fromSecure, {d} \cap Running, Msg("MP_SEC_OK", c, NULL, k)),
                        {c} \cap Running, About("MP_SEC", d))
  BY <1>1, <1>5
<1>9. QED
  BY <1>6, <1>7, <1>8, PutSays

LEMMA SecureServerTyped ==
  ASSUME WellFormed, KeysComeFirst, NEW c \in Client, SecureServer(c)
  PROVE  /\ secure' \in SecureState /\ fromSecure' \in Queues /\ toSecure' \in Queues
         /\ UNCHANGED <<plain, client, toPlain, fromPlain>>
         /\ Plainly \/ DealStep(c)
<1>1. ASSUME \E code : SecureServes(c, code)
      PROVE  toSecure' \in Queues /\ UNCHANGED <<plain, client, toPlain, fromPlain>>
  BY <1>1, SecureServesSays
<1>2. ASSUME NEW code, SecureEnds(c, code)
      PROVE  toSecure' \in Queues /\ UNCHANGED <<plain, client, toPlain, fromPlain>>
  <2>1. toSecure' = [toSecure EXCEPT ![c] = <<>>] /\ UNCHANGED <<plain, client, toPlain, fromPlain>>
    BY <1>2, Zenon DEF SecureEnds
  <2>2. [toSecure EXCEPT ![c] = <<>>] \in Queues
    BY CutSays DEF WellFormed
  <2>3. QED
    BY <2>1, <2>2
<1>3. ASSUME SecMpDeal(c)
      PROVE  toSecure' \in Queues /\ UNCHANGED <<plain, client, toPlain, fromPlain>>
  <2>1. UNCHANGED <<plain, client, toPlain, toSecure, fromPlain>>
    BY <1>3, Zenon DEF SecMpDeal
  <2>2. QED
    BY <2>1 DEF WellFormed
<1>4. \/ \E code : SecureServes(c, code)
      \/ \E code : SecureEnds(c, code)
      \/ SecMpDeal(c)
      \/ SecTellFirst(c) \/ SecTellNext(c) \/ SecTold(c)
  BY Zenon DEF SecureServer, SecConnect, SecConfirm, SecCreate, SecJoin, SecAccept, SecEject, SecQuit,
               SecDelete, SecMp, SecDelAccount, SecLeave, SecStopped
<1>5. toSecure' \in Queues /\ UNCHANGED <<plain, client, toPlain, fromPlain>>
  BY <1>1, <1>2, <1>3, <1>4, SecureTellingTyped DEF WellFormed
<1>6. KeysKept /\ Running' = Running
  BY <1>5 DEF KeysKept, Running
<1>7. CASE SecMp(c)
  BY <1>5, <1>6, <1>7, SecureMpTyped DEF DealStep
<1>8. CASE SecMpDeal(c)
  BY <1>5, <1>6, <1>8, SecureMpDealTyped DEF DealStep
<1>9. CASE SecureTyped(Conversation) \/ SecureTyped(Talk)
  BY <1>5, <1>6, <1>9 DEF SecureTyped, Plainly, Grows, Talk
<1>10. SecureTyped(Conversation) \/ SecureTyped(Talk) \/ SecMp(c) \/ SecMpDeal(c)
  BY SecureLoginsTyped, SecureRoomsTyped, SecureDecisionsTyped, SecureTellingTyped DEF SecureServer
<1>11. QED
  BY <1>7, <1>8, <1>9, <1>10

----------------------------------------------------------------------------
(***************************************************************************)
(* What a client types keeps the types.                                    *)
(***************************************************************************)
ClientTyped ==
  client' \in [Client -> ClientState] /\ \A x \in Client : client'[x].typed \in 0 .. setting.typed[x]

LoginsKept ==
  \A x \in Client : client'[x].status = client[x].status /\ client'[x].login = client[x].login

ClientKept == ClientTyped /\ KeysKept /\ LoginsKept

LEMMA BoundIsNat == ASSUME WellFormed, NEW c \in Client PROVE setting.typed[c] \in Nat
  BY ConstantsAssumption DEF WellFormed

\* The client after a command, with what it asks about and knows of rooms.
LEMMA TypedKept ==
  ASSUME WellFormed, Bounded, NEW c \in Client, NEW code, MayType(c, code)
  PROVE  /\ client' = Typed(c) => ClientKept
         /\ \A r \in Room : client' = [Typed(c) EXCEPT ![c].keys[r] = NoKey] => ClientKept
         /\ \A p : client' = [Typed(c) EXCEPT ![c].asked = @ \ {p}] => ClientKept
<1>0. client \in [Client -> ClientState] /\ setting.typed[c] \in Nat
  BY BoundIsNat DEF WellFormed
<1>1. client[c].typed < setting.typed[c] /\ client[c].typed \in Nat /\ client[c].typed + 1 \in 0 .. setting.typed[c]
  BY <1>0 DEF MayType, ClientState
<1>2. \A x \in Client : client[x].typed \in 0 .. setting.typed[x]
  BY DEF Bounded
<1>3. \A r \in Room : r \notin Client
  BY ConstantsAssumption
<1>4. /\ Typed(c) \in [Client -> ClientState]
      /\ \A x \in Client : Typed(c)[x] = IF x = c THEN [client[c] EXCEPT !.typed = @ + 1] ELSE client[x]
  BY <1>0, <1>1 DEF Typed, ClientState
<1>5. /\ Typed(c)[c].typed \in 0 .. setting.typed[c]
      /\ Typed(c)[c].keys = client[c].keys /\ Typed(c)[c].status = client[c].status
      /\ Typed(c)[c].login = client[c].login
      /\ \A x \in Client \ {c} : Typed(c)[x] = client[x]
  BY <1>0, <1>1, <1>4 DEF ClientState
<1>6. SUFFICES ASSUME NEW t \in [Client -> ClientState], t = Typed(c)
               PROVE  /\ client' = t => ClientKept
                      /\ \A r \in Room : client' = [t EXCEPT ![c].keys[r] = NoKey] => ClientKept
                      /\ \A p : client' = [t EXCEPT ![c].asked = @ \ {p}] => ClientKept
  BY <1>4
<1>7. /\ t[c].typed \in 0 .. setting.typed[c]
      /\ t[c].keys = client[c].keys /\ t[c].status = client[c].status /\ t[c].login = client[c].login
      /\ \A x \in Client \ {c} : t[x] = client[x]
  BY <1>5, <1>6
<1>8. ASSUME client' = t PROVE ClientKept
  BY <1>2, <1>7, <1>8 DEF ClientKept, ClientTyped, KeysKept, LoginsKept
<1>9. ASSUME NEW r \in Room, client' = [t EXCEPT ![c].keys[r] = NoKey] PROVE ClientKept
  <2>1. t[c].keys \in [Name -> Key \cup {NoKey, Absent}] /\ \A d \in Client : d \in Name
    BY DEF ClientState, Name
  <2>2. [t[c].keys EXCEPT ![r] = NoKey] \in [Name -> Key \cup {NoKey, Absent}]
    BY <2>1
  <2>3. client' = [t EXCEPT ![c] = [t[c] EXCEPT !.keys = [t[c].keys EXCEPT ![r] = NoKey]]]
    BY <1>9
  <2>4. client' \in [Client -> ClientState]
    <3>1. ASSUME NEW k, k \in [Name -> Key \cup {NoKey, Absent}] PROVE [t[c] EXCEPT !.keys = k] \in ClientState
      <4>1. t[c] \in ClientState
        OBVIOUS
      <4>2. QED
        BY <3>1, <4>1 DEF ClientState
    <3>2. [t[c] EXCEPT !.keys = [t[c].keys EXCEPT ![r] = NoKey]] \in ClientState
      BY <2>2, <3>1
    <3>3. ASSUME NEW v \in ClientState PROVE [t EXCEPT ![c] = v] \in [Client -> ClientState]
      OBVIOUS
    <3>4. QED
      BY <2>3, <3>2, <3>3
  <2>5. \A d \in Client : [t[c].keys EXCEPT ![r] = NoKey][d] = t[c].keys[d]
    BY <1>3, <2>1
  <2> DEFINE k == [t[c].keys EXCEPT ![r] = NoKey]
  <2>6. /\ client'[c].keys = k /\ client'[c].typed = t[c].typed
        /\ client'[c].status = t[c].status /\ client'[c].login = t[c].login
        /\ \A x \in Client \ {c} : client'[x] = t[x]
    <3> HIDE DEF k
    <3>1. client' = [t EXCEPT ![c] = [t[c] EXCEPT !.keys = k]]
      BY <2>3 DEF k
    <3>2. QED
      BY <3>1 DEF ClientState
  <2>7. \A d \in Client : client'[c].keys[d] = client[c].keys[d]
    BY <1>7, <2>5, <2>6
  <2> HIDE DEF k
  <2>8. /\ client'[c].typed = t[c].typed
        /\ client'[c].status = t[c].status /\ client'[c].login = t[c].login
        /\ \A x \in Client \ {c} : client'[x] = t[x]
    BY <2>6
  <2>9. QED
    BY <1>2, <1>7, <2>4, <2>7, <2>8 DEF ClientKept, ClientTyped, KeysKept, LoginsKept
<1>10. ASSUME NEW p, client' = [t EXCEPT ![c].asked = @ \ {p}] PROVE ClientKept
  <2> DEFINE new == [t[c] EXCEPT !.asked = t[c].asked \ {p}]
  <2>1. client' = [t EXCEPT ![c] = new]
    BY <1>10
  <2>2. client' \in [Client -> ClientState]
    <3>1. t[c] \in ClientState
      OBVIOUS
    <3>2. new \in ClientState
      BY <3>1 DEF ClientState
    <3> HIDE DEF new
    <3>3. QED
      BY <2>1, <3>2
  <2>3. /\ client'[c].keys = t[c].keys /\ client'[c].typed = t[c].typed
        /\ client'[c].status = t[c].status /\ client'[c].login = t[c].login
        /\ \A x \in Client \ {c} : client'[x] = t[x]
    BY <2>1 DEF ClientState
  <2>4. QED
    BY <1>2, <1>7, <2>2, <2>3 DEF ClientKept, ClientTyped, KeysKept, LoginsKept
<1>11. QED
  BY <1>8, <1>9, <1>10

\* What a client sends, on connections that are open.
SentPlain(codes) ==
  /\ toPlain' \in Queues /\ Grows(toPlain, toPlain', codes)
  /\ \A x \in plain.ended : toPlain'[x] = toPlain[x]

SentSecure(codes) ==
  /\ toSecure' \in Queues /\ Grows(toSecure, toSecure', codes)
  /\ \A x \in secure.ended : toSecure'[x] = toSecure[x]

LEMMA SendSays ==
  ASSUME WellFormed, NEW c \in Client, NEW m \in Mail, NEW codes
  PROVE  /\ SendPlain(c, m) =>
              /\ toPlain' \in Queues /\ (m.code \notin codes => SentPlain(codes))
              /\ \A x \in Client : toPlain'[x] = IF x \in {c} \ plain.ended THEN Append(toPlain[x], m)
                                                                          ELSE toPlain[x]
         /\ SendSecure(c, m) =>
              /\ toSecure' \in Queues /\ (m.code \notin codes => SentSecure(codes))
              /\ \A x \in Client : toSecure'[x] = IF x \in {c} \ secure.ended THEN Append(toSecure[x], m)
                                                                            ELSE toSecure[x]
<1>1. /\ toPlain \in Queues /\ Grows(toPlain, toPlain, codes) /\ plain.ended \subseteq Client
      /\ toSecure \in Queues /\ Grows(toSecure, toSecure, codes) /\ secure.ended \subseteq Client
  BY GrowsFromItself DEF WellFormed, PlainState, SecureState
<1>2. SendPlain(c, m) =>
        /\ toPlain' \in Queues /\ (m.code \notin codes => Grows(toPlain, toPlain', codes))
        /\ \A x \in Client : toPlain'[x] = IF x \in {c} \ plain.ended THEN Append(toPlain[x], m)
                                                                    ELSE toPlain[x]
  BY <1>1, PutSays, PutGrows DEF SendPlain
<1>3. SendSecure(c, m) =>
        /\ toSecure' \in Queues /\ (m.code \notin codes => Grows(toSecure, toSecure', codes))
        /\ \A x \in Client : toSecure'[x] = IF x \in {c} \ secure.ended THEN Append(toSecure[x], m)
                                                                      ELSE toSecure[x]
  BY <1>1, PutSays, PutGrows DEF SendSecure
<1>4. QED
  BY <1>1, <1>2, <1>3 DEF SentPlain, SentSecure

LEMMA NothingSentSays ==
  ASSUME WellFormed, NEW codes
  PROVE  /\ UNCHANGED toPlain => SentPlain(codes)
         /\ UNCHANGED toSecure => SentSecure(codes)
  BY GrowsFromItself DEF WellFormed, SentPlain, SentSecure

\* Commands that are not about logging in or out.
CommandKept == ClientKept /\ SentPlain(Session) /\ SentSecure(Session)

RoomCode == {"CREATE_ROOM", "QUIT_ROOM", "DELETE_ROOM", "JOIN_ROOM", "CREATE_ROOM_SEC", "JOIN_ROOM_SEC",
             "QUIT_ROOM_SEC", "DELETE_ROOM_SEC"}

LEMMA RoomCodeIsMail ==
  ASSUME NEW code \in RoomCode, NEW r \in Room
  PROVE  About(code, r) \in Mail /\ About(code, r).code \notin Session
<1>1. code \in Code \ (AboutClient \cup {"ASK_JOIN_ROOM_SEC"})
  BY DEF RoomCode, Code, AboutClient
<1>2. code \notin Session
  BY DEF RoomCode, Session
<1>3. QED
  BY <1>1, <1>2, AboutIsMail

LEMMA TypeAboutRoomKept ==
  ASSUME WellFormed, Bounded, NEW c \in Client, NEW r \in Room
  PROVE  TypeCreate(c, r) \/ TypeLeave(c, r) \/ TypeJoin(c, r) => CommandKept /\ OnlySent
<1>1. ASSUME NEW code \in RoomCode, NEW next \in RoomCode, SendBoth(c, About(code, r), About(next, r))
      PROVE  SentPlain(Session) /\ SentSecure(Session)
  BY <1>1, RoomCodeIsMail, SendSays DEF SendBoth
<1>2. ASSUME TypeCreate(c, r) PROVE CommandKept /\ OnlySent
  <2>1. /\ MayType(c, "CREATE_ROOM_SEC") /\ client' = [Typed(c) EXCEPT ![c].keys[r] = NoKey]
        /\ SendBoth(c, About("CREATE_ROOM", r), About("CREATE_ROOM_SEC", r)) /\ OnlySent
    BY <1>2, Zenon DEF TypeCreate
  <2>2. ClientKept
    BY <2>1, TypedKept
  <2>3. "CREATE_ROOM" \in RoomCode /\ "CREATE_ROOM_SEC" \in RoomCode
    BY DEF RoomCode
  <2>4. SentPlain(Session) /\ SentSecure(Session)
    BY <1>1, <2>1, <2>3
  <2>5. QED
    BY <2>1, <2>2, <2>4 DEF CommandKept
<1>3. ASSUME TypeLeave(c, r) PROVE CommandKept /\ OnlySent
  <2>1. (\E code : MayType(c, code)) /\ client' = Typed(c) /\ OnlySent
    BY <1>3, Zenon DEF TypeLeave
  <2>2. ClientKept
    BY <2>1, TypedKept
  <2>3. \/ SendBoth(c, About("QUIT_ROOM", r), About("QUIT_ROOM_SEC", r))
        \/ SendBoth(c, About("DELETE_ROOM", r), About("DELETE_ROOM_SEC", r))
    BY <1>3, Zenon DEF TypeLeave
  <2>4. /\ "QUIT_ROOM" \in RoomCode /\ "QUIT_ROOM_SEC" \in RoomCode
        /\ "DELETE_ROOM" \in RoomCode /\ "DELETE_ROOM_SEC" \in RoomCode
    BY DEF RoomCode
  <2>5. SentPlain(Session) /\ SentSecure(Session)
    BY <1>1, <2>3, <2>4
  <2>6. QED
    BY <2>1, <2>2, <2>5 DEF CommandKept
<1>4. ASSUME TypeJoin(c, r) PROVE CommandKept /\ OnlySent
  <2>1. /\ MayType(c, "JOIN_ROOM_SEC") /\ client' = Typed(c) /\ OnlySent
        /\ SendSecure(c, About("JOIN_ROOM_SEC", r)) /\ UNCHANGED toPlain
    BY <1>4, Zenon DEF TypeJoin
  <2>2. ClientKept
    BY <2>1, TypedKept
  <2>3. About("JOIN_ROOM_SEC", r) \in Mail /\ About("JOIN_ROOM_SEC", r).code \notin Session
    BY RoomCodeIsMail DEF RoomCode
  <2>4. SentPlain(Session) /\ SentSecure(Session)
    BY <2>1, <2>3, SendSays, NothingSentSays
  <2>5. QED
    BY <2>1, <2>2, <2>4 DEF CommandKept
<1>5. QED
  BY <1>2, <1>3, <1>4

LEMMA TypeDecisionKept ==
  ASSUME WellFormed, Bounded, NEW c \in Client, NEW r \in Room, NEW d \in Client, TypeDecision(c, r, d)
  PROVE  CommandKept /\ OnlySent
<1>1. /\ \E code : MayType(c, code)
      /\ client' = [Typed(c) EXCEPT ![c].asked = @ \ {<<r, d>>}]
      /\ UNCHANGED toPlain /\ OnlySent
  BY Zenon DEF TypeDecision
<1>2. ClientKept
  BY <1>1, TypedKept
<1>3. \/ SendSecure(c, Msg("ACCEPT_JOIN_ROOM_SEC", r, d, NoKey))
      \/ SendSecure(c, Msg("EJECT_FROM_ROOM_SEC", r, d, NoKey))
  BY Zenon DEF TypeDecision
<1>4. ASSUME NEW code \in {"ACCEPT_JOIN_ROOM_SEC", "EJECT_FROM_ROOM_SEC"}
      PROVE  Msg(code, r, d, NoKey) \in Mail /\ Msg(code, r, d, NoKey).code \notin Session
  <2>1. /\ code \in Code /\ code \notin AboutClient /\ code # "ASK_JOIN_ROOM_SEC" /\ code # "MP_SEC_OK"
        /\ code \notin Session
    BY DEF Code, AboutClient, Session
  <2>2. r \in Name \cup {NULL} /\ d \in Client \cup {NULL} /\ NoKey \in Key \cup {NoKey}
    BY DEF Name
  <2>3. QED
    BY <2>1, <2>2, MsgIsMail
<1>5. SentPlain(Session) /\ SentSecure(Session)
  BY <1>1, <1>3, <1>4, SendSays, NothingSentSays
<1>6. QED
  BY <1>1, <1>2, <1>5 DEF CommandKept

\* A text, to a room or to another client.
LEMMA TextIsMail ==
  ASSUME NEW code \in {"MESSAGE", "MP"}, NEW n \in Name, NEW c \in Client, NEW k \in Key \cup {NoKey},
         code = "MESSAGE" => n \in Room, code = "MP" => n \in Client
  PROVE  Msg(code, n, c, k) \in Mail /\ Msg(code, n, c, k).code \notin Session
<1>1. /\ code \in Code /\ (code \in AboutRoom => code = "MESSAGE") /\ (code \in AboutClient => code = "MP")
      /\ code # "ASK_JOIN_ROOM_SEC" /\ code # "MP_SEC_OK" /\ code \notin Session
  BY DEF Code, AboutClient, AboutRoom, Session
<1>2. n \in Name \cup {NULL} /\ c \in Client \cup {NULL}
  OBVIOUS
<1>3. (code \in AboutRoom => n \in Room) /\ (code \in AboutClient => n \in Client)
  BY <1>1
<1>4. Msg(code, n, c, k) \in Mail /\ Msg(code, n, c, k).code = code
  BY <1>1, <1>2, <1>3, MsgIsMail
<1>5. QED
  BY <1>1, <1>4

LEMMA TypeTextKept ==
  ASSUME WellFormed, Bounded, NEW c \in Client
  PROVE  /\ \A r \in Room : TypeMessage(c, r) =>
              MayType(c, "MESSAGE") /\ (ClientEnds(c, "crashed", <<>>, <<>>) \/ (CommandKept /\ OnlySent))
         /\ \A d \in Client : TypeMp(c, d) => CommandKept /\ OnlySent
<1>0. client \in [Client -> ClientState]
  BY DEF WellFormed
<1>1. \A n \in Name : client[c].keys[n] \in Key \cup {NoKey, Absent}
  BY <1>0 DEF ClientState
<1>2. ASSUME NEW r \in Room, TypeMessage(c, r), ~ ClientEnds(c, "crashed", <<>>, <<>>)
      PROVE  CommandKept /\ OnlySent
  <2> DEFINE k == IF client[c].keys[r] = Absent THEN NoKey ELSE client[c].keys[r]
  <2>1. /\ MayType(c, "MESSAGE") /\ client' = Typed(c)
        /\ SendPlain(c, Msg("MESSAGE", r, c, k)) /\ UNCHANGED toSecure /\ OnlySent
    BY <1>2, Zenon DEF TypeMessage
  <2>2. ClientKept
    BY <2>1, TypedKept
  <2>3. r \in Name /\ k \in Key \cup {NoKey}
    BY <1>1 DEF Name
  <2> HIDE DEF k
  <2>4. Msg("MESSAGE", r, c, k) \in Mail /\ Msg("MESSAGE", r, c, k).code \notin Session
    BY <2>3, TextIsMail
  <2>5. SentPlain(Session) /\ SentSecure(Session)
    BY <2>1, <2>4, SendSays, NothingSentSays
  <2>6. QED
    BY <2>1, <2>2, <2>5 DEF CommandKept
<1>3. ASSUME NEW d \in Client, TypeMp(c, d) PROVE CommandKept /\ OnlySent
  <2>1. /\ MayType(c, "MP_SEC") /\ client' = Typed(c) /\ OnlySent
    BY <1>3, Zenon DEF TypeMp
  <2>2. ClientKept
    BY <2>1, TypedKept
  <2>3. CASE client[c].keys[d] = Absent
    <3>1. SendSecure(c, About("MP_SEC", d)) /\ UNCHANGED toPlain
      BY <1>3, <2>3, Zenon DEF TypeMp
    <3>2. About("MP_SEC", d) \in Mail /\ About("MP_SEC", d).code \notin Session
      <4>1. 1 \in Key
        BY DEF Key, NoKey
      <4>2. About("MP_SEC", d) \in Mail
        BY <4>1, ConversationIsMail
      <4>3. QED
        BY <4>2 DEF About, Msg, Session
    <3>3. SentPlain(Session) /\ SentSecure(Session)
      BY <3>1, <3>2, SendSays, NothingSentSays
    <3>4. QED
      BY <2>1, <2>2, <3>3 DEF CommandKept
  <2>4. CASE client[c].keys[d] # Absent
    <3>1. SendPlain(c, Msg("MP", d, c, client[c].keys[d])) /\ UNCHANGED toSecure
      BY <1>3, <2>4, Zenon DEF TypeMp
    <3>2. d \in Name /\ client[c].keys[d] \in Key \cup {NoKey}
      BY <1>1, <2>4 DEF Name
    <3>3. Msg("MP", d, c, client[c].keys[d]) \in Mail /\ Msg("MP", d, c, client[c].keys[d]).code \notin Session
      BY <3>2, TextIsMail
    <3>4. SentPlain(Session) /\ SentSecure(Session)
      BY <3>1, <3>3, SendSays, NothingSentSays
    <3>5. QED
      BY <2>1, <2>2, <3>4 DEF CommandKept
  <2>5. QED
    BY <2>3, <2>4
<1>4. ASSUME NEW r \in Room, TypeMessage(c, r) PROVE MayType(c, "MESSAGE")
  BY <1>4, Zenon DEF TypeMessage
<1>5. QED
  BY <1>2, <1>3, <1>4, Zenon

----------------------------------------------------------------------------
(***************************************************************************)
(* Logging in and out, and the end of a client, keep the types.            *)
(***************************************************************************)
LEMMA ClientEndsTyped ==
  ASSUME WellFormed, Bounded, NEW c \in Client, c \in Running, NEW status \in {"exited", "crashed"},
         NEW ps \in {<<>>, <<Signal("DISCONNECT")>>}, NEW ss \in {<<>>, <<Signal("DISCONNECT_SEC")>>},
         ClientEnds(c, status, ps, ss)
  PROVE  /\ ClientTyped /\ toPlain' \in Queues /\ toSecure' \in Queues
         /\ fromPlain' \in Queues /\ fromSecure' \in Queues
         /\ UNCHANGED <<plain, secure>> /\ Stops(c)
         /\ client'[c].status = status /\ \A x \in Client \ {c} : client'[x] = client[x]
         /\ \A x \in Client : client'[x].login = client[x].login
<1> DEFINE absent == [n \in Name |-> Absent]
           gone == [client[c] EXCEPT !.status = status, !.connected = FALSE,
                                     !.created = {}, !.asked = {}, !.keys = absent]
<1>1. client \in [Client -> ClientState] /\ \A x \in Client : client[x].typed \in 0 .. setting.typed[x]
  BY DEF WellFormed, Bounded
<1>2. /\ client' = [client EXCEPT ![c] = gone]
      /\ toPlain' = Bye(toPlain, {c} \ plain.ended, ps)
      /\ toSecure' = Bye(toSecure, {c} \ secure.ended, ss)
      /\ fromPlain' = [fromPlain EXCEPT ![c] = <<>>]
      /\ fromSecure' = [fromSecure EXCEPT ![c] = <<>>]
      /\ UNCHANGED <<plain, secure>>
  BY DEF ClientEnds
<1>3. absent \in [Name -> Key \cup {NoKey, Absent}]
  OBVIOUS
<1> HIDE DEF absent
<1>13. gone \in ClientState
  <2>1. client[c] \in ClientState
    BY <1>1
  <2>2. QED
    BY <1>3, <2>1 DEF ClientState
<1>14. gone.status = status /\ gone.typed = client[c].typed /\ gone.login = client[c].login
  BY <1>1 DEF ClientState
<1> HIDE DEF gone
<1>4. /\ client' \in [Client -> ClientState] /\ client'[c].status = status
      /\ client'[c].typed = client[c].typed /\ client'[c].login = client[c].login
      /\ \A x \in Client \ {c} : client'[x] = client[x]
  BY <1>1, <1>2, <1>13, <1>14
<1>5. ClientTyped
  BY <1>1, <1>4 DEF ClientTyped
<1>6. Signal("DISCONNECT") \in Mail /\ Signal("DISCONNECT_SEC") \in Mail
  BY SignalIsMail DEF Session
<1>7. toPlain' \in Queues /\ toSecure' \in Queues
  <2>1. /\ toPlain \in Queues /\ toSecure \in Queues
    BY DEF WellFormed
  <2>2. Bye(toPlain, {c} \ plain.ended, ps) \in Queues
    BY <1>6, <2>1, ByeSays
  <2>3. Bye(toSecure, {c} \ secure.ended, ss) \in Queues
    BY <1>6, <2>1, ByeSays
  <2>4. QED
    BY <1>2, <2>2, <2>3
<1>8. fromPlain' \in Queues /\ fromSecure' \in Queues
  BY <1>2, CutSays DEF WellFormed
<1>9. secure' = secure /\ plain' = plain
  BY <1>2
<1>10. Running' = Running \ {c}
  BY <1>4 DEF Running
<1>11. Stops(c)
  BY <1>2, <1>4, <1>9, <1>10 DEF Stops
<1>12. QED
  BY <1>4, <1>5, <1>7, <1>8, <1>9, <1>11

LEMMA TypeConnectTyped ==
  ASSUME WellFormed, Bounded, NEW c \in Client, TypeConnect(c)
  PROVE  /\ ClientTyped /\ KeysKept /\ Running' = Running
         /\ toPlain' = toPlain /\ toSecure' \in Queues /\ OnlySent
         /\ \A x \in Client : client'[x].status = client[x].status
         /\ client'[c].login /\ \A x \in Client \ {c} : client'[x] = client[x]
         /\ \A x \in Client :
              toSecure'[x] = IF x \in {c} \ secure.ended THEN Append(toSecure[x], Signal("CONNECT_SEC"))
                                                         ELSE toSecure[x]
<1>1. client \in [Client -> ClientState] /\ \A x \in Client : client[x].typed \in 0 .. setting.typed[x]
  BY DEF WellFormed, Bounded
<1>2. /\ client' = [client EXCEPT ![c].login = TRUE] /\ toPlain' = toPlain /\ OnlySent
      /\ SendSecure(c, Signal("CONNECT_SEC"))
  BY Zenon DEF TypeConnect
<1>3. /\ client' \in [Client -> ClientState] /\ client'[c].login
      /\ client'[c].typed = client[c].typed /\ client'[c].status = client[c].status
      /\ client'[c].keys = client[c].keys
      /\ \A x \in Client \ {c} : client'[x] = client[x]
  <2> DEFINE new == [client[c] EXCEPT !.login = TRUE]
  <2>1. /\ new \in ClientState /\ new.login
        /\ new.typed = client[c].typed /\ new.status = client[c].status /\ new.keys = client[c].keys
    BY <1>1 DEF ClientState
  <2>2. client' = [client EXCEPT ![c] = new]
    BY <1>1, <1>2
  <2> HIDE DEF new
  <2>3. QED
    BY <1>1, <2>1, <2>2
<1>4. Signal("CONNECT_SEC") \in Mail
  BY SignalIsMail DEF Session
<1>5. /\ toSecure' \in Queues
      /\ \A x \in Client :
           toSecure'[x] = IF x \in {c} \ secure.ended THEN Append(toSecure[x], Signal("CONNECT_SEC"))
                                                      ELSE toSecure[x]
  BY <1>2, <1>4, SendSays
<1>6. ClientTyped /\ KeysKept /\ Running' = Running
  BY <1>1, <1>3 DEF ClientTyped, KeysKept, Running
<1>7. QED
  BY <1>2, <1>3, <1>5, <1>6

LEMMA TypeByeTyped ==
  ASSUME WellFormed, Bounded, NEW c \in Client, TypeBye(c)
  PROVE  /\ ClientKept /\ toPlain' \in Queues /\ toSecure' \in Queues /\ OnlySent
<1>1. (\E code : MayType(c, code)) /\ client' = Typed(c) /\ OnlySent
  BY Zenon DEF TypeBye
<1>2. /\ Signal("DISCONNECT") \in Mail /\ Signal("DISCONNECT_SEC") \in Mail
      /\ Signal("DEL_ACCOUNT_SEC") \in Mail
  BY SignalIsMail DEF Session
<1>3. ClientKept
  BY <1>1, TypedKept
<1>4. CASE SendBoth(c, Signal("DISCONNECT"), Signal("DISCONNECT_SEC"))
  BY <1>1, <1>2, <1>3, <1>4, SendSays DEF SendBoth
<1>5. CASE /\ toSecure' = Put(Put(toSecure, {c} \ secure.ended, Signal("DEL_ACCOUNT_SEC")),
                              {c} \ secure.ended, Signal("DISCONNECT_SEC"))
           /\ UNCHANGED toPlain
  <2>1. toSecure' \in Queues
    BY <1>2, <1>5, PutSays DEF WellFormed
  <2>2. QED
    BY <1>1, <1>3, <1>5, <2>1 DEF WellFormed
<1>6. QED
  BY <1>4, <1>5, Zenon DEF TypeBye

LEMMA KeyboardTyped ==
  ASSUME WellFormed, Bounded, NEW c \in Client, Keyboard(c)
  PROVE  /\ ClientTyped /\ toPlain' \in Queues /\ toSecure' \in Queues
         /\ fromPlain' \in Queues /\ fromSecure' \in Queues
         /\ UNCHANGED <<plain, secure>> /\ (Plainly \/ Stops(c))
<1>1. ASSUME ClientTyped, KeysKept, Running' = Running, toPlain' \in Queues, toSecure' \in Queues, OnlySent
      PROVE  /\ ClientTyped /\ toPlain' \in Queues /\ toSecure' \in Queues
             /\ fromPlain' \in Queues /\ fromSecure' \in Queues
             /\ UNCHANGED <<plain, secure>> /\ (Plainly \/ Stops(c))
  <2>1. plain' = plain /\ secure' = secure /\ fromPlain' = fromPlain /\ fromSecure' = fromSecure
    BY <1>1 DEF OnlySent
  <2>2. fromPlain \in Queues /\ fromSecure \in Queues /\ Grows(fromSecure, fromSecure, Conversation)
    BY GrowsFromItself DEF WellFormed
  <2>3. Plainly
    BY <1>1, <2>1, <2>2 DEF Plainly
  <2>4. QED
    BY <1>1, <2>1, <2>2, <2>3
<1>2. CASE TypeConnect(c)
  <2>1. toPlain' \in Queues
    BY <1>2, TypeConnectTyped DEF WellFormed
  <2>2. QED
    BY <1>1, <1>2, <2>1, TypeConnectTyped
<1>3. ASSUME ClientKept PROVE ClientTyped /\ KeysKept /\ Running' = Running
  BY <1>3 DEF ClientKept, LoginsKept, Running
<1>4. CASE TypeBye(c)
  BY <1>1, <1>3, <1>4, TypeByeTyped
<1>5. CASE CommandKept /\ OnlySent
  BY <1>1, <1>3, <1>5 DEF CommandKept, SentPlain, SentSecure
<1>6. ASSUME NEW status \in {"exited", "crashed"}, NEW ss \in {<<>>, <<Signal("DISCONNECT_SEC")>>},
             ClientEnds(c, status, <<>>, ss), NEW code, MayType(c, code)
      PROVE  /\ ClientTyped /\ toPlain' \in Queues /\ toSecure' \in Queues
             /\ fromPlain' \in Queues /\ fromSecure' \in Queues
             /\ UNCHANGED <<plain, secure>> /\ Stops(c)
  <2>1. c \in Running
    BY <1>6 DEF MayType
  <2>2. QED
    BY <1>6, <2>1, ClientEndsTyped
<1>7. CASE Interrupt(c)
  <2>1. MayType(c, "SIGINT") /\ ClientEnds(c, "exited", <<>>, <<Signal("DISCONNECT_SEC")>>)
    BY <1>7, Zenon DEF Interrupt
  <2>2. QED
    BY <1>6, <2>1
<1>8. CASE MayType(c, "MESSAGE") /\ ClientEnds(c, "crashed", <<>>, <<>>)
  BY <1>6, <1>8
<1>9. \/ TypeConnect(c) \/ TypeBye(c) \/ Interrupt(c) \/ (CommandKept /\ OnlySent)
      \/ (MayType(c, "MESSAGE") /\ ClientEnds(c, "crashed", <<>>, <<>>))
  <2>1. CASE \E r \in Room : TypeCreate(c, r) \/ TypeLeave(c, r) \/ TypeJoin(c, r)
    BY <2>1, TypeAboutRoomKept
  <2>2. CASE \E r \in Room : TypeMessage(c, r)
    BY <2>2, TypeTextKept
  <2>3. CASE \E r \in Room, d \in Client : TypeDecision(c, r, d)
    BY <2>3, TypeDecisionKept
  <2>4. CASE \E d \in Client : TypeMp(c, d)
    BY <2>4, TypeTextKept
  <2>5. QED
    BY <2>1, <2>2, <2>3, <2>4, Zenon DEF Keyboard
<1>10. QED
  BY <1>2, <1>4, <1>5, <1>7, <1>8, <1>9

----------------------------------------------------------------------------
(***************************************************************************)
(* What a client makes of a message keeps the types.                       *)
(***************************************************************************)
LEMMA FromSecureSays ==
  ASSUME WellFormed, NEW c \in Client, NEW codes, FromSecure(c, codes)
  PROVE  /\ Head(fromSecure[c]) \in Mail /\ Head(fromSecure[c]).code \in codes /\ c \in Running
         /\ fromSecure[c] # <<>> /\ fromSecure[c] \in Seq(Mail)
         /\ fromSecure' = [fromSecure EXCEPT ![c] = Tail(@)]
         /\ fromSecure' \in Queues /\ fromSecure'[c] = Tail(fromSecure[c])
         /\ \A x \in Client \ {c} : fromSecure'[x] = fromSecure[x]
         /\ UNCHANGED <<plain, secure, fromPlain>>
<1>1. /\ fromSecure[c] # <<>> /\ Head(fromSecure[c]).code \in codes /\ c \in Running
      /\ fromSecure' = [fromSecure EXCEPT ![c] = Tail(@)]
      /\ UNCHANGED <<plain, secure, fromPlain>>
  BY Zenon DEF FromSecure, HeardSecure
<1>2. fromSecure \in Queues
  BY DEF WellFormed
<1>3. /\ Head(fromSecure[c]) \in Mail /\ fromSecure[c] \in Seq(Mail)
      /\ [fromSecure EXCEPT ![c] = Tail(@)] \in Queues
      /\ [fromSecure EXCEPT ![c] = Tail(@)][c] = Tail(fromSecure[c])
      /\ \A x \in Client \ {c} : [fromSecure EXCEPT ![c] = Tail(@)][x] = fromSecure[x]
  BY <1>1, <1>2, PopSays
<1>4. QED
  BY <1>1, <1>3, Zenon

LEMMA FromPlainSays ==
  ASSUME WellFormed, NEW c \in Client, NEW codes, FromPlain(c, codes)
  PROVE  /\ Head(fromPlain[c]) \in Mail /\ Head(fromPlain[c]).code \in codes /\ c \in Running
         /\ fromPlain[c] # <<>> /\ fromPlain[c] \in Seq(Mail)
         /\ fromPlain' \in Queues /\ fromPlain'[c] = Tail(fromPlain[c])
         /\ \A x \in Client \ {c} : fromPlain'[x] = fromPlain[x]
         /\ UNCHANGED <<plain, secure, fromSecure>>
<1>1. /\ fromPlain[c] # <<>> /\ Head(fromPlain[c]).code \in codes /\ c \in Running
      /\ fromPlain' = [fromPlain EXCEPT ![c] = Tail(@)]
      /\ UNCHANGED <<plain, secure, fromSecure>>
  BY Zenon DEF FromPlain, HeardPlain
<1>2. fromPlain \in Queues
  BY DEF WellFormed
<1>3. /\ Head(fromPlain[c]) \in Mail /\ fromPlain[c] \in Seq(Mail)
      /\ [fromPlain EXCEPT ![c] = Tail(@)] \in Queues
      /\ [fromPlain EXCEPT ![c] = Tail(@)][c] = Tail(fromPlain[c])
      /\ \A x \in Client \ {c} : [fromPlain EXCEPT ![c] = Tail(@)][x] = fromPlain[x]
  BY <1>1, <1>2, PopSays
<1>4. QED
  BY <1>1, <1>3, Zenon

\* What a client knows of one name changes.
KnowsNow(c, n, k) ==
  \A x, d \in Client : client'[x].keys[d] = IF x = c /\ d = n THEN k ELSE client[x].keys[d]

LEMMA KeysSay ==
  ASSUME WellFormed, Bounded, NEW c \in Client, NEW n \in Name, NEW k \in Key \cup {NoKey, Absent},
         \/ client' = WithKeys(c, n, k)
         \/ \E s : client' = [client EXCEPT ![c].keys[n] = k, ![c].created = @ \ s]
  PROVE  ClientTyped /\ LoginsKept /\ KnowsNow(c, n, k)
<1>0. client \in [Client -> ClientState] /\ \A x \in Client : client[x].typed \in 0 .. setting.typed[x]
  BY DEF WellFormed, Bounded
<1> DEFINE keys == [client[c].keys EXCEPT ![n] = k]
<1>1. client[c] \in ClientState /\ client[c].keys \in [Name -> Key \cup {NoKey, Absent}] /\ Client \subseteq Name
  BY <1>0 DEF ClientState, Name
<1>2. keys \in [Name -> Key \cup {NoKey, Absent}]
  BY <1>1
<1>3. \A d \in Client : keys[d] = IF d = n THEN k ELSE client[c].keys[d]
  BY <1>1
<1>4. ASSUME NEW s, s \in ClientState, s.keys = keys, s.typed = client[c].typed, s.status = client[c].status,
             s.login = client[c].login, client' = [client EXCEPT ![c] = s]
      PROVE  ClientTyped /\ LoginsKept /\ KnowsNow(c, n, k)
  <2> HIDE DEF keys
  <2>1. client' \in [Client -> ClientState] /\ client'[c] = s /\ \A x \in Client \ {c} : client'[x] = client[x]
    BY <1>0, <1>4
  <2>2. ClientTyped
    BY <1>0, <1>4, <2>1 DEF ClientTyped
  <2>3. LoginsKept
    BY <1>4, <2>1 DEF LoginsKept
  <2>4. QED
    BY <1>3, <1>4, <2>1, <2>2, <2>3 DEF KnowsNow
<1>5. ASSUME client' = WithKeys(c, n, k)
      PROVE  ClientTyped /\ LoginsKept /\ KnowsNow(c, n, k)
  <2>1. client' = [client EXCEPT ![c] = [client[c] EXCEPT !.keys = keys]]
    BY <1>5 DEF WithKeys
  <2> HIDE DEF keys
  <2> SUFFICES ASSUME NEW s, s = [client[c] EXCEPT !.keys = keys]
               PROVE  ClientTyped /\ LoginsKept /\ KnowsNow(c, n, k)
    OBVIOUS
  <2>2. /\ s \in ClientState /\ s.keys = keys /\ s.typed = client[c].typed /\ s.status = client[c].status
        /\ s.login = client[c].login
    BY <1>1, <1>2 DEF ClientState
  <2>3. client' = [client EXCEPT ![c] = s]
    BY <2>1
  <2>4. QED
    BY <1>4, <2>2, <2>3
<1>6. ASSUME NEW S, client' = [client EXCEPT ![c].keys[n] = k, ![c].created = @ \ S]
      PROVE  ClientTyped /\ LoginsKept /\ KnowsNow(c, n, k)
  <2>1. client' = [client EXCEPT ![c] = [client[c] EXCEPT !.keys = keys, !.created = @ \ S]]
    BY <1>6
  <2> HIDE DEF keys
  <2> SUFFICES ASSUME NEW s, s = [client[c] EXCEPT !.keys = keys, !.created = @ \ S]
               PROVE  ClientTyped /\ LoginsKept /\ KnowsNow(c, n, k)
    OBVIOUS
  <2>2. /\ s \in ClientState /\ s.keys = keys /\ s.typed = client[c].typed /\ s.status = client[c].status
        /\ s.login = client[c].login
    BY <1>1, <1>2 DEF ClientState
  <2>3. client' = [client EXCEPT ![c] = s]
    BY <2>1
  <2>4. QED
    BY <1>4, <2>2, <2>3
<1>7. QED
  BY <1>5, <1>6

\* Something else changes that a client knows.
LEMMA OtherwiseSays ==
  ASSUME WellFormed, Bounded, NEW c \in Client
  PROVE  /\ UNCHANGED client => ClientKept
         /\ client' = [client EXCEPT ![c].connected = TRUE] => ClientKept
         /\ client' = [client EXCEPT ![c].refused = TRUE] => ClientKept
         /\ \A b \in BOOLEAN : client' = [client EXCEPT ![c].garbled = b] => ClientKept
         /\ \A r \in Room : client' = [client EXCEPT ![c].created = @ \cup {r}] => ClientKept
         /\ \A p \in Room \X Client : client' = [client EXCEPT ![c].asked = @ \cup {p}] => ClientKept
<1>0. client \in [Client -> ClientState] /\ \A x \in Client : client[x].typed \in 0 .. setting.typed[x]
  BY DEF WellFormed, Bounded
<1>1. ASSUME NEW s \in ClientState, s.keys = client[c].keys, s.typed = client[c].typed,
             s.status = client[c].status, s.login = client[c].login, client' = [client EXCEPT ![c] = s]
      PROVE  ClientKept
  <2>1. client' \in [Client -> ClientState] /\ client'[c] = s /\ \A x \in Client \ {c} : client'[x] = client[x]
    BY <1>0, <1>1
  <2>2. ClientTyped
    BY <1>0, <1>1, <2>1 DEF ClientTyped
  <2>3. LoginsKept /\ KeysKept
    BY <1>1, <2>1 DEF LoginsKept, KeysKept
  <2>4. QED
    BY <2>2, <2>3 DEF ClientKept
<1>2. ASSUME UNCHANGED client PROVE ClientKept
  BY <1>0, <1>2 DEF ClientKept, ClientTyped, LoginsKept, KeysKept
<1>3. ASSUME client' = [client EXCEPT ![c].connected = TRUE] PROVE ClientKept
  <2> SUFFICES ASSUME NEW s, s = [client[c] EXCEPT !.connected = TRUE] PROVE ClientKept
    OBVIOUS
  <2>1. /\ s \in ClientState /\ s.keys = client[c].keys /\ s.typed = client[c].typed
        /\ s.status = client[c].status /\ s.login = client[c].login /\ client' = [client EXCEPT ![c] = s]
    BY <1>0, <1>3 DEF ClientState
  <2>2. QED
    BY <1>1, <2>1
<1>4. ASSUME NEW b \in BOOLEAN, client' = [client EXCEPT ![c].garbled = b] PROVE ClientKept
  <2> SUFFICES ASSUME NEW s, s = [client[c] EXCEPT !.garbled = b] PROVE ClientKept
    OBVIOUS
  <2>1. /\ s \in ClientState /\ s.keys = client[c].keys /\ s.typed = client[c].typed
        /\ s.status = client[c].status /\ s.login = client[c].login /\ client' = [client EXCEPT ![c] = s]
    BY <1>0, <1>4 DEF ClientState
  <2>2. QED
    BY <1>1, <2>1
<1>5. ASSUME NEW r \in Room, client' = [client EXCEPT ![c].created = @ \cup {r}] PROVE ClientKept
  <2> SUFFICES ASSUME NEW s, s = [client[c] EXCEPT !.created = @ \cup {r}] PROVE ClientKept
    OBVIOUS
  <2>1. /\ s \in ClientState /\ s.keys = client[c].keys /\ s.typed = client[c].typed
        /\ s.status = client[c].status /\ s.login = client[c].login /\ client' = [client EXCEPT ![c] = s]
    BY <1>0, <1>5 DEF ClientState
  <2>2. QED
    BY <1>1, <2>1
<1>6. ASSUME NEW p \in Room \X Client, client' = [client EXCEPT ![c].asked = @ \cup {p}] PROVE ClientKept
  <2> SUFFICES ASSUME NEW s, s = [client[c] EXCEPT !.asked = @ \cup {p}] PROVE ClientKept
    OBVIOUS
  <2>1. /\ s \in ClientState /\ s.keys = client[c].keys /\ s.typed = client[c].typed
        /\ s.status = client[c].status /\ s.login = client[c].login /\ client' = [client EXCEPT ![c] = s]
    BY <1>0, <1>6 DEF ClientState
  <2>2. QED
    BY <1>1, <2>1
<1>7. ASSUME client' = [client EXCEPT ![c].refused = TRUE] PROVE ClientKept
  <2> SUFFICES ASSUME NEW s, s = [client[c] EXCEPT !.refused = TRUE] PROVE ClientKept
    OBVIOUS
  <2>1. /\ s \in ClientState /\ s.keys = client[c].keys /\ s.typed = client[c].typed
        /\ s.status = client[c].status /\ s.login = client[c].login /\ client' = [client EXCEPT ![c] = s]
    BY <1>0, <1>7 DEF ClientState
  <2>2. QED
    BY <1>1, <2>1
<1>8. QED
  BY <1>2, <1>3, <1>4, <1>5, <1>6, <1>7

HeardKept(c) ==
  /\ ClientTyped /\ LoginsKept /\ Learns(c) /\ SentPlain(Session) /\ SentSecure(Session)
  /\ Head(fromSecure[c]).code \notin Session

LEMMA SendNothingSays ==
  ASSUME WellFormed, SendNothing
  PROVE  SentPlain(Session) /\ SentSecure(Session)
  BY NothingSentSays DEF SendNothing

\* Nobody's keys of a conversation change on other messages than MP_SEC_OK.
LEMMA LearnsNothing ==
  ASSUME WellFormed, NEW c \in Client, NEW codes, FromSecure(c, codes), LoginsKept,
         Head(fromSecure[c]).code # "MP_SEC_OK", KeysKept
  PROVE  Learns(c)
<1>1. fromSecure[c] # <<>> /\ fromSecure' = [fromSecure EXCEPT ![c] = Tail(@)] /\ secure' = secure
  BY FromSecureSays
<1>2. Running' = Running
  BY DEF LoginsKept, Running
<1>3. \A d \in Client : ~ IsDeal(Head(fromSecure[c]), d)
  BY DEF IsDeal
<1>4. QED
  BY <1>1, <1>2, <1>3 DEF Learns, KeysKept

LEMMA HearPrintsKept ==
  ASSUME WellFormed, Bounded, NEW c \in Client
  PROVE  HearConnectSecKo(c) \/ HearConnected(c) \/ HearAsk(c) \/ HearCreateKo(c) => HeardKept(c)
<1>1. ASSUME NEW codes, FromSecure(c, codes), ClientKept, SendNothing,
             Head(fromSecure[c]).code # "MP_SEC_OK", Head(fromSecure[c]).code \notin Session
      PROVE  HeardKept(c)
  <2>1. ClientTyped /\ KeysKept /\ LoginsKept
    BY <1>1 DEF ClientKept
  <2>2. Learns(c)
    BY <1>1, <2>1, LearnsNothing
  <2>3. SentPlain(Session) /\ SentSecure(Session)
    BY <1>1, SendNothingSays
  <2>4. QED
    BY <1>1, <2>1, <2>2, <2>3 DEF HeardKept
<1>2. CASE HearConnected(c)
  <2>1. FromSecure(c, {"CONNECT_SEC_OK"}) /\ client' = [client EXCEPT ![c].connected = TRUE] /\ SendNothing
    BY <1>2, Zenon DEF HearConnected
  <2>2. Head(fromSecure[c]).code = "CONNECT_SEC_OK"
    BY <2>1, FromSecureSays
  <2>3. Head(fromSecure[c]).code # "MP_SEC_OK" /\ Head(fromSecure[c]).code \notin Session
    BY <2>2 DEF Session
  <2>4. ClientKept
    BY <2>1, OtherwiseSays
  <2>5. QED
    BY <1>1, <2>1, <2>3, <2>4
<1>6. CASE HearConnectSecKo(c)
  <2>1. FromSecure(c, {"CONNECT_SEC_KO"}) /\ client' = [client EXCEPT ![c].refused = TRUE] /\ SendNothing
    BY <1>6, Zenon DEF HearConnectSecKo
  <2>2. Head(fromSecure[c]).code = "CONNECT_SEC_KO"
    BY <2>1, FromSecureSays
  <2>3. Head(fromSecure[c]).code # "MP_SEC_OK" /\ Head(fromSecure[c]).code \notin Session
    BY <2>2 DEF Session
  <2>4. ClientKept
    BY <2>1, OtherwiseSays
  <2>5. QED
    BY <1>1, <2>1, <2>3, <2>4
<1>3. CASE HearAsk(c)
  <2>1. /\ FromSecure(c, {"ASK_JOIN_ROOM_SEC"}) /\ SendNothing
        /\ client' = [client EXCEPT ![c].asked = @ \cup {<<Head(fromSecure[c]).name, Head(fromSecure[c]).from>>}]
    BY <1>3, Zenon DEF HearAsk
  <2>2. Head(fromSecure[c]) \in Mail /\ Head(fromSecure[c]).code = "ASK_JOIN_ROOM_SEC"
    BY <2>1, FromSecureSays
  <2>3. Head(fromSecure[c]).code # "MP_SEC_OK" /\ Head(fromSecure[c]).code \notin Session
    BY <2>2 DEF Session
  <2>4. <<Head(fromSecure[c]).name, Head(fromSecure[c]).from>> \in Room \X Client
    BY <2>2, MailSays DEF AboutRoom
  <2>5. ClientKept
    BY <2>1, <2>4, OtherwiseSays
  <2>6. QED
    BY <1>1, <2>1, <2>3, <2>5
<1>4. CASE HearCreateKo(c)
  <2>1. FromSecure(c, {"CREATE_ROOM_KO"}) /\ UNCHANGED client /\ SendNothing
    BY <1>4, Zenon DEF HearCreateKo
  <2>2. Head(fromSecure[c]).code = "CREATE_ROOM_KO"
    BY <2>1, FromSecureSays
  <2>3. Head(fromSecure[c]).code # "MP_SEC_OK" /\ Head(fromSecure[c]).code \notin Session
    BY <2>2 DEF Session
  <2>4. ClientKept
    BY <2>1, OtherwiseSays
  <2>5. QED
    BY <1>1, <2>1, <2>3, <2>4
<1>5. QED
  BY <1>2, <1>3, <1>4, <1>6

LEMMA HearKeysKept ==
  ASSUME WellFormed, Bounded, NEW c \in Client, HearKeys(c)
  PROVE  HeardKept(c)
<1>1. /\ FromSecure(c, {"CREATE_ROOM_SEC", "REFRESH_KEYIV", "MP_SEC_OK"}) /\ SendNothing
      /\ client' = WithKeys(c, Head(fromSecure[c]).name, Head(fromSecure[c]).k)
  BY Zenon DEF HearKeys
<1>2. /\ Head(fromSecure[c]) \in Mail
      /\ Head(fromSecure[c]).code \in {"CREATE_ROOM_SEC", "REFRESH_KEYIV", "MP_SEC_OK"}
      /\ fromSecure[c] # <<>> /\ fromSecure' = [fromSecure EXCEPT ![c] = Tail(@)] /\ secure' = secure
  BY <1>1, FromSecureSays
<1>3. Head(fromSecure[c]).k \in Key \cup {NoKey, Absent}
  BY <1>2, MailSays
<1>4. /\ Head(fromSecure[c]).code # "MP_SEC_OK" => Head(fromSecure[c]).name \in Room
      /\ Head(fromSecure[c]).code = "MP_SEC_OK" => Head(fromSecure[c]).name \in Client
  BY <1>2, MailSays DEF AboutRoom, AboutClient
<1>5. Head(fromSecure[c]).name \in Name
  BY <1>4 DEF Name
<1>6. ClientTyped /\ LoginsKept /\ KnowsNow(c, Head(fromSecure[c]).name, Head(fromSecure[c]).k)
  BY <1>1, <1>3, <1>5, KeysSay
<1>7. \A d \in Client : IsDeal(Head(fromSecure[c]), d) <=> d = Head(fromSecure[c]).name
  BY <1>4, ConstantsAssumption DEF IsDeal
<1>8. Running' = Running
  BY <1>6 DEF LoginsKept, Running
<1>9. Learns(c)
  BY <1>2, <1>6, <1>7, <1>8 DEF Learns, KnowsNow
<1>10. Head(fromSecure[c]).code \notin Session
  BY <1>2 DEF Session
<1>11. QED
  BY <1>1, <1>6, <1>9, <1>10, SendNothingSays DEF HeardKept

\* Rooms: joined or left on the plain server too.
LEMMA HearRoomsKept ==
  ASSUME WellFormed, Bounded, NEW c \in Client
  PROVE  HearJoin(c) \/ HearQuit(c) => HeardKept(c)
<1>1. ASSUME NEW codes, FromSecure(c, codes), ClientTyped, LoginsKept, KeysKept,
             SentPlain(Session), SentSecure(Session),
             Head(fromSecure[c]).code # "MP_SEC_OK", Head(fromSecure[c]).code \notin Session
      PROVE  HeardKept(c)
  BY <1>1, LearnsNothing DEF HeardKept
<1>2. \A r \in Room, d \in Client : r # d /\ r \in Name
  BY ConstantsAssumption DEF Name
<1>3. CASE HearJoin(c)
  <2>1. /\ FromSecure(c, {"JOIN_ROOM_SEC"}) /\ UNCHANGED toSecure
        /\ client' = WithKeys(c, Head(fromSecure[c]).name, Head(fromSecure[c]).k)
        /\ SendPlain(c, About("JOIN_ROOM", Head(fromSecure[c]).name))
    BY <1>3, Zenon DEF HearJoin
  <2>2. Head(fromSecure[c]) \in Mail /\ Head(fromSecure[c]).code = "JOIN_ROOM_SEC"
    BY <2>1, FromSecureSays
  <2>3. Head(fromSecure[c]).name \in Room /\ Head(fromSecure[c]).k \in Key \cup {NoKey, Absent}
    BY <2>2, MailSays DEF AboutRoom
  <2>9. ClientTyped /\ LoginsKept /\ KnowsNow(c, Head(fromSecure[c]).name, Head(fromSecure[c]).k)
    BY <1>2, <2>1, <2>3, KeysSay
  <2>4. ClientTyped /\ LoginsKept /\ KeysKept
    BY <1>2, <2>3, <2>9 DEF KeysKept, KnowsNow
  <2>5. /\ About("JOIN_ROOM", Head(fromSecure[c]).name) \in Mail
        /\ About("JOIN_ROOM", Head(fromSecure[c]).name).code \notin Session
    BY <2>3, RoomCodeIsMail DEF RoomCode
  <2>6. SentPlain(Session) /\ SentSecure(Session)
    BY <2>1, <2>5, SendSays, NothingSentSays
  <2>7. Head(fromSecure[c]).code # "MP_SEC_OK" /\ Head(fromSecure[c]).code \notin Session
    BY <2>2 DEF Session
  <2>8. QED
    BY <1>1, <2>1, <2>4, <2>6, <2>7
<1>4. CASE HearQuit(c)
  <2> DEFINE r == Head(fromSecure[c]).name
  <2>1. /\ FromSecure(c, {"QUIT_ROOM_SEC"}) /\ UNCHANGED toSecure
        /\ client' = [client EXCEPT ![c].keys[r] = Absent, ![c].created = @ \ {r}]
        /\ SendPlain(c, About("QUIT_ROOM", r))
    BY <1>4, Zenon DEF HearQuit
  <2>2. Head(fromSecure[c]) \in Mail /\ Head(fromSecure[c]).code = "QUIT_ROOM_SEC"
    BY <2>1, FromSecureSays
  <2>3. r \in Room
    BY <2>2, MailSays DEF AboutRoom
  <2> HIDE DEF r
  <2>9. ClientTyped /\ LoginsKept /\ KnowsNow(c, r, Absent)
    BY <1>2, <2>1, <2>3, KeysSay
  <2>4. ClientTyped /\ LoginsKept /\ KeysKept
    BY <1>2, <2>3, <2>9 DEF KeysKept, KnowsNow
  <2>5. About("QUIT_ROOM", r) \in Mail /\ About("QUIT_ROOM", r).code \notin Session
    BY <2>3, RoomCodeIsMail DEF RoomCode
  <2>6. SentPlain(Session) /\ SentSecure(Session)
    BY <2>1, <2>5, SendSays, NothingSentSays
  <2>7. Head(fromSecure[c]).code # "MP_SEC_OK" /\ Head(fromSecure[c]).code \notin Session
    BY <2>2 DEF Session
  <2>8. QED
    BY <1>1, <2>1, <2>4, <2>6, <2>7
<1>5. QED
  BY <1>3, <1>4

LEMMA HearMpKept ==
  ASSUME TInv, NEW c \in Client, HearMp(c)
  PROVE  HeardKept(c)
<1> DEFINE d == Head(fromSecure[c]).name
<1>0. WellFormed /\ Bounded /\ KeysComeFirst
  BY DEF TInv
<1>1. FromSecure(c, {"MP_SEC"}) /\ SendPlain(c, Msg("MP", d, c, client[c].keys[d])) /\ UNCHANGED <<client, toSecure>>
  BY Zenon DEF HearMp
<1>2. /\ Head(fromSecure[c]) \in Mail /\ Head(fromSecure[c]).code = "MP_SEC"
      /\ fromSecure[c] # <<>> /\ fromSecure[c] \in Seq(Mail)
  BY <1>0, <1>1, FromSecureSays
<1>3. d \in Client
  BY <1>2, MailSays DEF AboutClient
<1>4. client[c].keys[d] \in Key
  <2>1. Head(fromSecure[c]) = fromSecure[c][1] /\ 1 \in 1 .. Len(fromSecure[c])
    BY <1>2, TailSays
  <2>2. KeysOnTheWay(c, fromSecure[c][1].name, 1)
    BY <1>0, <1>2, <2>1 DEF KeysComeFirst
  <2>3. \A j \in 1 .. 1 : fromSecure[c][j].code # "MP_SEC_OK"
    BY <1>2, <2>1
  <2>4. QED
    BY <2>1, <2>2, <2>3 DEF KeysOnTheWay
<1> HIDE DEF d
<1>5. Msg("MP", d, c, client[c].keys[d]) \in Mail /\ Msg("MP", d, c, client[c].keys[d]).code \notin Session
  <2>1. d \in Name /\ client[c].keys[d] \in Key \cup {NoKey}
    BY <1>3, <1>4 DEF Name
  <2>2. QED
    BY <1>3, <2>1, TextIsMail
<1>6. SentPlain(Session) /\ SentSecure(Session)
  BY <1>0, <1>1, <1>5, SendSays, NothingSentSays
<1>7. ClientTyped /\ KeysKept /\ LoginsKept
  BY <1>0, <1>1, OtherwiseSays DEF ClientKept
<1>8. Head(fromSecure[c]).code # "MP_SEC_OK" /\ Head(fromSecure[c]).code \notin Session
  BY <1>2 DEF Session
<1>9. QED
  BY <1>0, <1>1, <1>6, <1>7, <1>8, LearnsNothing DEF HeardKept

LEMMA HearConnectSecTyped ==
  ASSUME WellFormed, Bounded, NEW c \in Client, HearConnectSec(c)
  PROVE  /\ ClientKept /\ Learns(c) /\ toPlain' \in Queues /\ toSecure' = toSecure
         /\ Head(fromSecure[c]).code = "CONNECT_SEC"
         /\ \A x \in Client : toPlain'[x] = IF x \in {c} \ plain.ended THEN Append(toPlain[x], Signal("CONNECT"))
                                                                     ELSE toPlain[x]
<1>1. FromSecure(c, {"CONNECT_SEC"}) /\ SendPlain(c, Signal("CONNECT")) /\ UNCHANGED <<client, toSecure>>
  BY Zenon DEF HearConnectSec
<1>2. Head(fromSecure[c]).code = "CONNECT_SEC"
  BY <1>1, FromSecureSays
<1>3. ClientKept
  BY <1>1, OtherwiseSays
<1>4. Learns(c)
  BY <1>1, <1>2, <1>3, LearnsNothing DEF ClientKept
<1>5. Signal("CONNECT") \in Mail
  BY SignalIsMail DEF Session
<1>6. QED
  BY <1>1, <1>2, <1>3, <1>4, <1>5, SendSays

LEMMA ReceiveSecureTyped ==
  ASSUME TInv, NEW c \in Client, ReceiveSecure(c)
  PROVE  /\ ClientTyped /\ toPlain' \in Queues /\ toSecure' \in Queues
         /\ fromPlain' \in Queues /\ fromSecure' \in Queues
         /\ UNCHANGED <<plain, secure>> /\ (Learns(c) \/ Stops(c))
<1>0. WellFormed /\ Bounded /\ fromPlain \in Queues
  BY DEF TInv, WellFormed
<1>1. CASE HearConnectSec(c)
  <2>1. /\ ClientTyped /\ Learns(c) /\ toPlain' \in Queues /\ toSecure' = toSecure
    BY <1>0, <1>1, HearConnectSecTyped DEF ClientKept
  <2>2. FromSecure(c, {"CONNECT_SEC"})
    BY <1>1, Zenon DEF HearConnectSec
  <2>3. fromSecure' \in Queues /\ UNCHANGED <<plain, secure, fromPlain>>
    BY <1>0, <2>2, FromSecureSays
  <2>4. toSecure' \in Queues
    BY <1>0, <2>1 DEF WellFormed
  <2>5. QED
    BY <1>0, <2>1, <2>3, <2>4
<1>2. CASE HearEnd(c)
  <2>1. c \in Running
    BY <1>2, Zenon DEF HearEnd, HeardSecure
  <2>2. \/ ClientEnds(c, "exited", <<>>, <<>>)
        \/ ClientEnds(c, "exited", <<Signal("DISCONNECT")>>, <<Signal("DISCONNECT_SEC")>>)
    BY <1>2, Zenon DEF HearEnd
  <2>3. QED
    BY <1>0, <2>1, <2>2, ClientEndsTyped
<1>3. ASSUME HeardKept(c), NEW codes, FromSecure(c, codes)
      PROVE  /\ ClientTyped /\ toPlain' \in Queues /\ toSecure' \in Queues
             /\ fromPlain' \in Queues /\ fromSecure' \in Queues
             /\ UNCHANGED <<plain, secure>> /\ Learns(c)
  <2>1. fromSecure' \in Queues /\ UNCHANGED <<plain, secure, fromPlain>>
    BY <1>0, <1>3, FromSecureSays
  <2>2. QED
    BY <1>0, <1>3, <2>1 DEF HeardKept, SentPlain, SentSecure
<1>4. CASE HearKeys(c) \/ HearMp(c)
  <2>1. HeardKept(c)
    BY <1>0, <1>4, HearKeysKept, HearMpKept
  <2>2. \E codes : FromSecure(c, codes)
    BY <1>4, Zenon DEF HearKeys, HearMp
  <2>3. QED
    BY <1>3, <2>1, <2>2
<1>5. CASE HearConnectSecKo(c) \/ HearConnected(c) \/ HearAsk(c) \/ HearCreateKo(c) \/ HearJoin(c) \/ HearQuit(c)
  <2>1. HeardKept(c)
    BY <1>0, <1>5, HearPrintsKept, HearRoomsKept
  <2>2. \E codes : FromSecure(c, codes)
    BY <1>5, Zenon DEF HearConnectSecKo, HearConnected, HearAsk, HearCreateKo, HearJoin, HearQuit
  <2>3. QED
    BY <1>3, <2>1, <2>2
<1>6. QED
  BY <1>1, <1>2, <1>4, <1>5, Zenon DEF ReceiveSecure

\* Messages of the plain server that are not about logging in or out.
LEMMA HearPlainKept ==
  ASSUME WellFormed, Bounded, NEW c \in Client
  PROVE  HearCreated(c) \/ HearPlainCreateKo(c) \/ HearText(c) =>
           CommandKept /\ Head(fromPlain[c]).code \notin Session
<1>1. CASE HearCreated(c)
  <2>1. /\ FromPlain(c, {"CREATE_ROOM"}) /\ SendNothing
        /\ client' = [client EXCEPT ![c].created = @ \cup {Head(fromPlain[c]).name}]
    BY <1>1, Zenon DEF HearCreated
  <2>2. Head(fromPlain[c]) \in Mail /\ Head(fromPlain[c]).code = "CREATE_ROOM"
    BY <2>1, FromPlainSays
  <2>3. Head(fromPlain[c]).name \in Room
    BY <2>2, MailSays DEF AboutRoom
  <2>4. ClientKept
    BY <2>1, <2>3, OtherwiseSays
  <2>5. Head(fromPlain[c]).code \notin Session
    BY <2>2 DEF Session
  <2>6. QED
    BY <2>1, <2>4, <2>5, SendNothingSays DEF CommandKept
<1>2. CASE HearPlainCreateKo(c)
  <2> DEFINE r == Head(fromPlain[c]).name
  <2>1. /\ FromPlain(c, {"CREATE_ROOM_KO"}) /\ UNCHANGED client
        /\ SendNothing \/ SendBoth(c, About("DELETE_ROOM", r), About("DELETE_ROOM_SEC", r))
    BY <1>2, Zenon DEF HearPlainCreateKo
  <2>2. Head(fromPlain[c]) \in Mail /\ Head(fromPlain[c]).code = "CREATE_ROOM_KO"
    BY <2>1, FromPlainSays
  <2>3. r \in Room
    BY <2>2, MailSays DEF AboutRoom
  <2> HIDE DEF r
  <2>4. ClientKept
    BY <2>1, OtherwiseSays
  <2>5. Head(fromPlain[c]).code \notin Session
    BY <2>2 DEF Session
  <2>6. /\ About("DELETE_ROOM", r) \in Mail /\ About("DELETE_ROOM", r).code \notin Session
        /\ About("DELETE_ROOM_SEC", r) \in Mail /\ About("DELETE_ROOM_SEC", r).code \notin Session
    BY <2>3, RoomCodeIsMail DEF RoomCode
  <2>7. SentPlain(Session) /\ SentSecure(Session)
    BY <2>1, <2>6, SendSays, SendNothingSays DEF SendBoth
  <2>8. QED
    BY <2>4, <2>5, <2>7 DEF CommandKept
<1>3. CASE HearText(c)
  <2>1. /\ FromPlain(c, {"MESSAGE", "MP"}) /\ SendNothing
        /\ \E h, k : client' = [client EXCEPT ![c].garbled = @ \/ h # k]
    BY <1>3, Zenon DEF HearText
  <2>2. Head(fromPlain[c]).code \in {"MESSAGE", "MP"}
    BY <2>1, FromPlainSays
  <2>3. PICK b \in BOOLEAN : client' = [client EXCEPT ![c].garbled = b]
    BY <2>1 DEF WellFormed, ClientState
  <2>4. ClientKept
    BY <2>3, OtherwiseSays
  <2>5. Head(fromPlain[c]).code \notin Session
    BY <2>2 DEF Session
  <2>6. QED
    BY <2>1, <2>4, <2>5, SendNothingSays DEF CommandKept
<1>4. QED
  BY <1>1, <1>2, <1>3

LEMMA HearLoginTyped ==
  ASSUME WellFormed, Bounded, NEW c \in Client
  PROVE  /\ HearConnect(c) =>
              /\ ClientKept /\ toPlain' = toPlain /\ toSecure' \in Queues
              /\ Head(fromPlain[c]).code = "CONNECT"
              /\ \A x \in Client : toSecure'[x] = IF x \in {c} \ secure.ended
                                                  THEN Append(toSecure[x], Signal("CONNECT_OK")) ELSE toSecure[x]
         /\ HearConnectKo(c) =>
              /\ ClientKept /\ toPlain' = toPlain /\ toSecure' \in Queues
              /\ Head(fromPlain[c]).code = "CONNECT_KO"
              /\ \A x \in Client : toSecure'[x] = IF x \in {c} \ secure.ended
                                                  THEN Append(toSecure[x], Signal("DISCONNECT_SEC")) ELSE toSecure[x]
<1>0. Signal("CONNECT_OK") \in Mail /\ Signal("DISCONNECT_SEC") \in Mail
  BY SignalIsMail DEF Session
<1>1. ASSUME NEW code \in {"CONNECT", "CONNECT_KO"}, FromPlain(c, {code}), UNCHANGED <<client, toPlain>>,
             NEW m \in Mail, SendSecure(c, m)
      PROVE  /\ ClientKept /\ toPlain' = toPlain /\ toSecure' \in Queues
             /\ Head(fromPlain[c]).code = code
             /\ \A x \in Client : toSecure'[x] = IF x \in {c} \ secure.ended
                                                 THEN Append(toSecure[x], m) ELSE toSecure[x]
  BY <1>1, FromPlainSays, OtherwiseSays, SendSays
<1>2. ASSUME HearConnect(c)
      PROVE  FromPlain(c, {"CONNECT"}) /\ UNCHANGED <<client, toPlain>> /\ SendSecure(c, Signal("CONNECT_OK"))
  BY <1>2, Zenon DEF HearConnect
<1>3. ASSUME HearConnectKo(c)
      PROVE  FromPlain(c, {"CONNECT_KO"}) /\ UNCHANGED <<client, toPlain>> /\ SendSecure(c, Signal("DISCONNECT_SEC"))
  BY <1>3, Zenon DEF HearConnectKo
<1>4. QED
  BY <1>0, <1>1, <1>2, <1>3

LEMMA ReceivePlainTyped ==
  ASSUME WellFormed, Bounded, NEW c \in Client, ReceivePlain(c)
  PROVE  /\ ClientTyped /\ toPlain' \in Queues /\ toSecure' \in Queues
         /\ fromPlain' \in Queues /\ fromSecure' \in Queues
         /\ UNCHANGED <<plain, secure>> /\ (Plainly \/ Stops(c))
<1>0. fromSecure \in Queues /\ toPlain \in Queues /\ Grows(fromSecure, fromSecure, Conversation)
  BY GrowsFromItself DEF WellFormed
<1>1. ASSUME ClientKept, NEW codes, FromPlain(c, codes), toPlain' \in Queues, toSecure' \in Queues
      PROVE  /\ ClientTyped /\ toPlain' \in Queues /\ toSecure' \in Queues
             /\ fromPlain' \in Queues /\ fromSecure' \in Queues
             /\ UNCHANGED <<plain, secure>> /\ Plainly
  <2>1. fromPlain' \in Queues /\ UNCHANGED <<plain, secure, fromSecure>>
    BY <1>1, FromPlainSays
  <2>2. Plainly
    BY <1>0, <1>1, <2>1 DEF Plainly, ClientKept, LoginsKept, Running
  <2>3. QED
    BY <1>0, <1>1, <2>1, <2>2 DEF ClientKept
<1>2. CASE HearConnect(c) \/ HearConnectKo(c)
  <2>1. \E codes : FromPlain(c, codes)
    BY <1>2, Zenon DEF HearConnect, HearConnectKo
  <2>2. ClientKept /\ toPlain' = toPlain /\ toSecure' \in Queues
    BY <1>2, HearLoginTyped
  <2>3. QED
    BY <1>0, <1>1, <2>1, <2>2
<1>3. CASE HearCreated(c) \/ HearPlainCreateKo(c) \/ HearText(c)
  <2>1. \E codes : FromPlain(c, codes)
    BY <1>3, Zenon DEF HearCreated, HearPlainCreateKo, HearText
  <2>2. ClientKept /\ toPlain' \in Queues /\ toSecure' \in Queues
    BY <1>3, HearPlainKept DEF CommandKept, SentPlain, SentSecure
  <2>3. QED
    BY <1>1, <2>1, <2>2
<1>4. CASE HearDisconnect(c)
  <2>1. c \in Running /\ ClientEnds(c, "exited", <<Signal("DISCONNECT")>>, <<>>)
    BY <1>4, Zenon DEF HearDisconnect, HeardPlain
  <2>2. QED
    BY <2>1, ClientEndsTyped
<1>5. QED
  BY <1>2, <1>3, <1>4, Zenon DEF ReceivePlain

----------------------------------------------------------------------------
(***************************************************************************)
(* Types are kept, and keys come before the texts that need them.          *)
(***************************************************************************)
KeyStep == Plainly \/ \E c \in Client : Learns(c) \/ Stops(c) \/ DealStep(c)

LEMMA NextTyped ==
  ASSUME TInv, [Next]_vars
  PROVE  WellFormed' /\ Bounded' /\ KeyStep
<1>0. WellFormed /\ Bounded /\ KeysComeFirst
  BY DEF TInv
<1>1. CASE UNCHANGED <<setting, plain, secure, client, toPlain, toSecure, fromPlain, fromSecure>>
  <2>1. WellFormed' /\ Bounded'
    BY <1>0, <1>1 DEF WellFormed, Bounded
  <2>2. fromSecure \in Queues /\ Grows(fromSecure, fromSecure, Conversation)
    BY <1>0, GrowsFromItself DEF WellFormed
  <2>3. Plainly
    BY <1>1, <2>2 DEF Plainly, KeysKept, Running
  <2>4. QED
    BY <2>1, <2>3 DEF KeyStep
<1>2. ASSUME setting' = setting, plain' \in PlainState, secure' \in SecureState, ClientTyped,
             toPlain' \in Queues, toSecure' \in Queues, fromPlain' \in Queues, fromSecure' \in Queues
      PROVE  WellFormed' /\ Bounded'
  BY <1>0, <1>2 DEF WellFormed, Bounded, ClientTyped
<1>3. /\ plain \in PlainState /\ secure \in SecureState /\ fromPlain \in Queues /\ fromSecure \in Queues
      /\ toPlain \in Queues /\ toSecure \in Queues
      /\ UNCHANGED client => ClientTyped
  BY <1>0 DEF WellFormed, Bounded, ClientTyped
<1>4. ASSUME setting' = setting, NEW c \in Client, PlainServer(c) PROVE WellFormed' /\ Bounded' /\ KeyStep
  <2>1. PlainTyped /\ toPlain' \in Queues /\ UNCHANGED <<secure, client, toSecure, fromSecure>>
    BY <1>0, <1>4, PlainServerTyped
  <2>2. WellFormed' /\ Bounded'
    BY <1>2, <1>3, <1>4, <2>1 DEF PlainTyped
  <2>3. Grows(fromSecure, fromSecure, Conversation)
    BY <1>3, GrowsFromItself
  <2>4. Plainly
    BY <2>1, <2>3 DEF Plainly, KeysKept, Running
  <2>5. QED
    BY <2>2, <2>4 DEF KeyStep
<1>5. ASSUME setting' = setting, NEW c \in Client, SecureServer(c) PROVE WellFormed' /\ Bounded' /\ KeyStep
  <2>1. /\ secure' \in SecureState /\ fromSecure' \in Queues /\ toSecure' \in Queues
        /\ UNCHANGED <<plain, client, toPlain, fromPlain>>
        /\ Plainly \/ DealStep(c)
    BY <1>0, <1>5, SecureServerTyped
  <2>2. WellFormed' /\ Bounded'
    BY <1>2, <1>3, <1>5, <2>1
  <2>3. QED
    BY <2>1, <2>2 DEF KeyStep
<1>6. ASSUME setting' = setting, NEW c \in Client, Keyboard(c) \/ ReceiveSecure(c) \/ ReceivePlain(c)
      PROVE  WellFormed' /\ Bounded' /\ KeyStep
  <2>1. /\ ClientTyped /\ toPlain' \in Queues /\ toSecure' \in Queues
        /\ fromPlain' \in Queues /\ fromSecure' \in Queues
        /\ UNCHANGED <<plain, secure>> /\ (Plainly \/ Learns(c) \/ Stops(c))
    BY <1>0, <1>6, KeyboardTyped, ReceiveSecureTyped, ReceivePlainTyped
  <2>2. WellFormed' /\ Bounded'
    BY <1>2, <1>3, <1>6, <2>1
  <2>3. QED
    BY <2>1, <2>2 DEF KeyStep
<1>7. ASSUME UNCHANGED vars \/ (Stopped /\ setting' = setting)
      PROVE  UNCHANGED <<setting, plain, secure, client, toPlain, toSecure, fromPlain, fromSecure>>
  BY <1>7 DEF vars, state, channels, Stopped
<1>8. QED
  BY <1>1, <1>4, <1>5, <1>6, <1>7, Zenon DEF Next

OnTheWayNext(c, d, i) ==
  \/ client'[c].keys[d] \in Key
  \/ \E n \in 1 .. i : fromSecure'[c][n].code = "MP_SEC_OK" /\ fromSecure'[c][n].name = d

LEMMA GrowingOnTheWay ==
  ASSUME NEW c \in Client, NEW d \in Client, NEW i \in Nat, NEW j \in Nat, i <= j,
         \A n \in 1 .. i : fromSecure'[c][n] = fromSecure[c][n],
         client'[c].keys[d] = client[c].keys[d], KeysOnTheWay(c, d, i)
  PROVE  OnTheWayNext(c, d, j)
<1>1. CASE client[c].keys[d] \in Key
  BY <1>1 DEF OnTheWayNext
<1>2. CASE \E n \in 1 .. i : fromSecure[c][n].code = "MP_SEC_OK" /\ fromSecure[c][n].name = d
  <2>1. PICK n \in 1 .. i : fromSecure[c][n].code = "MP_SEC_OK" /\ fromSecure[c][n].name = d
    BY <1>2
  <2>2. n \in 1 .. j /\ fromSecure'[c][n] = fromSecure[c][n]
    OBVIOUS
  <2>3. QED
    BY <2>1, <2>2 DEF OnTheWayNext
<1>3. QED
  BY <1>1, <1>2 DEF KeysOnTheWay

LEMMA KeysComeFirstNext ==
  ASSUME \A c \in Client :
           /\ secure'.dealing[c] \in Deal \cup {NotDealing}
           /\ secure'.dealing[c] # NotDealing /\ c \in Running' =>
                OnTheWayNext(c, secure'.dealing[c].name, Len(fromSecure'[c]))
           /\ \A i \in 1 .. Len(fromSecure'[c]) :
                fromSecure'[c][i].code = "MP_SEC" => OnTheWayNext(c, fromSecure'[c][i].name, i)
  PROVE  KeysComeFirst'
  BY DEF KeysComeFirst, OnTheWayNext, KeysOnTheWay

\* The messages in a queue: what MP_SEC names, and the length.
LEMMA QueueSays ==
  ASSUME NEW q \in Queues, NEW c \in Client
  PROVE  /\ q[c] \in Seq(Mail) /\ Len(q[c]) \in Nat
         /\ \A i \in 1 .. Len(q[c]) :
              q[c][i] \in Mail /\ (q[c][i].code \in AboutClient => q[c][i].name \in Client)
<1>1. q[c] \in Seq(Mail) /\ Len(q[c]) \in Nat
  BY LenProperties DEF Queues
<1>2. \A i \in 1 .. Len(q[c]) : q[c][i] \in Mail
  BY <1>1, ElementOfSeq
<1>3. QED
  BY <1>1, <1>2, MailSays

LEMMA PlainlyOrdered ==
  ASSUME WellFormed, fromSecure' \in Queues, KeysComeFirst, Plainly
  PROVE  KeysComeFirst'
<1>1. SUFFICES ASSUME NEW c \in Client
      PROVE  /\ secure'.dealing[c] \in Deal \cup {NotDealing}
             /\ secure'.dealing[c] # NotDealing /\ c \in Running' =>
                  OnTheWayNext(c, secure'.dealing[c].name, Len(fromSecure'[c]))
             /\ \A i \in 1 .. Len(fromSecure'[c]) :
                  fromSecure'[c][i].code = "MP_SEC" => OnTheWayNext(c, fromSecure'[c][i].name, i)
  BY KeysComeFirstNext
<1>2. /\ secure'.dealing[c] = secure.dealing[c] /\ Running' = Running
      /\ \A d \in Client : client'[c].keys[d] = client[c].keys[d]
      /\ Len(fromSecure[c]) <= Len(fromSecure'[c])
      /\ \A i \in 1 .. Len(fromSecure[c]) : fromSecure'[c][i] = fromSecure[c][i]
      /\ \A i \in Len(fromSecure[c]) + 1 .. Len(fromSecure'[c]) : fromSecure'[c][i].code # "MP_SEC"
  BY DEF Plainly, KeysKept, Grows, Conversation
<1>3. /\ Len(fromSecure[c]) \in Nat /\ Len(fromSecure'[c]) \in Nat
      /\ \A i \in 1 .. Len(fromSecure[c]) : fromSecure[c][i].code = "MP_SEC" => fromSecure[c][i].name \in Client
  BY QueueSays DEF WellFormed, AboutClient
<1>4. secure.dealing[c] \in Deal \cup {NotDealing}
  BY DEF KeysComeFirst
<1>5. ASSUME secure.dealing[c] # NotDealing, c \in Running
      PROVE  OnTheWayNext(c, secure.dealing[c].name, Len(fromSecure'[c]))
  <2>1. KeysOnTheWay(c, secure.dealing[c].name, Len(fromSecure[c])) /\ secure.dealing[c].name \in Client
    BY <1>4, <1>5 DEF KeysComeFirst, Deal
  <2>2. QED
    BY <1>2, <1>3, <2>1, GrowingOnTheWay
<1>6. ASSUME NEW i \in 1 .. Len(fromSecure'[c]), fromSecure'[c][i].code = "MP_SEC"
      PROVE  OnTheWayNext(c, fromSecure'[c][i].name, i)
  <2>1. i \in 1 .. Len(fromSecure[c])
    BY <1>2, <1>3, <1>6
  <2>2. fromSecure'[c][i] = fromSecure[c][i]
    BY <1>2, <2>1
  <2>3. KeysOnTheWay(c, fromSecure[c][i].name, i) /\ fromSecure[c][i].name \in Client
    BY <1>3, <1>6, <2>1, <2>2 DEF KeysComeFirst
  <2>4. \A n \in 1 .. i : fromSecure'[c][n] = fromSecure[c][n]
    BY <1>2, <1>3, <2>1
  <2>5. OnTheWayNext(c, fromSecure[c][i].name, i)
    BY <1>2, <2>1, <2>3, <2>4, GrowingOnTheWay
  <2>6. QED
    BY <2>2, <2>5
<1>7. QED
  BY <1>2, <1>4, <1>5, <1>6

LEMMA StopsOrdered ==
  ASSUME WellFormed, fromSecure' \in Queues, KeysComeFirst, NEW e \in Client, Stops(e)
  PROVE  KeysComeFirst'
<1>0. fromSecure \in Queues
  BY DEF WellFormed
<1>1. SUFFICES ASSUME NEW c \in Client
      PROVE  /\ secure'.dealing[c] \in Deal \cup {NotDealing}
             /\ secure'.dealing[c] # NotDealing /\ c \in Running' =>
                  OnTheWayNext(c, secure'.dealing[c].name, Len(fromSecure'[c]))
             /\ \A i \in 1 .. Len(fromSecure'[c]) :
                  fromSecure'[c][i].code = "MP_SEC" => OnTheWayNext(c, fromSecure'[c][i].name, i)
  BY KeysComeFirstNext
<1>2. secure'.dealing[c] = secure.dealing[c] /\ Running' = Running \ {e}
  BY DEF Stops
<1>3. secure.dealing[c] \in Deal \cup {NotDealing}
  BY DEF KeysComeFirst
<1>4. CASE c = e
  <2>1. fromSecure'[c] = <<>> /\ c \notin Running'
    BY <1>0, <1>2, <1>4, CutSays DEF Stops
  <2>2. QED
    BY <1>2, <1>3, <2>1
<1>5. CASE c # e
  <2>1. fromSecure'[c] = fromSecure[c] /\ \A d \in Client : client'[c].keys[d] = client[c].keys[d]
    BY <1>0, <1>5, CutSays DEF Stops
  <2>2. /\ Len(fromSecure[c]) \in Nat
        /\ \A i \in 1 .. Len(fromSecure[c]) : fromSecure[c][i].code = "MP_SEC" => fromSecure[c][i].name \in Client
    BY <1>0, QueueSays DEF AboutClient
  <2>3. secure.dealing[c] # NotDealing /\ c \in Running =>
          KeysOnTheWay(c, secure.dealing[c].name, Len(fromSecure[c])) /\ secure.dealing[c].name \in Client
    BY <1>3 DEF KeysComeFirst, Deal
  <2>4. \A i \in 1 .. Len(fromSecure[c]) :
          fromSecure[c][i].code = "MP_SEC" => KeysOnTheWay(c, fromSecure[c][i].name, i)
    BY DEF KeysComeFirst
  <2>5. \A d \in Client, i \in Nat : KeysOnTheWay(c, d, i) => OnTheWayNext(c, d, i)
    BY <2>1 DEF KeysOnTheWay, OnTheWayNext
  <2>6. QED
    BY <1>2, <1>3, <2>1, <2>2, <2>3, <2>4, <2>5
<1>6. QED
  BY <1>4, <1>5

LEMMA LearnsOrdered ==
  ASSUME WellFormed, fromSecure' \in Queues, KeysComeFirst, NEW e \in Client, Learns(e)
  PROVE  KeysComeFirst'
<1>0. fromSecure \in Queues
  BY DEF WellFormed
<1>1. SUFFICES ASSUME NEW c \in Client
      PROVE  /\ secure'.dealing[c] \in Deal \cup {NotDealing}
             /\ secure'.dealing[c] # NotDealing /\ c \in Running' =>
                  OnTheWayNext(c, secure'.dealing[c].name, Len(fromSecure'[c]))
             /\ \A i \in 1 .. Len(fromSecure'[c]) :
                  fromSecure'[c][i].code = "MP_SEC" => OnTheWayNext(c, fromSecure'[c][i].name, i)
  BY KeysComeFirstNext
<1>2. secure'.dealing[c] = secure.dealing[c] /\ Running' = Running
  BY DEF Learns
<1>3. secure.dealing[c] \in Deal \cup {NotDealing}
  BY DEF KeysComeFirst
<1>4. /\ Len(fromSecure[c]) \in Nat
      /\ \A i \in 1 .. Len(fromSecure[c]) : fromSecure[c][i].code = "MP_SEC" => fromSecure[c][i].name \in Client
  BY <1>0, QueueSays DEF AboutClient
<1>5. secure.dealing[c] # NotDealing /\ c \in Running =>
        KeysOnTheWay(c, secure.dealing[c].name, Len(fromSecure[c])) /\ secure.dealing[c].name \in Client
  BY <1>3 DEF KeysComeFirst, Deal
<1>6. \A i \in 1 .. Len(fromSecure[c]) :
        fromSecure[c][i].code = "MP_SEC" => KeysOnTheWay(c, fromSecure[c][i].name, i)
  BY DEF KeysComeFirst
<1>7. CASE c # e
  <2>1. fromSecure'[c] = fromSecure[c] /\ \A d \in Client : client'[c].keys[d] = client[c].keys[d]
    BY <1>0, <1>7, PopSays DEF Learns
  <2>2. \A d \in Client, i \in Nat : KeysOnTheWay(c, d, i) => OnTheWayNext(c, d, i)
    BY <2>1 DEF KeysOnTheWay, OnTheWayNext
  <2>3. QED
    BY <1>2, <1>3, <1>4, <1>5, <1>6, <2>1, <2>2
<1>8. CASE c = e
  <2>1. /\ fromSecure[c] # <<>> /\ fromSecure'[c] = Tail(fromSecure[c])
        /\ \A d \in Client : client'[c].keys[d] = IF IsDeal(Head(fromSecure[c]), d) THEN Head(fromSecure[c]).k
                                                                                ELSE client[c].keys[d]
    <3>1. /\ fromSecure[c] # <<>> /\ fromSecure' = [fromSecure EXCEPT ![c] = Tail(@)]
          /\ \A x, d \in Client :
               client'[x].keys[d] = IF x = c /\ IsDeal(Head(fromSecure[c]), d) THEN Head(fromSecure[c]).k
                                                                             ELSE client[x].keys[d]
      BY <1>8 DEF Learns
    <3>2. fromSecure'[c] = Tail(fromSecure[c])
      BY <1>0, <3>1 DEF Queues
    <3>3. QED
      BY <3>1, <3>2
  <2>2. /\ Head(fromSecure[c]) \in Mail /\ Head(fromSecure[c]) = fromSecure[c][1]
        /\ Len(fromSecure[c]) \in Nat \ {0} /\ Len(fromSecure'[c]) = Len(fromSecure[c]) - 1
        /\ \A i \in 1 .. Len(fromSecure[c]) - 1 : fromSecure'[c][i] = fromSecure[c][i + 1]
    BY <1>0, <2>1, TailSays, QueueSays
  <2>3. ASSUME NEW d \in Client, NEW i \in 0 .. Len(fromSecure[c]) - 1, KeysOnTheWay(c, d, i + 1)
        PROVE  OnTheWayNext(c, d, i)
    <3>1. Head(fromSecure[c]).code = "MP_SEC_OK" => Head(fromSecure[c]).k \in Key
      BY <2>2, MailSays
    <3>2. CASE IsDeal(Head(fromSecure[c]), d)
      BY <2>1, <3>1, <3>2 DEF IsDeal, OnTheWayNext
    <3>3. CASE ~ IsDeal(Head(fromSecure[c]), d)
      <4>1. CASE client[c].keys[d] \in Key
        BY <2>1, <3>3, <4>1 DEF OnTheWayNext
      <4>2. CASE \E j \in 1 .. i + 1 : fromSecure[c][j].code = "MP_SEC_OK" /\ fromSecure[c][j].name = d
        <5>1. PICK j \in 1 .. i + 1 : fromSecure[c][j].code = "MP_SEC_OK" /\ fromSecure[c][j].name = d
          BY <4>2
        <5>2. j # 1
          BY <2>2, <3>3, <5>1 DEF IsDeal
        <5>3. j - 1 \in 1 .. i /\ fromSecure'[c][j - 1] = fromSecure[c][j]
          BY <2>2, <2>3, <5>1, <5>2
        <5>4. QED
          BY <5>1, <5>3 DEF OnTheWayNext
      <4>3. QED
        BY <2>3, <4>1, <4>2 DEF KeysOnTheWay
    <3>4. QED
      BY <3>2, <3>3
  <2>4. secure'.dealing[c] # NotDealing /\ c \in Running' =>
          OnTheWayNext(c, secure'.dealing[c].name, Len(fromSecure'[c]))
    BY <1>2, <1>4, <1>5, <2>2, <2>3
  <2>5. ASSUME NEW i \in 1 .. Len(fromSecure'[c]), fromSecure'[c][i].code = "MP_SEC"
        PROVE  OnTheWayNext(c, fromSecure'[c][i].name, i)
    <3>1. i + 1 \in 1 .. Len(fromSecure[c]) /\ fromSecure'[c][i] = fromSecure[c][i + 1]
      BY <2>2, <2>5
    <3>2. KeysOnTheWay(c, fromSecure[c][i + 1].name, i + 1) /\ fromSecure[c][i + 1].name \in Client
      BY <1>4, <1>6, <2>5, <3>1
    <3>3. i \in 0 .. Len(fromSecure[c]) - 1
      BY <2>2, <3>1
    <3>4. QED
      BY <2>3, <3>1, <3>2, <3>3
  <2>6. QED
    BY <1>2, <1>3, <2>4, <2>5
<1>9. QED
  BY <1>7, <1>8

\* A text that was on its way keeps its keys ahead of it while the queue grows.
LEMMA TextStaysOrdered ==
  ASSUME WellFormed, KeysComeFirst, NEW c \in Client,
         \A d \in Client : client'[c].keys[d] = client[c].keys[d],
         \A n \in 1 .. Len(fromSecure[c]) : fromSecure'[c][n] = fromSecure[c][n],
         NEW i \in 1 .. Len(fromSecure[c]), fromSecure'[c][i].code = "MP_SEC"
  PROVE  OnTheWayNext(c, fromSecure'[c][i].name, i)
<1>1. /\ Len(fromSecure[c]) \in Nat
      /\ fromSecure[c][i].code = "MP_SEC" => fromSecure[c][i].name \in Client
  BY QueueSays DEF WellFormed, AboutClient
<1>2. fromSecure'[c][i] = fromSecure[c][i]
  OBVIOUS
<1>3. KeysOnTheWay(c, fromSecure[c][i].name, i) /\ fromSecure[c][i].name \in Client
  BY <1>1, <1>2 DEF KeysComeFirst
<1>4. \A n \in 1 .. i : fromSecure'[c][n] = fromSecure[c][n]
  BY <1>1
<1>5. OnTheWayNext(c, fromSecure[c][i].name, i)
  BY <1>3, <1>4, GrowingOnTheWay
<1>6. QED
  BY <1>2, <1>5

LEMMA MpOrdered ==
  ASSUME WellFormed, KeysComeFirst, NEW e \in Client, SecMp(e), KeysKept, Running' = Running
  PROVE  KeysComeFirst'
<1>0. fromSecure \in Queues /\ secure \in SecureState
  BY DEF WellFormed
<1>1. CASE secure' = secure /\ fromSecure' = fromSecure
  <2>1. Plainly /\ fromSecure' \in Queues
    BY <1>0, <1>1, GrowsFromItself DEF Plainly
  <2>2. QED
    BY <2>1, PlainlyOrdered
<1>2. ASSUME NEW d \in Client, NEW k \in Key,
             secure'.dealing = [secure.dealing EXCEPT ![e] = Msg("MP_SEC", d, NULL, k)],
             Msg("MP_SEC_OK", d, NULL, k) \in Mail,
             fromSecure' = Put(fromSecure, {e} \cap Running, Msg("MP_SEC_OK", d, NULL, k))
      PROVE  KeysComeFirst'
  <2> SUFFICES ASSUME NEW c \in Client
        PROVE  /\ secure'.dealing[c] \in Deal \cup {NotDealing}
               /\ secure'.dealing[c] # NotDealing /\ c \in Running' =>
                    OnTheWayNext(c, secure'.dealing[c].name, Len(fromSecure'[c]))
               /\ \A i \in 1 .. Len(fromSecure'[c]) :
                    fromSecure'[c][i].code = "MP_SEC" => OnTheWayNext(c, fromSecure'[c][i].name, i)
    BY KeysComeFirstNext
  <2>1. fromSecure'[c] = IF c \in {e} \cap Running THEN Append(fromSecure[c], Msg("MP_SEC_OK", d, NULL, k))
                                                  ELSE fromSecure[c]
    BY <1>0, <1>2, PutSays
  <2>2. fromSecure[c] \in Seq(Mail) /\ Len(fromSecure[c]) \in Nat
    BY <1>0, QueueSays
  <2>3. /\ Len(Append(fromSecure[c], Msg("MP_SEC_OK", d, NULL, k))) = Len(fromSecure[c]) + 1
        /\ Append(fromSecure[c], Msg("MP_SEC_OK", d, NULL, k))[Len(fromSecure[c]) + 1] = Msg("MP_SEC_OK", d, NULL, k)
        /\ \A i \in 1 .. Len(fromSecure[c]) :
             Append(fromSecure[c], Msg("MP_SEC_OK", d, NULL, k))[i] = fromSecure[c][i]
    BY <1>2, <2>2, AppendSays
  <2>4. Msg("MP_SEC_OK", d, NULL, k).code = "MP_SEC_OK" /\ Msg("MP_SEC_OK", d, NULL, k).name = d
        /\ Msg("MP_SEC", d, NULL, k).name = d
    BY DEF Msg
  <2>5. \A x \in Client : client'[c].keys[x] = client[c].keys[x]
    BY DEF KeysKept
  <2>6. \A i \in 1 .. Len(fromSecure[c]) : fromSecure'[c][i] = fromSecure[c][i]
    BY <2>1, <2>3
  <2>7. ASSUME NEW i \in 1 .. Len(fromSecure'[c]), fromSecure'[c][i].code = "MP_SEC"
        PROVE  OnTheWayNext(c, fromSecure'[c][i].name, i)
    <3>1. i \in 1 .. Len(fromSecure[c])
      BY <2>1, <2>2, <2>3, <2>4, <2>7
    <3>2. QED
      BY <2>5, <2>6, <2>7, <3>1, TextStaysOrdered
  <2>8. CASE c = e
    <3>1. secure'.dealing[c] = Msg("MP_SEC", d, NULL, k)
      BY <1>0, <1>2, <2>8 DEF SecureState
    <3>2. Msg("MP_SEC", d, NULL, k) \in Deal
      BY ConversationIsMail
    <3>3. c \in Running' => OnTheWayNext(c, d, Len(fromSecure'[c]))
      BY <2>1, <2>2, <2>3, <2>4, <2>8 DEF OnTheWayNext
    <3>4. QED
      BY <2>4, <2>7, <3>1, <3>2, <3>3
  <2>9. CASE c # e
    <3>1. secure'.dealing[c] = secure.dealing[c] /\ fromSecure'[c] = fromSecure[c]
      BY <1>0, <1>2, <2>1, <2>9 DEF SecureState
    <3>2. secure.dealing[c] \in Deal \cup {NotDealing}
      BY DEF KeysComeFirst
    <3>3. secure.dealing[c] # NotDealing /\ c \in Running =>
            KeysOnTheWay(c, secure.dealing[c].name, Len(fromSecure[c])) /\ secure.dealing[c].name \in Client
      BY <3>2 DEF KeysComeFirst, Deal
    <3>4. \A x \in Client, i \in Nat : KeysOnTheWay(c, x, i) => OnTheWayNext(c, x, i)
      BY <2>5, <3>1 DEF KeysOnTheWay, OnTheWayNext
    <3>5. QED
      BY <2>2, <2>7, <3>1, <3>2, <3>3, <3>4
  <2>10. QED
    BY <2>8, <2>9
<1>3. QED
  BY <1>1, <1>2, SecureMpTyped

LEMMA MpDealOrdered ==
  ASSUME WellFormed, KeysComeFirst, NEW e \in Client, SecMpDeal(e), KeysKept, Running' = Running
  PROVE  KeysComeFirst'
<1>0. fromSecure \in Queues /\ secure \in SecureState
  BY DEF WellFormed
<1>1. secure.dealing[e] # NotDealing
  BY SecureMpDealTyped
<1>2. ASSUME NEW d \in Client, NEW k \in Key, d = secure.dealing[e].name,
             Msg("MP_SEC_OK", e, NULL, k) \in Mail, About("MP_SEC", d) \in Mail,
             secure'.dealing = [secure.dealing EXCEPT ![e] = NotDealing],
             NEW s \in Queues, s = Put(fromSecure, {d} \cap Running, Msg("MP_SEC_OK", e, NULL, k)),
             fromSecure' = Put(s, {e} \cap Running, About("MP_SEC", d))
      PROVE  KeysComeFirst'
  <2> SUFFICES ASSUME NEW c \in Client
        PROVE  /\ secure'.dealing[c] \in Deal \cup {NotDealing}
               /\ secure'.dealing[c] # NotDealing /\ c \in Running' =>
                    OnTheWayNext(c, secure'.dealing[c].name, Len(fromSecure'[c]))
               /\ \A i \in 1 .. Len(fromSecure'[c]) :
                    fromSecure'[c][i].code = "MP_SEC" => OnTheWayNext(c, fromSecure'[c][i].name, i)
    BY KeysComeFirstNext
  <2>1. /\ fromSecure[c] \in Seq(Mail) /\ Len(fromSecure[c]) \in Nat
        /\ s[c] \in Seq(Mail) /\ Len(s[c]) \in Nat
    BY <1>0, <1>2, QueueSays
  <2>2. Msg("MP_SEC_OK", e, NULL, k).code = "MP_SEC_OK" /\ About("MP_SEC", d).name = d
    BY DEF Msg, About
  <2>3. /\ Len(s[c]) >= Len(fromSecure[c])
        /\ \A i \in 1 .. Len(fromSecure[c]) : s[c][i] = fromSecure[c][i]
        /\ \A i \in Len(fromSecure[c]) + 1 .. Len(s[c]) : s[c][i].code # "MP_SEC"
    <3>1. s[c] = IF c \in {d} \cap Running THEN Append(fromSecure[c], Msg("MP_SEC_OK", e, NULL, k))
                                           ELSE fromSecure[c]
      BY <1>0, <1>2, PutSays
    <3>2. /\ Len(Append(fromSecure[c], Msg("MP_SEC_OK", e, NULL, k))) = Len(fromSecure[c]) + 1
          /\ Append(fromSecure[c], Msg("MP_SEC_OK", e, NULL, k))[Len(fromSecure[c]) + 1] = Msg("MP_SEC_OK", e, NULL, k)
          /\ \A i \in 1 .. Len(fromSecure[c]) :
               Append(fromSecure[c], Msg("MP_SEC_OK", e, NULL, k))[i] = fromSecure[c][i]
      BY <1>2, <2>1, AppendSays
    <3>3. QED
      BY <2>1, <2>2, <3>1, <3>2
  <2>4. fromSecure'[c] = IF c \in {e} \cap Running THEN Append(s[c], About("MP_SEC", d)) ELSE s[c]
    BY <1>2, PutSays
  <2>5. /\ Len(Append(s[c], About("MP_SEC", d))) = Len(s[c]) + 1
        /\ Append(s[c], About("MP_SEC", d))[Len(s[c]) + 1] = About("MP_SEC", d)
        /\ \A i \in 1 .. Len(s[c]) : Append(s[c], About("MP_SEC", d))[i] = s[c][i]
    BY <1>2, <2>1, AppendSays
  <2>6. \A x \in Client : client'[c].keys[x] = client[c].keys[x]
    BY DEF KeysKept
  <2>7. \A i \in 1 .. Len(fromSecure[c]) : fromSecure'[c][i] = fromSecure[c][i]
    BY <2>1, <2>3, <2>4, <2>5
  <2>8. Len(fromSecure'[c]) \in Nat /\ Len(fromSecure'[c]) >= Len(fromSecure[c])
    BY <2>1, <2>3, <2>4, <2>5
  <2>9. ASSUME NEW i \in 1 .. Len(fromSecure'[c]), fromSecure'[c][i].code = "MP_SEC"
        PROVE  OnTheWayNext(c, fromSecure'[c][i].name, i)
    <3>1. CASE i \in 1 .. Len(fromSecure[c])
      BY <2>6, <2>7, <2>9, <3>1, TextStaysOrdered
    <3>2. CASE i \notin 1 .. Len(fromSecure[c])
      <4>1. c = e /\ c \in Running /\ i > Len(fromSecure[c]) /\ fromSecure'[c][i] = About("MP_SEC", d)
        BY <2>1, <2>3, <2>4, <2>5, <2>9, <3>2
      <4>2. KeysOnTheWay(c, d, Len(fromSecure[c]))
        BY <1>1, <1>2, <4>1 DEF KeysComeFirst
      <4>3. OnTheWayNext(c, d, i)
        BY <2>1, <2>6, <2>7, <4>1, <4>2, GrowingOnTheWay
      <4>4. QED
        BY <2>2, <4>1, <4>3
    <3>3. QED
      BY <3>1, <3>2
  <2>10. CASE c = e
    <3>1. secure'.dealing[c] = NotDealing
      BY <1>0, <1>2, <2>10 DEF SecureState
    <3>2. QED
      BY <2>9, <3>1
  <2>11. CASE c # e
    <3>1. secure'.dealing[c] = secure.dealing[c]
      BY <1>0, <1>2, <2>11 DEF SecureState
    <3>2. secure.dealing[c] \in Deal \cup {NotDealing}
      BY DEF KeysComeFirst
    <3>3. ASSUME secure.dealing[c] # NotDealing, c \in Running
          PROVE  OnTheWayNext(c, secure.dealing[c].name, Len(fromSecure'[c]))
      <4>1. KeysOnTheWay(c, secure.dealing[c].name, Len(fromSecure[c])) /\ secure.dealing[c].name \in Client
        BY <3>2, <3>3 DEF KeysComeFirst, Deal
      <4>2. QED
        BY <2>1, <2>6, <2>7, <2>8, <4>1, GrowingOnTheWay
    <3>4. QED
      BY <2>9, <3>1, <3>2, <3>3
  <2>12. QED
    BY <2>10, <2>11
<1>3. QED
  <2>1. PICK d \in Client, k \in Key :
          /\ d = secure.dealing[e].name
          /\ Msg("MP_SEC_OK", e, NULL, k) \in Mail /\ About("MP_SEC", d) \in Mail
          /\ secure'.dealing = [secure.dealing EXCEPT ![e] = NotDealing]
          /\ Put(fromSecure, {d} \cap Running, Msg("MP_SEC_OK", e, NULL, k)) \in Queues
          /\ fromSecure' = Put(Put(fromSecure, {d} \cap Running, Msg("MP_SEC_OK", e, NULL, k)),
                               {e} \cap Running, About("MP_SEC", d))
    BY SecureMpDealTyped
  <2>2. QED
    BY <1>2, <2>1

\* The inductive invariant of the types.
LEMMA InitTyped == ASSUME Init PROVE TInv
<1>1. /\ setting \in Settings
      /\ plain = [users |-> setting.inside, ended |-> {},
                  rooms |-> [r \in Room |-> IF r \in setting.foreign THEN [admin |-> Other, members |-> {}]
                                                             ELSE Closed]]
      /\ secure = [users |-> setting.inside, ended |-> {}, rooms |-> [r \in Room |-> Closed],
                   accounts |-> setting.inside, first_connection |-> {},
                   dealing |-> [c \in Client |-> NotDealing], telling |-> [c \in Client |-> NotDealing],
                   todo |-> [c \in Client |-> {}], crossed |-> {}]
      /\ client = [c \in Client |-> [status |-> "running", refused |-> FALSE,
                                     login |-> c \in setting.inside, connected |-> c \in setting.inside,
                                     created |-> {}, asked |-> {}, typed |-> 0, garbled |-> FALSE,
                                     keys |-> [n \in Name |-> Absent]]]
      /\ toPlain = NothingSent /\ toSecure = NothingSent
      /\ fromPlain = NothingSent /\ fromSecure = NothingSent
  BY DEF Init
<1>2. NothingSent \in Queues /\ \A c \in Client : NothingSent[c] = <<>>
  BY EmptySays DEF NothingSent, Queues
<1>3. NotDealing \in Message /\ NotDealing \in Word
  BY NoneIsWord
<1>12. setting.inside \subseteq Client
  BY <1>1, ConstantsAssumption
<1>4. Closed \in RoomState /\ [admin |-> Other, members |-> {}] \in RoomState
  BY DEF RoomState, Closed
<1>5. plain \in PlainState
  BY <1>1, <1>4, <1>12 DEF PlainState
<1>6. secure \in SecureState /\ \A c \in Client : secure.dealing[c] = NotDealing
  BY <1>1, <1>3, <1>4, <1>12 DEF SecureState
<1>7. client \in [Client -> ClientState] /\ \A c \in Client : client[c].typed = 0
  BY <1>1 DEF ClientState
<1>8. WellFormed
  BY <1>1, <1>2, <1>5, <1>6, <1>7 DEF WellFormed
<1>9. Bounded
  BY <1>7, <1>8, BoundIsNat DEF Bounded
<1>10. KeysComeFirst
  <2>1. \A c \in Client : fromSecure[c] = <<>> /\ Len(fromSecure[c]) = 0
    BY <1>1, <1>2
  <2>2. QED
    BY <1>6, <2>1 DEF KeysComeFirst
<1>11. QED
  BY <1>8, <1>9, <1>10 DEF TInv

LEMMA NextKeepsTypes == ASSUME TInv, [Next]_vars PROVE TInv'
<1>1. WellFormed /\ KeysComeFirst /\ WellFormed' /\ Bounded' /\ KeyStep
  BY NextTyped DEF TInv
<1>2. fromSecure' \in Queues
  BY <1>1 DEF WellFormed
<1>3. CASE Plainly
  BY <1>1, <1>2, <1>3, PlainlyOrdered DEF TInv
<1>4. ASSUME NEW c \in Client, Learns(c) PROVE TInv'
  BY <1>1, <1>2, <1>4, LearnsOrdered DEF TInv
<1>5. ASSUME NEW c \in Client, Stops(c) PROVE TInv'
  BY <1>1, <1>2, <1>5, StopsOrdered DEF TInv
<1>6. ASSUME NEW c \in Client, DealStep(c) PROVE TInv'
  BY <1>1, <1>6, MpOrdered, MpDealOrdered DEF TInv, DealStep
<1>7. QED
  BY <1>1, <1>3, <1>4, <1>5, <1>6 DEF KeyStep

LEMMA TypesAreTypeOK == ASSUME TInv PROVE TypeOK
<1>1. /\ plain \in PlainState /\ secure \in SecureState /\ client \in [Client -> ClientState]
      /\ \A c \in Client : client[c].typed \in 0 .. setting.typed[c]
      /\ toPlain \in Queues /\ toSecure \in Queues /\ fromPlain \in Queues /\ fromSecure \in Queues
  BY DEF TInv, WellFormed, Bounded
<1>2. ASSUME NEW c \in Client PROVE \A q \in {toPlain, toSecure, fromPlain, fromSecure} : q[c] \in Seq(Message)
  <2>1. \A q \in {toPlain, toSecure, fromPlain, fromSecure} : q[c] \in Seq(Mail)
    BY <1>1 DEF Queues
  <2>2. Mail \subseteq Message
    BY DEF Mail
  <2>3. \A q \in Seq(Mail) : q \in Seq(Message)
    BY <2>2
  <2>4. QED
    BY <2>1, <2>3
<1>3. ASSUME NEW c \in Client
      PROVE  /\ client[c].status \in {"running", "exited", "crashed"}
             /\ {client[c].login, client[c].connected, client[c].refused, client[c].garbled} \subseteq BOOLEAN
             /\ client[c].created \subseteq Room /\ client[c].asked \subseteq Room \X Client
             /\ client[c].keys \in [Name -> Key \cup {NoKey, Absent}]
  BY <1>1 DEF ClientState
<1>4. Word \subseteq Message
  BY DEF Word, Mail
<1>5. secure.telling \in [Client -> Message]
  BY <1>1, <1>4 DEF SecureState
<1>6. QED
  BY <1>1, <1>2, <1>3, <1>5 DEF TypeOK, PlainState, SecureState

(***************************************************************************)
(* The two servers and their clients keep the types, whatever the number   *)
(* of clients and rooms and whatever is typed: what travels about a room   *)
(* names a room, and the keys of a conversation reach a client before the  *)
(* text that it enciphers with them (clientsec-cli.c:240-262,              *)
(* secure_server.c:350-367).                                               *)
(***************************************************************************)
THEOREM TypeCorrect == Spec => []TypeOK
<1>1. Init => TInv
  BY InitTyped
<1>2. TInv /\ [Next]_vars => TInv'
  BY NextKeepsTypes
<1>3. TInv => TypeOK
  BY TypesAreTypeOK
<1>4. QED
  BY <1>1, <1>2, <1>3, PTL DEF Spec

----------------------------------------------------------------------------
(***************************************************************************)
(* Steps that are not about a client's logging in or out.                  *)
(***************************************************************************)
\* The session messages of a queue, as far as the invariant tells.
Alike(q, s) ==
  /\ \A code \in Session : Has(s, code) <=> Has(q, code)
  /\ \A code \in Session : Single(q, code) => Single(s, code)
  /\ \A a, b \in Session : a # b => /\ Ahead(q, a, b) => Ahead(s, a, b)
                                    /\ Leads(q, a, b) => Leads(s, a, b)

\* Who is in, who has left, and who has an account.
SameStanding(x) ==
  /\ client'[x].status = client[x].status /\ client'[x].login = client[x].login
  /\ x \in plain'.users <=> x \in plain.users
  /\ x \in plain'.ended <=> x \in plain.ended
  /\ x \in secure'.users <=> x \in secure.users
  /\ x \in secure'.ended <=> x \in secure.ended
  /\ x \in secure'.accounts <=> x \in secure.accounts
  /\ x \in secure'.first_connection <=> x \in secure.first_connection

Idle(x) ==
  /\ setting' = setting /\ SameStanding(x)
  /\ Alike(toPlain[x], toPlain'[x]) /\ Alike(toSecure[x], toSecure'[x])
  /\ Alike(fromPlain[x], fromPlain'[x]) /\ Alike(fromSecure[x], fromSecure'[x])
  /\ x \in plain.ended /\ toPlain[x] = <<>> => toPlain'[x] = <<>>
  /\ x \in secure.ended /\ toSecure[x] = <<>> => toSecure'[x] = <<>>
  /\ x \notin Running /\ fromPlain[x] = <<>> => fromPlain'[x] = <<>>
  /\ x \notin Running /\ fromSecure[x] = <<>> => fromSecure'[x] = <<>>

LEMMA SessionSays ==
  /\ "CONNECT_SEC" \in Session /\ "CONNECT_OK" \in Session /\ "CONNECT" \in Session
  /\ "CONNECT_KO" \in Session /\ "DISCONNECT" \in Session /\ "DISCONNECT_SEC" \in Session
  /\ "DEL_ACCOUNT_SEC" \in Session /\ "EOF" \in Session
  BY DEF Session

LEMMA IdleKeeps ==
  ASSUME WellFormed, NEW x \in Client, LoginInv(x), Idle(x)
  PROVE  LoginInv(x)'
<1>1. /\ \A code \in Session : Has(toPlain'[x], code) <=> Has(toPlain[x], code)
      /\ \A code \in Session : Has(toSecure'[x], code) <=> Has(toSecure[x], code)
      /\ \A code \in Session : Has(fromPlain'[x], code) <=> Has(fromPlain[x], code)
      /\ \A code \in Session : Has(fromSecure'[x], code) <=> Has(fromSecure[x], code)
  BY DEF Idle, Alike
<1>2. SameStanding(x) /\ setting' = setting /\ (x \in Running' <=> x \in Running)
  BY DEF Idle, SameStanding, Running
<1>3. Unknown(x)'
  BY <1>1, <1>2 DEF LoginInv, Unknown, SameStanding
<1>4. Ends(x)'
  <2>1. Ahead(toSecure[x], "DISCONNECT_SEC", "EOF") => Ahead(toSecure'[x], "DISCONNECT_SEC", "EOF")
    BY SessionSays DEF Idle, Alike
  <2>2. QED
    BY <1>1, <1>2, <2>1, SessionSays DEF LoginInv, Ends, SameStanding, Idle
<1>5. GoesOn(x)'
  BY <1>1, <1>2, SessionSays DEF LoginInv, GoesOn, SameStanding
<1>6. Accounted(x)'
  <2>1. Leads(toSecure[x], "DEL_ACCOUNT_SEC", "DISCONNECT_SEC") => Leads(toSecure'[x], "DEL_ACCOUNT_SEC", "DISCONNECT_SEC")
    BY SessionSays DEF Idle, Alike
  <2>2. QED
    BY <1>1, <1>2, <2>1, SessionSays DEF LoginInv, Accounted, SameStanding
<1>7. Once(x)'
  <2>1. /\ Single(toSecure[x], "CONNECT_SEC") => Single(toSecure'[x], "CONNECT_SEC")
        /\ Single(fromSecure[x], "CONNECT_SEC") => Single(fromSecure'[x], "CONNECT_SEC")
        /\ Single(toPlain[x], "CONNECT") => Single(toPlain'[x], "CONNECT")
    BY SessionSays DEF Idle, Alike
  <2>2. QED
    BY <1>1, <1>2, <2>1, SessionSays DEF LoginInv, Once, SameStanding
<1>8. Remains(x)'
  <2>1. Ahead(toSecure[x], "CONNECT_SEC", "EOF") => Ahead(toSecure'[x], "CONNECT_SEC", "EOF")
    BY SessionSays DEF Idle, Alike
  <2>2. QED
    BY <1>1, <1>2, <2>1, SessionSays DEF LoginInv, Remains, SameStanding, Stays
<1>9. QED
  BY <1>3, <1>4, <1>5, <1>6, <1>7, <1>8 DEF LoginInv

LEMMA SameIsAlike == \A q : Alike(q, q)
  BY DEF Alike

LEMMA PopIsAlike ==
  ASSUME NEW q \in Seq(Mail), q # <<>>, Head(q).code \notin Session
  PROVE  Alike(q, Tail(q))
<1>1. \A code \in Session : Has(Tail(q), code) <=> Has(q, code)
  BY TailSays
<1>2. \A code \in Session : Single(q, code) => Single(Tail(q), code)
  BY SingleStays
<1>3. ASSUME NEW a \in Session, NEW b \in Session, a # b
      PROVE  (Ahead(q, a, b) => Ahead(Tail(q), a, b)) /\ (Leads(q, a, b) => Leads(Tail(q), a, b))
  BY <1>3, AheadStays, LeadsStays
<1>4. QED
  BY <1>1, <1>2, <1>3 DEF Alike

LEMMA GrowthIsAlike ==
  ASSUME NEW q \in Queues, NEW s \in Queues, Grows(q, s, Session), NEW x \in Client
  PROVE  Alike(q[x], s[x])
<1>0. /\ Len(q[x]) \in Nat /\ Len(s[x]) \in Nat /\ Len(q[x]) <= Len(s[x])
      /\ \A i \in 1 .. Len(q[x]) : s[x][i] = q[x][i]
      /\ \A i \in Len(q[x]) + 1 .. Len(s[x]) : s[x][i].code \notin Session
  BY QueueSays DEF Grows
<1>1. SUFFICES ASSUME NEW p, p = q[x], NEW t, t = s[x], Len(p) \in Nat, Len(t) \in Nat, Len(p) <= Len(t),
                      \A i \in 1 .. Len(p) : t[i] = p[i],
                      \A i \in 1 .. Len(t) : t[i].code \in Session => i \in 1 .. Len(p)
               PROVE  Alike(p, t)
  BY <1>0
<1>2. \A i \in 1 .. Len(p) : i \in 1 .. Len(t)
  BY <1>1
<1>3. \A code \in Session : Has(t, code) <=> Has(p, code)
  BY <1>1, <1>2 DEF Has
<1>4. \A code \in Session : Single(p, code) => Single(t, code)
  BY <1>1 DEF Single
<1>5. \A a, b \in Session : Ahead(p, a, b) => Ahead(t, a, b)
  BY <1>1 DEF Ahead
<1>6. ASSUME NEW a \in Session, NEW b \in Session, Leads(p, a, b)
      PROVE  Leads(t, a, b)
  <2>1. SUFFICES ASSUME NEW i \in 1 .. Len(t), t[i].code = a
                 PROVE  \E j \in i + 1 .. Len(t) : t[j].code = b
    BY DEF Leads
  <2>2. i \in 1 .. Len(p) /\ p[i].code = a
    BY <1>1, <2>1
  <2>3. PICK j \in i + 1 .. Len(p) : p[j].code = b
    BY <1>6, <2>2 DEF Leads
  <2>4. j \in i + 1 .. Len(t) /\ t[j] = p[j]
    BY <1>1, <2>2
  <2>5. QED
    BY <2>3, <2>4
<1>7. QED
  BY <1>3, <1>4, <1>5, <1>6 DEF Alike

AllIdle == \A x \in Client : Idle(x)

LEMMA UnchangedIsIdle ==
  ASSUME UNCHANGED <<setting, plain, secure, client, toPlain, toSecure, fromPlain, fromSecure>>
  PROVE  AllIdle
  BY SameIsAlike DEF AllIdle, Idle, SameStanding

\* What is written without a session message.
LEMMA PutIsAlike ==
  ASSUME NEW q \in Queues, NEW readers, NEW m \in Mail, m.code \notin Session, NEW x \in Client
  PROVE  Alike(q[x], Put(q, readers, m)[x])
<1>1. Grows(q, q, Session)
  BY GrowsFromItself
<1>2. Put(q, readers, m) \in Queues /\ Grows(q, Put(q, readers, m), Session)
  BY <1>1, PutGrows
<1>3. QED
  BY <1>2, GrowthIsAlike

LEMMA CommandIsIdle ==
  ASSUME WellFormed, setting' = setting, CommandKept, OnlySent
  PROVE  AllIdle
<1>1. toPlain \in Queues /\ toSecure \in Queues
  BY DEF WellFormed
<1>2. UNCHANGED <<plain, secure, fromPlain, fromSecure>>
  BY DEF OnlySent
<1>3. ASSUME NEW x \in Client PROVE Idle(x)
  <2>1. Alike(toPlain[x], toPlain'[x]) /\ Alike(toSecure[x], toSecure'[x])
    BY <1>1, GrowthIsAlike DEF CommandKept, SentPlain, SentSecure
  <2>2. SameStanding(x)
    BY <1>2 DEF SameStanding, CommandKept, ClientKept, LoginsKept
  <2>3. /\ x \in plain.ended => toPlain'[x] = toPlain[x]
        /\ x \in secure.ended => toSecure'[x] = toSecure[x]
    BY DEF CommandKept, SentPlain, SentSecure
  <2>4. QED
    BY <1>2, <2>1, <2>2, <2>3, SameIsAlike DEF Idle
<1>4. QED
  BY <1>3 DEF AllIdle

LEMMA HeardIsIdle ==
  ASSUME WellFormed, setting' = setting, NEW c \in Client, HeardKept(c), NEW codes, FromSecure(c, codes)
  PROVE  AllIdle
<1>1. toPlain \in Queues /\ toSecure \in Queues
  BY DEF WellFormed
<1>2. /\ UNCHANGED <<plain, secure, fromPlain>> /\ fromSecure[c] # <<>> /\ fromSecure[c] \in Seq(Mail)
      /\ fromSecure'[c] = Tail(fromSecure[c]) /\ \A x \in Client \ {c} : fromSecure'[x] = fromSecure[x]
      /\ c \in Running
  BY FromSecureSays
<1>3. Head(fromSecure[c]).code \notin Session
  BY DEF HeardKept
<1>4. ASSUME NEW x \in Client PROVE Idle(x)
  <2>1. Alike(toPlain[x], toPlain'[x]) /\ Alike(toSecure[x], toSecure'[x])
    BY <1>1, GrowthIsAlike DEF HeardKept, SentPlain, SentSecure
  <2>2. SameStanding(x)
    BY <1>2 DEF SameStanding, HeardKept, LoginsKept
  <2>3. /\ x \in plain.ended => toPlain'[x] = toPlain[x]
        /\ x \in secure.ended => toSecure'[x] = toSecure[x]
    BY DEF HeardKept, SentPlain, SentSecure
  <2>4. Alike(fromSecure[x], fromSecure'[x])
    BY <1>2, <1>3, PopIsAlike, SameIsAlike
  <2>5. x \notin Running => fromSecure'[x] = fromSecure[x]
    BY <1>2
  <2>6. fromPlain'[x] = fromPlain[x]
    BY <1>2
  <2>7. QED
    BY <2>1, <2>2, <2>3, <2>4, <2>5, <2>6, SameIsAlike DEF Idle
<1>5. QED
  BY <1>4 DEF AllIdle

LEMMA HeardPlainIsIdle ==
  ASSUME WellFormed, setting' = setting, NEW c \in Client, CommandKept, NEW codes, FromPlain(c, codes),
         Head(fromPlain[c]).code \notin Session
  PROVE  AllIdle
<1>1. toPlain \in Queues /\ toSecure \in Queues
  BY DEF WellFormed
<1>2. /\ UNCHANGED <<plain, secure, fromSecure>> /\ fromPlain[c] # <<>> /\ fromPlain[c] \in Seq(Mail)
      /\ fromPlain'[c] = Tail(fromPlain[c]) /\ \A x \in Client \ {c} : fromPlain'[x] = fromPlain[x]
      /\ c \in Running
  BY FromPlainSays
<1>3. ASSUME NEW x \in Client PROVE Idle(x)
  <2>1. Alike(toPlain[x], toPlain'[x]) /\ Alike(toSecure[x], toSecure'[x])
    BY <1>1, GrowthIsAlike DEF CommandKept, SentPlain, SentSecure
  <2>2. SameStanding(x)
    BY <1>2 DEF SameStanding, CommandKept, ClientKept, LoginsKept
  <2>3. /\ x \in plain.ended => toPlain'[x] = toPlain[x]
        /\ x \in secure.ended => toSecure'[x] = toSecure[x]
    BY DEF CommandKept, SentPlain, SentSecure
  <2>4. Alike(fromPlain[x], fromPlain'[x])
    BY <1>2, PopIsAlike, SameIsAlike
  <2>5. x \notin Running => fromPlain'[x] = fromPlain[x]
    BY <1>2
  <2>6. fromSecure'[x] = fromSecure[x]
    BY <1>2
  <2>7. QED
    BY <2>1, <2>2, <2>3, <2>4, <2>5, <2>6, SameIsAlike DEF Idle
<1>4. QED
  BY <1>3 DEF AllIdle

PlainRoomStep(c) ==
  PlainRejects(c) \/ PlainCreate(c) \/ PlainJoin(c) \/ PlainQuit(c) \/ PlainMessage(c) \/ PlainMp(c)

LEMMA PlainRoomIsIdle ==
  ASSUME WellFormed, setting' = setting, NEW c \in Client, PlainRoomStep(c)
  PROVE  AllIdle
<1>0. plain \in PlainState /\ fromPlain \in Queues /\ toPlain \in Queues
  BY DEF WellFormed
<1> DEFINE rooms == {"CREATE_ROOM", "JOIN_ROOM", "QUIT_ROOM", "DELETE_ROOM", "MESSAGE", "MP"}
<1>1. \E codes \in SUBSET rooms : PlainServes(c, codes)
  <2>1. /\ rooms \in SUBSET rooms /\ {"CREATE_ROOM"} \in SUBSET rooms /\ {"JOIN_ROOM"} \in SUBSET rooms
        /\ {"QUIT_ROOM", "DELETE_ROOM"} \in SUBSET rooms
        /\ {"MESSAGE"} \in SUBSET rooms /\ {"MP"} \in SUBSET rooms
    OBVIOUS
  <2>2. \/ PlainServes(c, rooms) \/ PlainServes(c, {"CREATE_ROOM"}) \/ PlainServes(c, {"JOIN_ROOM"})
        \/ PlainServes(c, {"QUIT_ROOM", "DELETE_ROOM"})
        \/ PlainServes(c, {"MESSAGE"}) \/ PlainServes(c, {"MP"})
    BY Zenon DEF PlainRoomStep, PlainRejects, PlainCreate, PlainJoin, PlainQuit, PlainMessage, PlainMp
  <2> HIDE DEF rooms
  <2>3. QED
    BY <2>1, <2>2
<1>2. /\ Head(toPlain[c]) \in Mail /\ Head(toPlain[c]).code \in rooms
      /\ toPlain[c] # <<>> /\ toPlain[c] \in Seq(Mail)
      /\ toPlain'[c] = Tail(toPlain[c]) /\ \A x \in Client \ {c} : toPlain'[x] = toPlain[x]
      /\ UNCHANGED <<secure, client, toSecure, fromSecure>>
  BY <1>1, PlainServesSays
<1>3. Head(toPlain[c]).code \notin Session
  BY <1>2 DEF Session
<1>4. plain'.users = plain.users /\ plain'.ended = plain.ended
  <2>1. ASSUME NEW r, NEW room, plain' = [plain EXCEPT !.rooms[r] = room]
        PROVE  plain'.users = plain.users /\ plain'.ended = plain.ended
    BY <1>0, <2>1 DEF PlainState
  <2>2. plain' = plain \/ \E r, room : plain' = [plain EXCEPT !.rooms[r] = room]
    BY Zenon DEF PlainRoomStep, PlainRejects, PlainCreate, PlainJoin, PlainQuit, PlainMessage, PlainMp,
                 PlainEnters, PlainRoomBecomes, PlainIgnores
  <2>3. QED
    BY <2>1, <2>2
<1>5. fromPlain' = fromPlain \/ \E users : \E m \in Mail : m.code \notin Session /\ PlainTells(users, m)
  <2>1. CASE PlainRejects(c) \/ PlainQuit(c)
    BY <2>1, Zenon DEF PlainRejects, PlainQuit, PlainRoomBecomes, PlainIgnores
  <2>2. CASE PlainCreate(c) \/ PlainJoin(c)
    <3>1. PlainServes(c, {"CREATE_ROOM"}) \/ PlainServes(c, {"JOIN_ROOM"})
      BY <2>2, Zenon DEF PlainCreate, PlainJoin
    <3>2. Head(toPlain[c]).code \in AboutRoom
      BY <3>1, PlainServesSays DEF AboutRoom
    <3>3. Head(toPlain[c]).name \in Room
      BY <1>2, <3>2, MailSays
    <3>4. /\ About("CREATE_ROOM", Head(toPlain[c]).name) \in Mail
          /\ About("CREATE_ROOM", Head(toPlain[c]).name).code \notin Session
          /\ About("CREATE_ROOM_KO", Head(toPlain[c]).name) \in Mail
          /\ About("CREATE_ROOM_KO", Head(toPlain[c]).name).code \notin Session
      BY <3>3, AboutIsMail DEF Code, AboutClient, Session
    <3>5. \/ fromPlain' = fromPlain
          \/ PlainTells({c}, About("CREATE_ROOM", Head(toPlain[c]).name))
          \/ PlainTells({c}, About("CREATE_ROOM_KO", Head(toPlain[c]).name))
      BY <2>2, Zenon DEF PlainCreate, PlainJoin, PlainEnters, PlainIgnores
    <3>6. QED
      BY <3>4, <3>5
  <2>3. CASE PlainMessage(c) \/ PlainMp(c)
    <3>1. \E users : PlainTells(users, Head(toPlain[c]))
      BY <2>3, Zenon DEF PlainMessage, PlainMp
    <3>2. QED
      BY <1>2, <1>3, <3>1
  <2>4. QED
    BY <2>1, <2>2, <2>3 DEF PlainRoomStep
<1>6. \A x \in Client : Alike(fromPlain[x], fromPlain'[x]) /\ (x \notin Running => fromPlain'[x] = fromPlain[x])
  <2>1. CASE fromPlain' = fromPlain
    BY <2>1, SameIsAlike
  <2>2. ASSUME NEW users, NEW m \in Mail, m.code \notin Session, PlainTells(users, m)
        PROVE  \A x \in Client : /\ Alike(fromPlain[x], fromPlain'[x])
                                 /\ x \notin Running => fromPlain'[x] = fromPlain[x]
    BY <1>0, <2>2, PutIsAlike, PutSays DEF PlainTells
  <2>3. QED
    BY <1>5, <2>1, <2>2
<1>7. ASSUME NEW x \in Client PROVE Idle(x)
  <2>1. SameStanding(x)
    BY <1>2, <1>4 DEF SameStanding
  <2>2. Alike(toPlain[x], toPlain'[x]) /\ (toPlain[x] = <<>> => toPlain'[x] = <<>>)
    BY <1>2, <1>3, PopIsAlike, SameIsAlike
  <2>3. toSecure'[x] = toSecure[x] /\ fromSecure'[x] = fromSecure[x]
    BY <1>2
  <2>4. QED
    BY <1>6, <2>1, <2>2, <2>3, SameIsAlike DEF Idle
<1>8. QED
  BY <1>7 DEF AllIdle

\* Whoever stopped is sent nothing.
LEMMA SentToRunning ==
  ASSUME NEW x \in Client, x \notin Running,
         \/ fromSecure' = fromSecure
         \/ \E users, m : fromSecure' = Put(fromSecure, users \cap Running, m)
         \/ \E users, m, others, n :
              fromSecure' = Put(Put(fromSecure, users \cap Running, m), others \cap Running, n)
  PROVE  fromSecure'[x] = fromSecure[x]
  BY DEF Put

SecureRoomStep(c) ==
  SecCreate(c) \/ SecJoin(c) \/ SecQuit(c) \/ SecDelete(c) \/ SecAccept(c) \/ SecEject(c) \/ SecMp(c)

LEMMA SecureRoomIsIdle ==
  ASSUME WellFormed, setting' = setting, NEW c \in Client, SecureRoomStep(c)
  PROVE  AllIdle
<1>0. secure \in SecureState /\ fromSecure \in Queues /\ toSecure \in Queues
  BY DEF WellFormed
<1> DEFINE codes == {"CREATE_ROOM_SEC", "JOIN_ROOM_SEC", "QUIT_ROOM_SEC", "DELETE_ROOM_SEC",
                     "ACCEPT_JOIN_ROOM_SEC", "EJECT_FROM_ROOM_SEC", "MP_SEC"}
<1>1. PICK code \in codes : SecureServes(c, code)
  BY Zenon DEF SecureRoomStep, SecCreate, SecJoin, SecQuit, SecDelete, SecAccept, SecEject, SecMp
<1>2. /\ toSecure[c] # <<>> /\ toSecure[c] \in Seq(Mail) /\ Head(toSecure[c]).code = code
      /\ toSecure'[c] = Tail(toSecure[c]) /\ \A x \in Client \ {c} : toSecure'[x] = toSecure[x]
      /\ UNCHANGED <<plain, client, toPlain, fromPlain>>
  BY <1>1, SecureServesSays
<1>3. code \notin Session
  BY DEF Session
<1>4. /\ secure'.users = secure.users /\ secure'.ended = secure.ended
      /\ secure'.accounts = secure.accounts /\ secure'.first_connection = secure.first_connection
  <2>1. \/ secure' = secure
        \/ \E r, room, crossed, m :
             secure' = [secure EXCEPT !.rooms[r] = room, !.crossed = crossed, !.telling[c] = m]
        \/ \E m, users : secure' = [secure EXCEPT !.telling[c] = m, !.todo[c] = users]
        \/ \E m : secure' = [secure EXCEPT !.dealing[c] = m]
    <3>1. SecureIgnores => secure' = secure
      BY DEF SecureIgnores
    <3>2. SecRemove(c) => \E m, users : secure' = [secure EXCEPT !.telling[c] = m, !.todo[c] = users]
      BY Zenon DEF SecRemove
    <3>4. SecMp(c) => secure' = secure \/ \E m : secure' = [secure EXCEPT !.dealing[c] = m]
      BY <3>1, Zenon DEF SecMp
    <3>5. SecJoin(c) => secure' = secure
      BY DEF SecJoin
    <3>6. SecCreate(c) \/ SecQuit(c) \/ SecDelete(c) \/ SecAccept(c) \/ SecEject(c) =>
            UNCHANGED secure \/ SecureIgnores \/ SecRemove(c) \/ \E room, x, k : SecBegins(c, room, x, k)
      BY Zenon DEF SecCreate, SecQuit, SecDelete, SecAccept, SecEject
    <3>7. CASE SecMp(c)
      BY <3>4, <3>7
    <3>8. CASE SecJoin(c)
      BY <3>5, <3>8
    <3>9. CASE SecCreate(c) \/ SecQuit(c) \/ SecDelete(c) \/ SecAccept(c) \/ SecEject(c)
      <4>1. CASE UNCHANGED secure \/ SecureIgnores
        BY <3>1, <4>1
      <4>2. CASE SecRemove(c)
        BY <3>2, <4>2
      <4>3. CASE \E room, x, k : SecBegins(c, room, x, k)
        <5>1. PICK room, x, k : SecBegins(c, room, x, k)
          BY <4>3
        <5>2. secure' = [secure EXCEPT !.rooms[Asked(c)] = room, !.crossed = Crossing(x, Asked(c)),
                           !.telling[c] = Msg(Head(toSecure[c]).code, Asked(c), x, k)]
          BY <5>1, Zenon DEF SecBegins
        <5>3. QED
          BY <5>2
      <4>4. QED
        BY <3>6, <3>9, <4>1, <4>2, <4>3
    <3>10. QED
      BY <3>7, <3>8, <3>9, Zenon DEF SecureRoomStep
  <2>2. QED
    BY <1>0, <2>1 DEF SecureState
<1>5. ASSUME NEW x \in Client, x \notin Running PROVE fromSecure'[x] = fromSecure[x]
  <2>1. \/ fromSecure' = fromSecure
        \/ \E users, m : fromSecure' = Put(fromSecure, users \cap Running, m)
    BY Zenon DEF SecureRoomStep, SecCreate, SecJoin, SecQuit, SecDelete, SecAccept, SecEject, SecMp,
                 SecRemove, SecureIgnores, SecBegins, SecureTells
  <2>2. QED
    BY <1>5, <2>1, SentToRunning
<1>6. ASSUME NEW x \in Client PROVE Alike(fromSecure[x], fromSecure'[x])
  <2>1. CASE SecMp(c)
    <3>1. \/ fromSecure' = fromSecure
          \/ \E d \in Client, k \in Key :
               /\ Msg("MP_SEC_OK", d, NULL, k) \in Mail
               /\ fromSecure' = Put(fromSecure, {c} \cap Running, Msg("MP_SEC_OK", d, NULL, k))
      BY <2>1, SecureMpTyped
    <3>2. \A d, k : Msg("MP_SEC_OK", d, NULL, k).code \notin Session
      BY DEF Msg, Session
    <3>3. QED
      BY <1>0, <3>1, <3>2, PutIsAlike, SameIsAlike
  <2>2. CASE ~ SecMp(c)
    <3>1. SecureTyped(Talk)
      BY <2>2, SecureRoomsTyped, SecureDecisionsTyped DEF SecureRoomStep
    <3>2. fromSecure' \in Queues /\ Grows(fromSecure, fromSecure', Session)
      BY <3>1 DEF SecureTyped, Grows, Talk
    <3>3. QED
      BY <1>0, <3>2, GrowthIsAlike
  <2>3. QED
    BY <2>1, <2>2
<1> HIDE DEF codes
<1>7. ASSUME NEW x \in Client PROVE Idle(x)
  <2>1. SameStanding(x)
    BY <1>2, <1>4 DEF SameStanding
  <2>2. Alike(toSecure[x], toSecure'[x]) /\ (toSecure[x] = <<>> => toSecure'[x] = <<>>)
    BY <1>2, <1>3, PopIsAlike, SameIsAlike
  <2>3. toPlain'[x] = toPlain[x] /\ fromPlain'[x] = fromPlain[x]
    BY <1>2
  <2>4. x \notin Running => fromSecure'[x] = fromSecure[x]
    BY <1>5
  <2>5. Alike(fromSecure[x], fromSecure'[x])
    BY <1>6
  <2>6. QED
    BY <2>1, <2>2, <2>3, <2>4, <2>5, SameIsAlike DEF Idle
<1>8. QED
  BY <1>7 DEF AllIdle

SecureTellStep(c) == SecTellFirst(c) \/ SecTellNext(c) \/ SecTold(c)

LEMMA SecureTellIsIdle ==
  ASSUME WellFormed, setting' = setting, NEW c \in Client, SecureTellStep(c)
  PROVE  AllIdle
<1>0. secure \in SecureState /\ fromSecure \in Queues
  BY DEF WellFormed
<1>1. SecureTyped(Talk) /\ UNCHANGED <<plain, client, toPlain, toSecure, fromPlain>>
  BY SecureTellingTyped DEF SecureTellStep
<1>2. /\ secure'.users = secure.users /\ secure'.ended = secure.ended
      /\ secure'.accounts = secure.accounts /\ secure'.first_connection = secure.first_connection
  <2>1. \/ \E m, users : secure' = [secure EXCEPT !.telling[c] = m, !.todo[c] = users]
        \/ \E m, d : secure' = [secure EXCEPT !.todo[c] = @ \ {d}, !.telling[c] = m]
        \/ \E m, r, room : secure' = [secure EXCEPT !.telling[c] = m, !.rooms[r] = room]
        \/ \E m : secure' = [secure EXCEPT !.telling[c] = m]
    <3>1. CASE SecTellFirst(c)
      <4>1. secure.telling[c].code \in {"CREATE_ROOM_SEC", "ACCEPT_JOIN_ROOM_SEC", "EJECT_FROM_ROOM_SEC", "QUIT_ROOM_SEC"}
        BY <3>1, Zenon DEF SecTellFirst, SecTells
      <4>2. QED
        BY <3>1, <4>1 DEF SecTellFirst
    <3>2. CASE SecTellNext(c)
      BY <3>2, Zenon DEF SecTellNext
    <3>3. CASE SecTold(c)
      BY <3>3, Zenon DEF SecTold
    <3>4. QED
      BY <3>1, <3>2, <3>3 DEF SecureTellStep
  <2>2. QED
    BY <1>0, <2>1 DEF SecureState
<1>3. ASSUME NEW x \in Client, x \notin Running PROVE fromSecure'[x] = fromSecure[x]
  <2>1. \/ fromSecure' = fromSecure
        \/ \E users, m : fromSecure' = Put(fromSecure, users \cap Running, m)
    BY Zenon DEF SecureTellStep, SecTellFirst, SecTellNext, SecTold, SecureTells
  <2>2. QED
    BY <1>3, <2>1, SentToRunning
<1>4. fromSecure' \in Queues /\ Grows(fromSecure, fromSecure', Session)
  BY <1>1 DEF SecureTyped, Grows, Talk
<1>5. ASSUME NEW x \in Client PROVE Idle(x)
  <2>1. SameStanding(x)
    BY <1>1, <1>2 DEF SameStanding
  <2>2. Alike(fromSecure[x], fromSecure'[x])
    BY <1>0, <1>4, GrowthIsAlike
  <2>3. x \notin Running => fromSecure'[x] = fromSecure[x]
    BY <1>3
  <2>4. toPlain'[x] = toPlain[x] /\ fromPlain'[x] = fromPlain[x] /\ toSecure'[x] = toSecure[x]
    BY <1>1
  <2>5. QED
    BY <2>1, <2>2, <2>3, <2>4, SameIsAlike DEF Idle
<1>6. QED
  BY <1>5 DEF AllIdle

LEMMA SecureDealIsIdle ==
  ASSUME WellFormed, KeysComeFirst, setting' = setting, NEW c \in Client, SecMpDeal(c)
  PROVE  AllIdle
<1>0. secure \in SecureState /\ fromSecure \in Queues
  BY DEF WellFormed
<1>1. UNCHANGED <<plain, client, toPlain, toSecure, fromPlain>> /\ secure' = [secure EXCEPT !.dealing[c] = NotDealing]
  BY Zenon DEF SecMpDeal
<1>2. /\ secure'.users = secure.users /\ secure'.ended = secure.ended
      /\ secure'.accounts = secure.accounts /\ secure'.first_connection = secure.first_connection
  BY <1>0, <1>1 DEF SecureState
<1>3. PICK d \in Client, k \in Key :
        /\ Msg("MP_SEC_OK", c, NULL, k) \in Mail /\ About("MP_SEC", d) \in Mail
        /\ fromSecure' = Put(Put(fromSecure, {d} \cap Running, Msg("MP_SEC_OK", c, NULL, k)),
                             {c} \cap Running, About("MP_SEC", d))
  BY SecureMpDealTyped
<1>4. Msg("MP_SEC_OK", c, NULL, k).code \notin Session /\ About("MP_SEC", d).code \notin Session
  BY DEF Msg, About, Session
<1>5. fromSecure' \in Queues /\ Grows(fromSecure, fromSecure', Session)
  <2>1. Grows(fromSecure, fromSecure, Session)
    BY <1>0, GrowsFromItself
  <2>2. SUFFICES ASSUME NEW s, s = Put(fromSecure, {d} \cap Running, Msg("MP_SEC_OK", c, NULL, k))
                 PROVE  Put(s, {c} \cap Running, About("MP_SEC", d)) \in Queues
                        /\ Grows(fromSecure, Put(s, {c} \cap Running, About("MP_SEC", d)), Session)
    BY <1>3
  <2>3. s \in Queues /\ Grows(fromSecure, s, Session)
    BY <1>0, <1>3, <1>4, <2>1, <2>2, PutGrows
  <2>4. QED
    BY <1>0, <1>3, <1>4, <2>3, PutGrows
<1>6. ASSUME NEW x \in Client PROVE Idle(x)
  <2>1. SameStanding(x)
    BY <1>1, <1>2 DEF SameStanding
  <2>2. Alike(fromSecure[x], fromSecure'[x])
    BY <1>0, <1>5, GrowthIsAlike
  <2>3. x \notin Running => fromSecure'[x] = fromSecure[x]
    BY <1>3, SentToRunning
  <2>4. toPlain'[x] = toPlain[x] /\ fromPlain'[x] = fromPlain[x] /\ toSecure'[x] = toSecure[x]
    BY <1>1
  <2>5. QED
    BY <2>1, <2>2, <2>3, <2>4, SameIsAlike DEF Idle
<1>7. QED
  BY <1>6 DEF AllIdle

----------------------------------------------------------------------------
(***************************************************************************)
(* Steps of a client's logging in or out: the others do not notice, and    *)
(* each keeps the invariant of that client.                                *)
(***************************************************************************)
Elsewhere(c) ==
  \A x \in Client \ {c} :
    /\ SameStanding(x)
    /\ toPlain'[x] = toPlain[x] /\ toSecure'[x] = toSecure[x]
    /\ fromPlain'[x] = fromPlain[x] /\ fromSecure'[x] = fromSecure[x]

\* What a session step of one client has to show.
SessionStep(c) == Elsewhere(c) /\ LoginInv(c)'

LEMMA ElsewhereIsIdle ==
  ASSUME NEW c \in Client, setting' = setting, Elsewhere(c), NEW x \in Client \ {c}
  PROVE  Idle(x)
  BY SameIsAlike DEF Elsewhere, Idle

\* Whom a session message is about has asked to log in.
LEMMA KnownWhenTalking ==
  ASSUME NEW c \in Client, LoginInv(c), NEW code \in Session,
         \/ Has(toPlain[c], code) \/ Has(toSecure[c], code)
         \/ Has(fromPlain[c], code) \/ Has(fromSecure[c], code)
  PROVE  client[c].login
  BY DEF LoginInv, Unknown

LEMMA SecGrantLogin ==
  ASSUME WellFormed, NEW c \in Client, LoginInv(c), setting' = setting, SecConnect(c), c \notin setting.refused
  PROVE  SessionStep(c)
<1>0. secure \in SecureState /\ fromSecure \in Queues
  BY DEF WellFormed
<1>1. /\ SecureServes(c, "CONNECT_SEC") /\ SecureTells({c}, Signal("CONNECT_SEC"))
      /\ secure' = [secure EXCEPT !.users = @ \cup {c}, !.accounts = @ \cup {c},
           !.first_connection = IF c \in secure.accounts THEN @ ELSE @ \cup {c}]
  BY Zenon DEF SecConnect
<1>2. /\ toSecure[c] # <<>> /\ toSecure[c] \in Seq(Mail) /\ Head(toSecure[c]).code = "CONNECT_SEC"
      /\ toSecure'[c] = Tail(toSecure[c]) /\ \A x \in Client \ {c} : toSecure'[x] = toSecure[x]
      /\ UNCHANGED <<plain, client, toPlain, fromPlain>>
  BY <1>1, SecureServesSays
<1>3. Signal("CONNECT_SEC") \in Mail /\ Signal("CONNECT_SEC").code = "CONNECT_SEC"
  BY SignalIsMail DEF Session
<1>4. \A x \in Client : fromSecure'[x] = IF x \in {c} \cap Running THEN Append(fromSecure[x], Signal("CONNECT_SEC"))
                                                                 ELSE fromSecure[x]
  BY <1>1, <1>3, SecureTellsSays
<1>5. /\ secure'.users = secure.users \cup {c} /\ secure'.accounts = secure.accounts \cup {c}
      /\ secure'.first_connection = IF c \in secure.accounts THEN secure.first_connection
                                                             ELSE secure.first_connection \cup {c}
      /\ secure'.ended = secure.ended
  BY <1>0, <1>1 DEF SecureState
<1>6. Elsewhere(c)
  BY <1>2, <1>4, <1>5 DEF Elsewhere, SameStanding
<1>7. \A code : Has(toSecure[c], code) <=> Has(toSecure'[c], code) \/ code = "CONNECT_SEC"
  BY <1>2, TailSays
<1>8. \A code : Has(fromSecure'[c], code) <=>
                  Has(fromSecure[c], code) \/ (c \in Running /\ code = "CONNECT_SEC")
  <2>1. fromSecure[c] \in Seq(Mail)
    BY <1>0, QueueSays
  <2>2. QED
    BY <1>3, <1>4, <2>1, AppendSays
<1>9. client[c].login
  BY <1>7, KnownWhenTalking, SessionSays
<1>10. /\ ~ Has(toSecure'[c], "CONNECT_SEC") /\ Single(toSecure'[c], "CONNECT_SEC")
       /\ Ahead(toSecure[c], "CONNECT_SEC", "EOF") => Ahead(toSecure'[c], "CONNECT_SEC", "EOF")
       /\ Ahead(toSecure'[c], "DISCONNECT_SEC", "EOF") /\ Leads(toSecure'[c], "DEL_ACCOUNT_SEC", "DISCONNECT_SEC")
  BY <1>2, SingleStays, AheadStays, LeadsStays DEF LoginInv, Once, Ends, Accounted
<1>11. Single(fromSecure'[c], "CONNECT_SEC")
  <2>1. fromSecure[c] \in Seq(Mail) /\ Single(fromSecure[c], "CONNECT_SEC") /\ ~ Has(fromSecure[c], "CONNECT_SEC")
    BY <1>0, <1>7, QueueSays DEF LoginInv, Once
  <2>2. QED
    BY <1>3, <1>4, <2>1, SingleStays
<1>12. Unknown(c)'
  BY <1>2, <1>9 DEF Unknown
<1>13. Ends(c)'
  BY <1>2, <1>4, <1>5, <1>7, <1>8, <1>10 DEF LoginInv, Ends, Running
<1>14. GoesOn(c)'
  BY <1>2, <1>5, <1>8 DEF LoginInv, GoesOn, Running
<1>15. Accounted(c)'
  BY <1>2, <1>5, <1>7, <1>10 DEF LoginInv, Accounted
<1>16. Once(c)'
  BY <1>2, <1>7, <1>8, <1>10, <1>11 DEF LoginInv, Once
<1>17. Remains(c)'
  BY <1>2, <1>5, <1>7, <1>8, <1>10 DEF LoginInv, Remains, Stays
<1>18. QED
  BY <1>6, <1>12, <1>13, <1>14, <1>15, <1>16, <1>17 DEF SessionStep, LoginInv

\* The secure server refuses: nothing changes but that it is told.
LEMMA SecRefuseLogin ==
  ASSUME WellFormed, NEW c \in Client, LoginInv(c), setting' = setting, SecConnect(c), c \in setting.refused
  PROVE  SessionStep(c)
<1>0. fromSecure \in Queues
  BY DEF WellFormed
<1>1. SecureServes(c, "CONNECT_SEC") /\ SecureTells({c}, Signal("CONNECT_SEC_KO")) /\ secure' = secure
  BY Zenon DEF SecConnect
<1>2. /\ toSecure[c] # <<>> /\ toSecure[c] \in Seq(Mail) /\ Head(toSecure[c]).code = "CONNECT_SEC"
      /\ toSecure'[c] = Tail(toSecure[c]) /\ \A x \in Client \ {c} : toSecure'[x] = toSecure[x]
      /\ UNCHANGED <<plain, client, toPlain, fromPlain>>
  BY <1>1, SecureServesSays
<1>3. Signal("CONNECT_SEC_KO") \in Mail /\ Signal("CONNECT_SEC_KO").code = "CONNECT_SEC_KO"
  BY SignalIsMail DEF Signal, About, Msg
<1>4. \A x \in Client : fromSecure'[x] = IF x \in {c} \cap Running
                                         THEN Append(fromSecure[x], Signal("CONNECT_SEC_KO")) ELSE fromSecure[x]
  BY <1>1, <1>3, SecureTellsSays
<1>5. Elsewhere(c)
  BY <1>1, <1>2, <1>4 DEF Elsewhere, SameStanding
<1>6. \A code : Has(toSecure[c], code) <=> Has(toSecure'[c], code) \/ code = "CONNECT_SEC"
  BY <1>2, TailSays
<1>7. fromSecure[c] \in Seq(Mail)
  BY <1>0, QueueSays
<1>8. \A code : code # "CONNECT_SEC_KO" => (Has(fromSecure'[c], code) <=> Has(fromSecure[c], code))
  BY <1>3, <1>4, <1>7, AppendSays
<1>9. client[c].login
  BY <1>6, KnownWhenTalking, SessionSays
<1>10. /\ Single(toSecure'[c], "CONNECT_SEC") /\ ~ Has(toSecure'[c], "CONNECT_SEC")
       /\ Ahead(toSecure'[c], "DISCONNECT_SEC", "EOF") /\ Leads(toSecure'[c], "DEL_ACCOUNT_SEC", "DISCONNECT_SEC")
  BY <1>2, SingleStays, AheadStays, LeadsStays DEF LoginInv, Once, Ends, Accounted
<1>11. Single(fromSecure'[c], "CONNECT_SEC")
  BY <1>3, <1>4, <1>7, SingleStays DEF LoginInv, Once
<1>12. Unknown(c)'
  BY <1>2, <1>9 DEF Unknown
<1>13. Ends(c)'
  BY <1>1, <1>2, <1>4, <1>6, <1>8, <1>10 DEF LoginInv, Ends, Running
<1>14. GoesOn(c)'
  BY <1>1, <1>2, <1>6, <1>8 DEF LoginInv, GoesOn, Accounted, Running
<1>15. Accounted(c)'
  BY <1>1, <1>2, <1>6, <1>8, <1>10 DEF LoginInv, Accounted
<1>16. Once(c)'
  BY <1>1, <1>2, <1>6, <1>8, <1>10, <1>11 DEF LoginInv, Once
<1>17. Remains(c)'
  BY DEF Remains, Stays
<1>18. QED
  BY <1>5, <1>12, <1>13, <1>14, <1>15, <1>16, <1>17 DEF SessionStep, LoginInv

LEMMA SecConnectLogin ==
  ASSUME WellFormed, NEW c \in Client, LoginInv(c), setting' = setting, SecConnect(c)
  PROVE  SessionStep(c)
  BY SecGrantLogin, SecRefuseLogin

LEMMA SecConfirmLogin ==
  ASSUME WellFormed, NEW c \in Client, LoginInv(c), setting' = setting, SecConfirm(c)
  PROVE  SessionStep(c)
<1>0. secure \in SecureState /\ fromSecure \in Queues
  BY DEF WellFormed
<1>1. /\ SecureServes(c, "CONNECT_OK") /\ SecureTells({c}, Signal("CONNECT_SEC_OK"))
      /\ secure' = [secure EXCEPT !.first_connection = @ \ {c}]
  BY Zenon DEF SecConfirm
<1>2. /\ toSecure[c] # <<>> /\ toSecure[c] \in Seq(Mail) /\ Head(toSecure[c]).code = "CONNECT_OK"
      /\ toSecure'[c] = Tail(toSecure[c]) /\ \A x \in Client \ {c} : toSecure'[x] = toSecure[x]
      /\ UNCHANGED <<plain, client, toPlain, fromPlain>>
  BY <1>1, SecureServesSays
<1>3. Signal("CONNECT_SEC_OK") \in Mail /\ Signal("CONNECT_SEC_OK").code = "CONNECT_SEC_OK"
  BY SignalIsMail DEF Signal, About, Msg
<1>4. \A x \in Client : fromSecure'[x] = IF x \in {c} \cap Running
                                         THEN Append(fromSecure[x], Signal("CONNECT_SEC_OK")) ELSE fromSecure[x]
  BY <1>1, <1>3, SecureTellsSays
<1>5. /\ secure'.users = secure.users /\ secure'.accounts = secure.accounts
      /\ secure'.first_connection = secure.first_connection \ {c} /\ secure'.ended = secure.ended
  BY <1>0, <1>1 DEF SecureState
<1>6. Elsewhere(c)
  BY <1>2, <1>4, <1>5 DEF Elsewhere, SameStanding
<1>7. \A code : Has(toSecure[c], code) <=> Has(toSecure'[c], code) \/ code = "CONNECT_OK"
  BY <1>2, TailSays
<1>8. fromSecure[c] \in Seq(Mail)
  BY <1>0, QueueSays
<1>9. \A code : code # "CONNECT_SEC_OK" => (Has(fromSecure'[c], code) <=> Has(fromSecure[c], code))
  BY <1>3, <1>4, <1>8, AppendSays
<1>10. client[c].login /\ c \notin setting.taken
  <2>1. Has(toSecure[c], "CONNECT_OK")
    BY <1>7
  <2>2. client[c].login
    BY <2>1, KnownWhenTalking, SessionSays
  <2>3. QED
    BY <2>1, <2>2 DEF LoginInv, Accounted
<1>11. /\ Single(toSecure'[c], "CONNECT_SEC")
       /\ Ahead(toSecure[c], "CONNECT_SEC", "EOF") => Ahead(toSecure'[c], "CONNECT_SEC", "EOF")
       /\ Ahead(toSecure'[c], "DISCONNECT_SEC", "EOF") /\ Leads(toSecure'[c], "DEL_ACCOUNT_SEC", "DISCONNECT_SEC")
  BY <1>2, SingleStays, AheadStays, LeadsStays DEF LoginInv, Once, Ends, Accounted
<1>12. Single(fromSecure'[c], "CONNECT_SEC")
  BY <1>3, <1>4, <1>8, SingleStays DEF LoginInv, Once
<1>13. Unknown(c)'
  BY <1>2, <1>10 DEF Unknown
<1>14. Ends(c)'
  BY <1>2, <1>4, <1>5, <1>7, <1>9, <1>11 DEF LoginInv, Ends, Running
<1>15. GoesOn(c)'
  BY <1>2, <1>5, <1>7, <1>9 DEF LoginInv, GoesOn, Running
<1>16. Accounted(c)'
  BY <1>2, <1>5, <1>7, <1>9, <1>10, <1>11 DEF LoginInv, Accounted
<1>17. Once(c)'
  BY <1>2, <1>7, <1>9, <1>11, <1>12 DEF LoginInv, Once
<1>18. Remains(c)'
  BY <1>2, <1>5, <1>7, <1>9, <1>11 DEF LoginInv, Remains, Stays
<1>19. QED
  BY <1>6, <1>13, <1>14, <1>15, <1>16, <1>17, <1>18 DEF SessionStep, LoginInv

LEMMA SecDelAccountLogin ==
  ASSUME WellFormed, NEW c \in Client, LoginInv(c), setting' = setting, SecDelAccount(c)
  PROVE  SessionStep(c)
<1>0. secure \in SecureState /\ fromSecure \in Queues
  BY DEF WellFormed
<1>1. /\ SecureServes(c, "DEL_ACCOUNT_SEC") /\ SecureTells({c}, Signal("DEL_ACCOUNT_SEC"))
      /\ secure' = [secure EXCEPT !.accounts = @ \ {c}]
  BY Zenon DEF SecDelAccount
<1>2. /\ toSecure[c] # <<>> /\ toSecure[c] \in Seq(Mail) /\ Head(toSecure[c]).code = "DEL_ACCOUNT_SEC"
      /\ toSecure'[c] = Tail(toSecure[c]) /\ \A x \in Client \ {c} : toSecure'[x] = toSecure[x]
      /\ UNCHANGED <<plain, client, toPlain, fromPlain>>
  BY <1>1, SecureServesSays
<1>3. Signal("DEL_ACCOUNT_SEC") \in Mail /\ Signal("DEL_ACCOUNT_SEC").code = "DEL_ACCOUNT_SEC"
  BY SignalIsMail DEF Session
<1>4. \A x \in Client : fromSecure'[x] = IF x \in {c} \cap Running
                                         THEN Append(fromSecure[x], Signal("DEL_ACCOUNT_SEC")) ELSE fromSecure[x]
  BY <1>1, <1>3, SecureTellsSays
<1>5. /\ secure'.users = secure.users /\ secure'.accounts = secure.accounts \ {c}
      /\ secure'.first_connection = secure.first_connection /\ secure'.ended = secure.ended
  BY <1>0, <1>1 DEF SecureState
<1>6. Elsewhere(c)
  BY <1>2, <1>4, <1>5 DEF Elsewhere, SameStanding
<1>7. \A code : Has(toSecure[c], code) <=> Has(toSecure'[c], code) \/ code = "DEL_ACCOUNT_SEC"
  BY <1>2, TailSays
<1>8. fromSecure[c] \in Seq(Mail)
  BY <1>0, QueueSays
<1>9. \A code : code # "DEL_ACCOUNT_SEC" => (Has(fromSecure'[c], code) <=> Has(fromSecure[c], code))
  BY <1>3, <1>4, <1>8, AppendSays
<1>10. client[c].login /\ ~ (Stays(c) /\ client[c].status # "exited")
  <2>1. Has(toSecure[c], "DEL_ACCOUNT_SEC")
    BY <1>7
  <2>2. client[c].login
    BY <2>1, KnownWhenTalking, SessionSays
  <2>3. QED
    BY <2>1, <2>2 DEF LoginInv, Remains
<1>11. /\ Single(toSecure'[c], "CONNECT_SEC") /\ Has(toSecure'[c], "DISCONNECT_SEC")
       /\ Ahead(toSecure'[c], "DISCONNECT_SEC", "EOF") /\ Leads(toSecure'[c], "DEL_ACCOUNT_SEC", "DISCONNECT_SEC")
  BY <1>2, SingleStays, AheadStays, LeadsStays DEF LoginInv, Once, Ends, Accounted
<1>12. Single(fromSecure'[c], "CONNECT_SEC")
  BY <1>3, <1>4, <1>8, SingleStays DEF LoginInv, Once
<1>13. Unknown(c)'
  BY <1>2, <1>10 DEF Unknown
<1>14. Ends(c)'
  BY <1>2, <1>4, <1>5, <1>7, <1>9, <1>11 DEF LoginInv, Ends, Running
<1>15. GoesOn(c)'
  BY <1>2, <1>5, <1>7, <1>9 DEF LoginInv, GoesOn, Running
<1>16. Accounted(c)'
  BY <1>2, <1>5, <1>7, <1>9, <1>11 DEF LoginInv, Accounted
<1>17. Once(c)'
  BY <1>2, <1>7, <1>9, <1>11, <1>12 DEF LoginInv, Once
<1>18. Remains(c)'
  BY <1>2, <1>10 DEF Remains, Stays
<1>19. QED
  BY <1>6, <1>13, <1>14, <1>15, <1>16, <1>17, <1>18 DEF SessionStep, LoginInv

LEMMA SecureEndsSays ==
  ASSUME WellFormed, NEW c \in Client, NEW code, SecureEnds(c, code)
  PROVE  /\ toSecure[c] # <<>> /\ toSecure[c] \in Seq(Mail) /\ Head(toSecure[c]).code = code
         /\ Has(toSecure[c], code) /\ toSecure'[c] = <<>> /\ toSecure' \in Queues
         /\ \A x \in Client \ {c} : toSecure'[x] = toSecure[x]
         /\ UNCHANGED <<plain, client, toPlain, fromPlain>>
<1>1. /\ toSecure[c] # <<>> /\ Head(toSecure[c]).code = code
      /\ toSecure' = [toSecure EXCEPT ![c] = <<>>]
      /\ UNCHANGED <<plain, client, toPlain, fromPlain>>
  BY Zenon DEF SecureEnds
<1>2. toSecure \in Queues /\ toSecure[c] \in Seq(Mail)
  BY QueueSays DEF WellFormed
<1>3. Has(toSecure[c], code)
  BY <1>1, <1>2, TailSays
<1>4. /\ toSecure'[c] = <<>> /\ toSecure' \in Queues
      /\ \A x \in Client \ {c} : toSecure'[x] = toSecure[x]
  <2> DEFINE cut == [toSecure EXCEPT ![c] = <<>>]
  <2>1. cut \in Queues /\ cut[c] = <<>> /\ \A x \in Client \ {c} : cut[x] = toSecure[x]
    BY <1>2, CutSays
  <2>2. toSecure' = cut
    BY <1>1
  <2> HIDE DEF cut
  <2>3. QED
    BY <2>1, <2>2
<1>5. QED
  BY <1>1, <1>2, <1>3, <1>4

LEMMA SecLeaveLogin ==
  ASSUME WellFormed, NEW c \in Client, LoginInv(c), setting' = setting, SecLeave(c)
  PROVE  SessionStep(c)
<1>0. secure \in SecureState /\ fromSecure \in Queues
  BY DEF WellFormed
<1> DEFINE rooms == [r \in Room |-> IF c \in secure.rooms[r].members THEN Closed ELSE secure.rooms[r]]
<1>1. /\ SecureEnds(c, "DISCONNECT_SEC") /\ SecureTells({c}, Signal("DISCONNECT_SEC"))
      /\ secure' = [secure EXCEPT !.users = @ \ {c}, !.ended = @ \cup {c},
           !.accounts = IF c \in secure.first_connection THEN @ \ {c} ELSE @, !.rooms = rooms]
  BY DEF SecLeave
<1> HIDE DEF rooms
<1>2. /\ toSecure[c] # <<>> /\ Has(toSecure[c], "DISCONNECT_SEC") /\ toSecure'[c] = <<>>
      /\ \A x \in Client \ {c} : toSecure'[x] = toSecure[x]
      /\ UNCHANGED <<plain, client, toPlain, fromPlain>>
  BY <1>1, SecureEndsSays
<1>3. Signal("DISCONNECT_SEC") \in Mail /\ Signal("DISCONNECT_SEC").code = "DISCONNECT_SEC"
  BY SignalIsMail DEF Session
<1>4. \A x \in Client : fromSecure'[x] = IF x \in {c} \cap Running
                                         THEN Append(fromSecure[x], Signal("DISCONNECT_SEC")) ELSE fromSecure[x]
  BY <1>1, <1>3, SecureTellsSays
<1>5. /\ secure'.users = secure.users \ {c} /\ secure'.ended = secure.ended \cup {c}
      /\ secure'.accounts = IF c \in secure.first_connection THEN secure.accounts \ {c} ELSE secure.accounts
      /\ secure'.first_connection = secure.first_connection
  BY <1>0, <1>1 DEF SecureState
<1>6. Elsewhere(c)
  BY <1>2, <1>4, <1>5 DEF Elsewhere, SameStanding
<1>7. \A code : ~ Has(toSecure'[c], code) /\ Single(toSecure'[c], code)
  BY <1>2, EmptySays
<1>8. fromSecure[c] \in Seq(Mail)
  BY <1>0, QueueSays
<1>9. \A code : Has(fromSecure'[c], code) <=>
                  Has(fromSecure[c], code) \/ (c \in Running /\ code = "DISCONNECT_SEC")
  BY <1>3, <1>4, <1>8, AppendSays
<1>10. client[c].login /\ ~ (Stays(c) /\ client[c].status # "exited")
  <2>1. client[c].login
    BY <1>2, KnownWhenTalking, SessionSays
  <2>2. QED
    BY <1>2, <2>1 DEF LoginInv, Remains
<1>11. Ahead(toSecure'[c], "DISCONNECT_SEC", "EOF") /\ Leads(toSecure'[c], "DEL_ACCOUNT_SEC", "DISCONNECT_SEC")
  BY <1>2, EmptySays
<1>12. Single(fromSecure'[c], "CONNECT_SEC")
  BY <1>3, <1>4, <1>8, SingleStays DEF LoginInv, Once
<1>13. Unknown(c)'
  BY <1>2, <1>10 DEF Unknown
<1>14. Ends(c)'
  BY <1>2, <1>4, <1>5, <1>7, <1>9, <1>11 DEF LoginInv, Ends, Running
<1>15. GoesOn(c)'
  BY <1>2, <1>5 DEF LoginInv, GoesOn, Running
<1>16. Accounted(c)'
  BY <1>2, <1>5, <1>7, <1>9, <1>11 DEF LoginInv, Accounted
<1>17. Once(c)'
  BY <1>2, <1>7, <1>9, <1>12 DEF LoginInv, Once
<1>18. Remains(c)'
  BY <1>2, <1>10 DEF Remains, Stays
<1>19. QED
  BY <1>6, <1>13, <1>14, <1>15, <1>16, <1>17, <1>18 DEF SessionStep, LoginInv

LEMMA SecStoppedLogin ==
  ASSUME WellFormed, NEW c \in Client, LoginInv(c), setting' = setting, SecStopped(c)
  PROVE  SessionStep(c)
<1>0. secure \in SecureState
  BY DEF WellFormed
<1>1. SecureEnds(c, "EOF") /\ secure' = [secure EXCEPT !.ended = @ \cup {c}] /\ fromSecure' = fromSecure
  BY Zenon DEF SecStopped
<1>2. /\ toSecure[c] # <<>> /\ toSecure[c] \in Seq(Mail) /\ Head(toSecure[c]).code = "EOF"
      /\ Has(toSecure[c], "EOF") /\ toSecure'[c] = <<>>
      /\ \A x \in Client \ {c} : toSecure'[x] = toSecure[x]
      /\ UNCHANGED <<plain, client, toPlain, fromPlain>>
  BY <1>1, SecureEndsSays
<1>3. /\ secure'.users = secure.users /\ secure'.ended = secure.ended \cup {c}
      /\ secure'.accounts = secure.accounts /\ secure'.first_connection = secure.first_connection
  BY <1>0, <1>1 DEF SecureState
<1>4. Elsewhere(c)
  BY <1>1, <1>2, <1>3 DEF Elsewhere, SameStanding
<1>5. \A code : ~ Has(toSecure'[c], code) /\ Single(toSecure'[c], code)
  BY <1>2, EmptySays
<1>6. Ahead(toSecure'[c], "DISCONNECT_SEC", "EOF") /\ Leads(toSecure'[c], "DEL_ACCOUNT_SEC", "DISCONNECT_SEC")
      /\ Ahead(toSecure'[c], "CONNECT_SEC", "EOF")
  BY <1>2, EmptySays
<1>7. client[c].login /\ c \notin Running
  <2>1. client[c].login
    BY <1>2, KnownWhenTalking, SessionSays
  <2>2. QED
    BY <1>2, <2>1 DEF LoginInv, Ends
<1>8. ~ Has(toSecure[c], "DISCONNECT_SEC")
  BY <1>2, AheadStays DEF LoginInv, Ends
<1>9. Ahead(toSecure[c], "CONNECT_SEC", "EOF") => ~ Has(toSecure[c], "CONNECT_SEC")
  BY <1>2, AheadStays
<1>10. Unknown(c)'
  BY <1>2, <1>7 DEF Unknown
<1>11. Ends(c)'
  BY <1>1, <1>2, <1>3, <1>5, <1>6, <1>7, <1>8 DEF LoginInv, Ends, Running
<1>12. GoesOn(c)'
  BY <1>2, <1>7 DEF GoesOn, Running
<1>13. Accounted(c)'
  BY <1>1, <1>2, <1>3, <1>5, <1>6, <1>8 DEF LoginInv, Accounted
<1>14. Once(c)'
  BY <1>1, <1>2, <1>5 DEF LoginInv, Once
<1>15. Remains(c)'
  BY <1>1, <1>2, <1>3, <1>5, <1>6, <1>9 DEF LoginInv, Remains, Stays
<1>16. QED
  BY <1>4, <1>10, <1>11, <1>12, <1>13, <1>14, <1>15 DEF SessionStep, LoginInv

LEMMA PlainConnectLogin ==
  ASSUME WellFormed, NEW c \in Client, LoginInv(c), setting' = setting, PlainConnect(c)
  PROVE  SessionStep(c)
<1>0. plain \in PlainState /\ fromPlain \in Queues
  BY DEF WellFormed
<1>1. PlainServes(c, {"CONNECT"})
  BY Zenon DEF PlainConnect
<1>2. /\ toPlain[c] # <<>> /\ toPlain[c] \in Seq(Mail) /\ Head(toPlain[c]).code = "CONNECT"
      /\ toPlain'[c] = Tail(toPlain[c]) /\ \A x \in Client \ {c} : toPlain'[x] = toPlain[x]
      /\ UNCHANGED <<secure, client, toSecure, fromSecure>>
  BY <1>1, PlainServesSays
<1>3. \A code : Has(toPlain[c], code) <=> Has(toPlain'[c], code) \/ code = "CONNECT"
  BY <1>2, TailSays
<1>4. client[c].login /\ c \notin plain.users \cup plain.ended
  <2>1. client[c].login
    BY <1>3, KnownWhenTalking, SessionSays
  <2>2. QED
    BY <1>2, <1>3, <2>1 DEF LoginInv, Once, Ends
<1>5. Single(toPlain'[c], "CONNECT") /\ ~ Has(toPlain'[c], "CONNECT")
  BY <1>2, SingleStays DEF LoginInv, Once
<1>6. fromPlain[c] \in Seq(Mail)
  BY <1>0, QueueSays
<1>7. /\ Signal("CONNECT") \in Mail /\ Signal("CONNECT").code = "CONNECT"
      /\ Signal("CONNECT_KO") \in Mail /\ Signal("CONNECT_KO").code = "CONNECT_KO"
  BY SignalIsMail DEF Session
<1>8. Unknown(c)'
  BY <1>2, <1>4 DEF Unknown
<1>9. CASE c \in setting.taken
  <2>1. PlainTells({c}, Signal("CONNECT_KO")) /\ plain' = plain
    BY <1>9, Zenon DEF PlainConnect
  <2>2. \A x \in Client : fromPlain'[x] = IF x \in {c} \cap Running THEN Append(fromPlain[x], Signal("CONNECT_KO"))
                                                                   ELSE fromPlain[x]
    BY <1>7, <2>1, PlainTellsSays
  <2>3. \A code : Has(fromPlain'[c], code) <=> Has(fromPlain[c], code) \/ (c \in Running /\ code = "CONNECT_KO")
    BY <1>6, <1>7, <2>2, AppendSays
  <2>4. Elsewhere(c)
    BY <1>2, <2>1, <2>2 DEF Elsewhere, SameStanding
  <2>5. Ends(c)'
    BY <1>2, <1>3, <1>4, <2>1, <2>2, <2>3 DEF LoginInv, Ends, Running
  <2>6. GoesOn(c)'
    BY <1>2, <2>1, <2>3 DEF LoginInv, GoesOn, Running
  <2>7. Accounted(c)'
    BY <1>2, <1>3, <2>1, <2>3 DEF LoginInv, Accounted
  <2>8. Once(c)'
    BY <1>2, <1>3, <1>5, <2>1 DEF LoginInv, Once
  <2>9. Remains(c)'
    BY <1>9 DEF Remains, Stays
  <2>10. QED
    BY <1>8, <2>4, <2>5, <2>6, <2>7, <2>8, <2>9 DEF SessionStep, LoginInv
<1>10. CASE c \notin setting.taken
  <2>1. PlainTells({c}, Signal("CONNECT")) /\ plain' = [plain EXCEPT !.users = @ \cup {c}]
    BY <1>4, <1>10 DEF PlainConnect
  <2>2. \A x \in Client : fromPlain'[x] = IF x \in {c} \cap Running THEN Append(fromPlain[x], Signal("CONNECT"))
                                                                   ELSE fromPlain[x]
    BY <1>7, <2>1, PlainTellsSays
  <2>3. \A code : Has(fromPlain'[c], code) <=> Has(fromPlain[c], code) \/ (c \in Running /\ code = "CONNECT")
    BY <1>6, <1>7, <2>2, AppendSays
  <2>11. plain'.users = plain.users \cup {c} /\ plain'.ended = plain.ended
    BY <1>0, <2>1 DEF PlainState
  <2>4. Elsewhere(c)
    BY <1>2, <2>2, <2>11 DEF Elsewhere, SameStanding
  <2>5. Ends(c)'
    BY <1>2, <1>3, <1>4, <2>11, <2>2, <2>3 DEF LoginInv, Ends, Running
  <2>6. GoesOn(c)'
    BY <1>2, <2>11 DEF LoginInv, GoesOn, Running
  <2>7. Accounted(c)'
    BY <1>2, <1>3, <1>10, <2>11 DEF LoginInv, Accounted
  <2>8. Once(c)'
    BY <1>2, <1>3, <1>5 DEF LoginInv, Once
  <2>9. Remains(c)'
    BY <1>2, <1>3, <2>3 DEF LoginInv, Remains, Stays
  <2>10. QED
    BY <1>8, <2>4, <2>5, <2>6, <2>7, <2>8, <2>9 DEF SessionStep, LoginInv
<1>11. QED
  BY <1>9, <1>10

LEMMA PlainLeaveLogin ==
  ASSUME WellFormed, NEW c \in Client, LoginInv(c), setting' = setting, PlainLeave(c)
  PROVE  SessionStep(c)
<1>0. fromPlain \in Queues /\ toPlain \in Queues
  BY DEF WellFormed
<1>1. /\ toPlain[c] # <<>> /\ Head(toPlain[c]).code \in {"DISCONNECT", "EOF"}
      /\ toPlain' = [toPlain EXCEPT ![c] = <<>>]
      /\ PlainTells(IF Head(toPlain[c]).code = "DISCONNECT" THEN {c} ELSE {}, Signal("DISCONNECT"))
      /\ UNCHANGED <<secure, client, toSecure, fromSecure>>
  BY Zenon DEF PlainLeave
<1>2. plain'.users = plain.users \ {c} /\ plain'.ended = plain.ended \cup {c}
  BY DEF PlainLeave
<1>3. toPlain'[c] = <<>> /\ \A x \in Client \ {c} : toPlain'[x] = toPlain[x]
  BY <1>0, <1>1, CutSays
<1>4. toPlain[c] \in Seq(Mail) /\ fromPlain[c] \in Seq(Mail)
  BY <1>0, QueueSays
<1>5. Has(toPlain[c], Head(toPlain[c]).code)
  BY <1>1, <1>4, TailSays
<1>6. Signal("DISCONNECT") \in Mail /\ Signal("DISCONNECT").code = "DISCONNECT"
  BY SignalIsMail DEF Session
<1>7. \A x \in Client :
        fromPlain'[x] = IF x = c /\ c \in Running /\ Head(toPlain[c]).code = "DISCONNECT"
                        THEN Append(fromPlain[x], Signal("DISCONNECT")) ELSE fromPlain[x]
  BY <1>1, <1>6, PlainTellsSays
<1>8. \A code : Has(fromPlain'[c], code) <=>
        Has(fromPlain[c], code) \/ (c \in Running /\ Head(toPlain[c]).code = "DISCONNECT" /\ code = "DISCONNECT")
  BY <1>4, <1>6, <1>7, AppendSays
<1>9. client[c].login
  BY <1>1, <1>5, KnownWhenTalking, SessionSays
<1>10. \A code : ~ Has(toPlain'[c], code) /\ Single(toPlain'[c], code)
  BY <1>3, EmptySays
<1>11. /\ c \in Running => Head(toPlain[c]).code = "DISCONNECT" /\ Has(toPlain[c], "DISCONNECT")
       /\ c \in Running => client[c].status # "exited"
  BY <1>1, <1>5 DEF LoginInv, Ends, Running
<1>12. Elsewhere(c)
  BY <1>1, <1>2, <1>3, <1>7 DEF Elsewhere, SameStanding
<1>13. Unknown(c)'
  BY <1>1, <1>9 DEF Unknown
<1>14. Ends(c)'
  BY <1>1, <1>2, <1>3, <1>7, <1>8, <1>10, <1>11 DEF LoginInv, Ends, Running
<1>15. GoesOn(c)'
  BY <1>1, <1>2 DEF LoginInv, GoesOn, Running
<1>16. Accounted(c)'
  BY <1>1, <1>2, <1>8, <1>10 DEF LoginInv, Accounted
<1>17. Once(c)'
  BY <1>1, <1>2, <1>10 DEF LoginInv, Once
<1>18. Remains(c)'
  BY <1>1, <1>8, <1>10, <1>11 DEF LoginInv, Remains, Stays
<1>19. QED
  BY <1>12, <1>13, <1>14, <1>15, <1>16, <1>17, <1>18 DEF SessionStep, LoginInv

LastWord(code) == <<Signal(code)>>

\* What a queue holds after the last words of a client, and the end.
EndsWith(t, s, words, code) ==
  /\ \A a : Has(s, a) <=> Has(t, a) \/ a = "EOF" \/ (words /\ a = code)
  /\ \A a : Single(t, a) /\ a # "EOF" /\ a # code => Single(s, a)
  /\ \A a : a # "EOF" /\ ~ Has(t, "EOF") => Ahead(s, a, "EOF")
  /\ \A a, b : a # b /\ Leads(t, a, b) /\ a # "EOF" /\ a # code => Leads(s, a, b)

LEMMA LastWordsSay ==
  ASSUME NEW q \in Queues, NEW writers, NEW code \in Session \ {"EOF"}, NEW x \in Client
  PROVE  /\ x \in writers => /\ EndsWith(q[x], Bye(q, writers, <<>>)[x], FALSE, code)
                             /\ EndsWith(q[x], Bye(q, writers, LastWord(code))[x], TRUE, code)
         /\ x \notin writers => /\ Bye(q, writers, <<>>)[x] = q[x]
                                /\ Bye(q, writers, LastWord(code))[x] = q[x]
<1> DEFINE w == Signal(code)
           e == Signal("EOF")
           t == q[x]
           u == Append(t, w)
<1>1. w \in Mail /\ w.code = code /\ e \in Mail /\ e.code = "EOF"
  BY SignalIsMail, SessionSays
<1>2. t \in Seq(Mail)
  BY QueueSays
<1>3. /\ Bye(q, writers, <<>>) = Put(q, writers, e)
      /\ Bye(q, writers, <<w>>) = Put(Put(q, writers, w), writers, e)
  <2> HIDE DEF w
  <2>1. QED
    BY <1>1, ByeSays
<1>4. /\ Bye(q, writers, <<>>)[x] = IF x \in writers THEN Append(t, e) ELSE t
      /\ Bye(q, writers, <<w>>)[x] = IF x \in writers THEN Append(u, e) ELSE t
  <2> HIDE DEF w, e
  <2>1. QED
    BY <1>3 DEF Put
<1> HIDE DEF w, e, t
<1>5. u \in Seq(Mail) /\ \A a : Has(u, a) <=> Has(t, a) \/ a = code
  BY <1>1, <1>2, AppendSays
<1>6. /\ \A a : Single(t, a) /\ a # code => Single(u, a)
      /\ \A a, b : a # b /\ Leads(t, a, b) /\ a # code => Leads(u, a, b)
  BY <1>1, <1>2, SingleStays, LeadsStays
<1> HIDE DEF u
<1>7. ASSUME NEW s, s \in Seq(Mail)
      PROVE  /\ \A a : Has(Append(s, e), a) <=> Has(s, a) \/ a = "EOF"
             /\ \A a : Single(s, a) /\ a # "EOF" => Single(Append(s, e), a)
             /\ \A a : a # "EOF" /\ ~ Has(s, "EOF") => Ahead(Append(s, e), a, "EOF")
             /\ \A a, b : a # b /\ Leads(s, a, b) /\ a # "EOF" => Leads(Append(s, e), a, b)
  <2>1. \A a : Has(Append(s, e), a) <=> Has(s, a) \/ a = "EOF"
    BY <1>1, <1>7, AppendSays
  <2>2. \A a : Single(s, a) /\ a # "EOF" => Single(Append(s, e), a)
    BY <1>1, <1>7, SingleStays
  <2>3. ~ Has(s, "EOF") => \A a : Ahead(s, a, "EOF")
    BY DEF Ahead, Has
  <2>4. \A a : a # "EOF" /\ ~ Has(s, "EOF") => Ahead(Append(s, e), a, "EOF")
    BY <1>1, <1>7, <2>3, AheadStays
  <2>5. \A a, b : a # b /\ Leads(s, a, b) /\ a # "EOF" => Leads(Append(s, e), a, b)
    BY <1>1, <1>7, LeadsStays
  <2>6. QED
    BY <2>1, <2>2, <2>4, <2>5
<1>8. EndsWith(t, Append(t, e), FALSE, code)
  BY <1>2, <1>7 DEF EndsWith
<1>9. EndsWith(t, Append(u, e), TRUE, code)
  <2>1. code # "EOF"
    OBVIOUS
  <2>2. QED
    BY <1>5, <1>6, <1>7, <2>1 DEF EndsWith
<1>10. QED
  BY <1>4, <1>8, <1>9 DEF t, w, LastWord

LEMMA ClientEndsLogin ==
  ASSUME WellFormed, Bounded, NEW c \in Client, LoginInv(c), setting' = setting,
         c \in Running, client[c].login, NEW status \in {"exited", "crashed"},
         NEW ps \in {<<>>, <<Signal("DISCONNECT")>>}, NEW ss \in {<<>>, <<Signal("DISCONNECT_SEC")>>},
         ClientEnds(c, status, ps, ss),
         status = "crashed" => ps = <<>> /\ ss = <<>>,
         status = "exited" => c \in secure.ended \/ Has(toSecure[c], "DISCONNECT_SEC") \/ ss # <<>>
  PROVE  SessionStep(c)
<1>0. toPlain \in Queues /\ toSecure \in Queues /\ fromPlain \in Queues /\ fromSecure \in Queues
  BY DEF WellFormed
<1>1. /\ plain' = plain /\ secure' = secure
      /\ client'[c].status = status /\ \A x \in Client \ {c} : client'[x] = client[x]
      /\ \A x \in Client : client'[x].login = client[x].login
  BY ClientEndsTyped
<1>2. /\ toPlain' = Bye(toPlain, {c} \ plain.ended, ps)
      /\ toSecure' = Bye(toSecure, {c} \ secure.ended, ss)
      /\ fromPlain' = [fromPlain EXCEPT ![c] = <<>>]
      /\ fromSecure' = [fromSecure EXCEPT ![c] = <<>>]
  BY Zenon DEF ClientEnds
<1>3. /\ fromPlain'[c] = <<>> /\ \A x \in Client \ {c} : fromPlain'[x] = fromPlain[x]
      /\ fromSecure'[c] = <<>> /\ \A x \in Client \ {c} : fromSecure'[x] = fromSecure[x]
  BY <1>0, <1>2, CutSays
<1>4. "DISCONNECT" \in Session \ {"EOF"} /\ "DISCONNECT_SEC" \in Session \ {"EOF"}
  BY DEF Session
<1>5. /\ \A x \in Client \ {c} : toPlain'[x] = toPlain[x]
      /\ c \in plain.ended => toPlain'[c] = toPlain[c]
      /\ c \notin plain.ended => \A a : Has(toPlain'[c], a) <=>
           Has(toPlain[c], a) \/ a = "EOF" \/ (ps # <<>> /\ a = "DISCONNECT")
      /\ \A a : Single(toPlain[c], a) /\ a # "EOF" /\ a # "DISCONNECT" => Single(toPlain'[c], a)
  <2>0. ASSUME NEW x \in Client
        PROVE  /\ x \notin {c} \ plain.ended => toPlain'[x] = toPlain[x]
               /\ x \in {c} \ plain.ended => \A a : Has(toPlain'[x], a) <=>
                    Has(toPlain[x], a) \/ a = "EOF" \/ (ps # <<>> /\ a = "DISCONNECT")
               /\ \A a : Single(toPlain[x], a) /\ a # "EOF" /\ a # "DISCONNECT" => Single(toPlain'[x], a)
    <3> DEFINE W == {c} \ plain.ended
    <3>1. LastWord("DISCONNECT") = <<Signal("DISCONNECT")>> /\ LastWord("DISCONNECT") # <<>>
      BY DEF LastWord
    <3>2. /\ x \in W => /\ EndsWith(toPlain[x], Bye(toPlain, W, <<>>)[x], FALSE, "DISCONNECT")
                       /\ EndsWith(toPlain[x], Bye(toPlain, W, LastWord("DISCONNECT"))[x], TRUE, "DISCONNECT")
          /\ x \notin W => /\ Bye(toPlain, W, <<>>)[x] = toPlain[x]
                          /\ Bye(toPlain, W, LastWord("DISCONNECT"))[x] = toPlain[x]
      <4> HIDE DEF W
      <4>1. toPlain \in Queues /\ "DISCONNECT" \in Session \ {"EOF"}
        BY <1>0, <1>4
      <4>2. x \in W => EndsWith(toPlain[x], Bye(toPlain, W, <<>>)[x], FALSE, "DISCONNECT")
        BY <4>1, LastWordsSay, Zenon
      <4>3. x \in W => EndsWith(toPlain[x], Bye(toPlain, W, LastWord("DISCONNECT"))[x], TRUE, "DISCONNECT")
        BY <4>1, LastWordsSay, Zenon
      <4>4. x \notin W => Bye(toPlain, W, <<>>)[x] = toPlain[x] /\ Bye(toPlain, W, LastWord("DISCONNECT"))[x] = toPlain[x]
        BY <4>1, LastWordsSay, Zenon
      <4>5. QED
        BY <4>2, <4>3, <4>4, Zenon
    <3>3. IF x \in {c} \ plain.ended THEN EndsWith(toPlain[x], toPlain'[x], ps # <<>>, "DISCONNECT") ELSE toPlain'[x] = toPlain[x]
      <4>1. CASE ps = <<>>
        BY <1>2, <3>2, <4>1
      <4>2. CASE ps = <<Signal("DISCONNECT")>>
        BY <1>2, <3>1, <3>2, <4>2
      <4>3. QED
        BY <4>1, <4>2
    <3>4. CASE x \in {c} \ plain.ended
      BY <3>3, <3>4 DEF EndsWith
    <3>5. CASE x \notin {c} \ plain.ended
      BY <3>3, <3>5 DEF Ahead, Has
    <3>6. QED
      BY <3>4, <3>5
  <2>1. \A x \in Client : x \notin {c} \ plain.ended => toPlain'[x] = toPlain[x]
    BY <2>0
  <2>2. c \in {c} \ plain.ended => \A a : Has(toPlain'[c], a) <=>
           Has(toPlain[c], a) \/ a = "EOF" \/ (ps # <<>> /\ a = "DISCONNECT")
    BY <2>0
  <2>3. \A a : Single(toPlain[c], a) /\ a # "EOF" /\ a # "DISCONNECT" => Single(toPlain'[c], a)
    BY <2>0
  <2>4. QED
    BY <2>1, <2>2, <2>3
<1>6. /\ \A x \in Client \ {c} : toSecure'[x] = toSecure[x]
      /\ c \in secure.ended => toSecure'[c] = toSecure[c]
      /\ c \notin secure.ended => \A a : Has(toSecure'[c], a) <=>
           Has(toSecure[c], a) \/ a = "EOF" \/ (ss # <<>> /\ a = "DISCONNECT_SEC")
      /\ Single(toSecure[c], "CONNECT_SEC") => Single(toSecure'[c], "CONNECT_SEC")
      /\ ~ Has(toSecure[c], "EOF") =>
           Ahead(toSecure'[c], "DISCONNECT_SEC", "EOF") /\ Ahead(toSecure'[c], "CONNECT_SEC", "EOF")
      /\ Leads(toSecure[c], "DEL_ACCOUNT_SEC", "DISCONNECT_SEC") =>
           Leads(toSecure'[c], "DEL_ACCOUNT_SEC", "DISCONNECT_SEC")
  <2>0. ASSUME NEW x \in Client
        PROVE  /\ x \notin {c} \ secure.ended => toSecure'[x] = toSecure[x]
               /\ x \in {c} \ secure.ended => \A a : Has(toSecure'[x], a) <=>
                    Has(toSecure[x], a) \/ a = "EOF" \/ (ss # <<>> /\ a = "DISCONNECT_SEC")
               /\ \A a : Single(toSecure[x], a) /\ a # "EOF" /\ a # "DISCONNECT_SEC" => Single(toSecure'[x], a)
               /\ \A a : a # "EOF" /\ ~ Has(toSecure[x], "EOF") => Ahead(toSecure'[x], a, "EOF")
               /\ \A a, b : a # b /\ Leads(toSecure[x], a, b) /\ a # "EOF" /\ a # "DISCONNECT_SEC"
                    => Leads(toSecure'[x], a, b)
    <3> DEFINE W == {c} \ secure.ended
    <3>1. LastWord("DISCONNECT_SEC") = <<Signal("DISCONNECT_SEC")>> /\ LastWord("DISCONNECT_SEC") # <<>>
      BY DEF LastWord
    <3>2. /\ x \in W => /\ EndsWith(toSecure[x], Bye(toSecure, W, <<>>)[x], FALSE, "DISCONNECT_SEC")
                       /\ EndsWith(toSecure[x], Bye(toSecure, W, LastWord("DISCONNECT_SEC"))[x], TRUE, "DISCONNECT_SEC")
          /\ x \notin W => /\ Bye(toSecure, W, <<>>)[x] = toSecure[x]
                          /\ Bye(toSecure, W, LastWord("DISCONNECT_SEC"))[x] = toSecure[x]
      <4> HIDE DEF W
      <4>1. toSecure \in Queues /\ "DISCONNECT_SEC" \in Session \ {"EOF"}
        BY <1>0, <1>4
      <4>2. x \in W => EndsWith(toSecure[x], Bye(toSecure, W, <<>>)[x], FALSE, "DISCONNECT_SEC")
        BY <4>1, LastWordsSay, Zenon
      <4>3. x \in W => EndsWith(toSecure[x], Bye(toSecure, W, LastWord("DISCONNECT_SEC"))[x], TRUE, "DISCONNECT_SEC")
        BY <4>1, LastWordsSay, Zenon
      <4>4. x \notin W => Bye(toSecure, W, <<>>)[x] = toSecure[x] /\ Bye(toSecure, W, LastWord("DISCONNECT_SEC"))[x] = toSecure[x]
        BY <4>1, LastWordsSay, Zenon
      <4>5. QED
        BY <4>2, <4>3, <4>4, Zenon
    <3>3. IF x \in {c} \ secure.ended THEN EndsWith(toSecure[x], toSecure'[x], ss # <<>>, "DISCONNECT_SEC") ELSE toSecure'[x] = toSecure[x]
      <4>1. CASE ss = <<>>
        BY <1>2, <3>2, <4>1
      <4>2. CASE ss = <<Signal("DISCONNECT_SEC")>>
        BY <1>2, <3>1, <3>2, <4>2
      <4>3. QED
        BY <4>1, <4>2
    <3>4. CASE x \in {c} \ secure.ended
      BY <3>3, <3>4 DEF EndsWith
    <3>5. CASE x \notin {c} \ secure.ended
      BY <3>3, <3>5 DEF Ahead, Has
    <3>6. QED
      BY <3>4, <3>5
  <2>1. \A x \in Client : x \notin {c} \ secure.ended => toSecure'[x] = toSecure[x]
    BY <2>0
  <2>2. c \in {c} \ secure.ended => \A a : Has(toSecure'[c], a) <=>
           Has(toSecure[c], a) \/ a = "EOF" \/ (ss # <<>> /\ a = "DISCONNECT_SEC")
    BY <2>0
  <2>3. Single(toSecure[c], "CONNECT_SEC") => Single(toSecure'[c], "CONNECT_SEC")
    BY <2>0
  <2>4. ~ Has(toSecure[c], "EOF") => \A a : a # "EOF" => Ahead(toSecure'[c], a, "EOF")
    BY <2>0
  <2>5. Leads(toSecure[c], "DEL_ACCOUNT_SEC", "DISCONNECT_SEC") =>
           Leads(toSecure'[c], "DEL_ACCOUNT_SEC", "DISCONNECT_SEC")
    BY <2>0
  <2>6. QED
    BY <2>1, <2>2, <2>3, <2>4, <2>5
<1>7. /\ ~ Has(toPlain[c], "EOF") /\ ~ Has(toSecure[c], "EOF")
      /\ c \in secure.ended => c \notin secure.users /\ toSecure[c] = <<>>
      /\ c \in plain.ended => c \notin plain.users /\ toPlain[c] = <<>>
  BY DEF LoginInv, Ends
<1>8. \A code : ~ Has(fromPlain'[c], code) /\ ~ Has(fromSecure'[c], code) /\ Single(fromSecure'[c], code)
  BY <1>3, EmptySays
<1>9. c \notin Running'
  BY <1>1 DEF Running
<1>10. Elsewhere(c)
  BY <1>1, <1>3, <1>5, <1>6 DEF Elsewhere, SameStanding
<1>11. Unknown(c)'
  BY <1>1 DEF Unknown
<1>12. Ends(c)'
  BY <1>1, <1>3, <1>5, <1>6, <1>7, <1>8, <1>9 DEF Ends
<1>13. GoesOn(c)'
  BY <1>9 DEF GoesOn
<1>14. Accounted(c)'
  BY <1>1, <1>5, <1>6, <1>8 DEF LoginInv, Accounted
<1>15. Once(c)'
  BY <1>1, <1>5, <1>6, <1>8 DEF LoginInv, Once
<1>16. Remains(c)'
  <2>1. client[c].status = "running"
    BY DEF Running
  <2>2. CASE status = "exited"
    BY <1>1, <2>2 DEF Remains
  <2>3. CASE status = "crashed"
    BY <1>1, <1>5, <1>6, <1>7, <1>8, <2>1, <2>3 DEF LoginInv, Remains, Stays
  <2>4. QED
    BY <2>2, <2>3
<1>17. QED
  BY <1>10, <1>11, <1>12, <1>13, <1>14, <1>15, <1>16 DEF SessionStep, LoginInv

LEMMA EndsOfClients ==
  ASSUME WellFormed, Bounded, NEW c \in Client, LoginInv(c), setting' = setting
  PROVE  /\ MayType(c, "MESSAGE") /\ ClientEnds(c, "crashed", <<>>, <<>>) => SessionStep(c)
         /\ Interrupt(c) => SessionStep(c)
         /\ HearEnd(c) => SessionStep(c)
         /\ HearDisconnect(c) => SessionStep(c)
<1>1. ASSUME MayType(c, "MESSAGE"), ClientEnds(c, "crashed", <<>>, <<>>) PROVE SessionStep(c)
  <2>1. c \in Running /\ client[c].login
    BY <1>1 DEF MayType
  <2>2. QED
    BY <1>1, <2>1, ClientEndsLogin
<1>2. ASSUME Interrupt(c) PROVE SessionStep(c)
  <2>1. MayType(c, "SIGINT") /\ ClientEnds(c, "exited", <<>>, <<Signal("DISCONNECT_SEC")>>)
    BY <1>2, Zenon DEF Interrupt
  <2>2. c \in Running /\ client[c].login /\ <<Signal("DISCONNECT_SEC")>> # <<>>
    BY <2>1 DEF MayType
  <2>3. QED
    BY <2>1, <2>2, ClientEndsLogin
<1>3. ASSUME NEW code \in Session, HeardSecure(c, {code})
      PROVE  c \in Running /\ Has(fromSecure[c], code) /\ client[c].login
  <2>1. c \in Running /\ fromSecure[c] # <<>> /\ Head(fromSecure[c]).code = code
    BY <1>3 DEF HeardSecure
  <2>2. fromSecure[c] \in Seq(Mail)
    BY QueueSays DEF WellFormed
  <2>3. Has(fromSecure[c], code)
    BY <2>1, <2>2, TailSays
  <2>4. QED
    BY <2>1, <2>3, KnownWhenTalking
<1>4. ASSUME HearEnd(c) PROVE SessionStep(c)
  <2>1. CASE HeardSecure(c, {"DISCONNECT_SEC"}) /\ ClientEnds(c, "exited", <<>>, <<>>)
    <3>1. c \in Running /\ Has(fromSecure[c], "DISCONNECT_SEC") /\ client[c].login
      BY <1>3, <2>1, SessionSays
    <3>2. c \in secure.ended
      BY <3>1 DEF LoginInv, Ends
    <3>3. QED
      BY <2>1, <3>1, <3>2, ClientEndsLogin
  <2>2. CASE /\ HeardSecure(c, {"DEL_ACCOUNT_SEC"})
             /\ ClientEnds(c, "exited", <<Signal("DISCONNECT")>>, <<Signal("DISCONNECT_SEC")>>)
    <3>1. c \in Running /\ client[c].login /\ <<Signal("DISCONNECT_SEC")>> # <<>>
      BY <1>3, <2>2, SessionSays
    <3>2. QED
      BY <2>2, <3>1, ClientEndsLogin
  <2>3. QED
    BY <1>4, <2>1, <2>2, Zenon DEF HearEnd
<1>5. ASSUME HearDisconnect(c) PROVE SessionStep(c)
  <2>1. HeardPlain(c, {"DISCONNECT"}) /\ ClientEnds(c, "exited", <<Signal("DISCONNECT")>>, <<>>)
    BY <1>5, Zenon DEF HearDisconnect
  <2>2. c \in Running /\ fromPlain[c] # <<>> /\ Head(fromPlain[c]).code = "DISCONNECT"
    BY <2>1 DEF HeardPlain
  <2>3. fromPlain[c] \in Seq(Mail)
    BY QueueSays DEF WellFormed
  <2>4. Has(fromPlain[c], "DISCONNECT")
    BY <2>2, <2>3, TailSays
  <2>5. client[c].login /\ (Has(toSecure[c], "DISCONNECT_SEC") \/ c \in secure.ended)
    <3>1. client[c].login
      BY <2>4, KnownWhenTalking, SessionSays
    <3>2. QED
      BY <2>2, <2>4, <3>1 DEF LoginInv, Ends
  <2>6. QED
    BY <2>1, <2>2, <2>5, ClientEndsLogin
<1>6. QED
  BY <1>1, <1>2, <1>4, <1>5

LEMMA TypeConnectLogin ==
  ASSUME WellFormed, Bounded, NEW c \in Client, LoginInv(c), setting' = setting, TypeConnect(c)
  PROVE  SessionStep(c)
<1>1. /\ toPlain' = toPlain /\ client'[c].login /\ \A x \in Client \ {c} : client'[x] = client[x]
      /\ \A x \in Client : client'[x].status = client[x].status
      /\ \A x \in Client :
           toSecure'[x] = IF x \in {c} \ secure.ended THEN Append(toSecure[x], Signal("CONNECT_SEC"))
                                                      ELSE toSecure[x]
  BY TypeConnectTyped
<1>2. /\ plain' = plain /\ secure' = secure /\ fromPlain' = fromPlain /\ fromSecure' = fromSecure
      /\ c \in Running /\ ~ client[c].login
  BY DEF TypeConnect, OnlySent
<1>3. /\ c \notin plain.users \cup plain.ended
      /\ c \notin secure.users \cup secure.ended \cup secure.accounts \cup secure.first_connection
      /\ \A code \in Session :
           /\ ~ Has(toPlain[c], code) /\ ~ Has(toSecure[c], code)
           /\ ~ Has(fromPlain[c], code) /\ ~ Has(fromSecure[c], code)
  BY <1>2 DEF LoginInv, Unknown
<1>4. toSecure[c] \in Seq(Mail)
  BY QueueSays DEF WellFormed
<1>5. Signal("CONNECT_SEC") \in Mail /\ Signal("CONNECT_SEC").code = "CONNECT_SEC"
  BY SignalIsMail DEF Session
<1>6. toSecure'[c] = Append(toSecure[c], Signal("CONNECT_SEC"))
  BY <1>1, <1>3
<1>7. \A code : Has(toSecure'[c], code) <=> Has(toSecure[c], code) \/ code = "CONNECT_SEC"
  BY <1>4, <1>5, <1>6, AppendSays
<1>8. /\ Ahead(toSecure'[c], "DISCONNECT_SEC", "EOF")
      /\ Leads(toSecure'[c], "DEL_ACCOUNT_SEC", "DISCONNECT_SEC")
      /\ Single(toSecure'[c], "CONNECT_SEC")
  BY <1>3, <1>4, <1>5, <1>6, SingleStays, AheadStays, LeadsStays, SessionSays DEF LoginInv, Ends, Accounted, Once
<1>9. Ahead(toSecure'[c], "CONNECT_SEC", "EOF")
  <2>1. ~ Has(toSecure'[c], "EOF")
    BY <1>3, <1>7, SessionSays
  <2>2. QED
    BY <2>1 DEF Ahead, Has
<1>10. Elsewhere(c)
  BY <1>1, <1>2 DEF Elsewhere, SameStanding
<1>11. Unknown(c)'
  BY <1>1 DEF Unknown
<1>12. Ends(c)'
  BY <1>1, <1>2, <1>3, <1>7, <1>8, SessionSays DEF LoginInv, Ends, Running
<1>13. GoesOn(c)'
  BY <1>2, <1>3, <1>7 DEF GoesOn
<1>14. Accounted(c)'
  BY <1>1, <1>2, <1>3, <1>7, <1>8, SessionSays DEF LoginInv, Accounted
<1>15. Once(c)'
  BY <1>1, <1>2, <1>3, <1>8, SessionSays DEF LoginInv, Once
<1>16. Remains(c)'
  BY <1>1, <1>2, <1>3, <1>7, <1>9, SessionSays DEF Remains, Stays
<1>17. QED
  BY <1>10, <1>11, <1>12, <1>13, <1>14, <1>15, <1>16 DEF SessionStep, LoginInv

LEMMA TypeByeLogin ==
  ASSUME WellFormed, Bounded, NEW c \in Client, LoginInv(c), setting' = setting, TypeBye(c)
  PROVE  SessionStep(c)
<1>1. LoginsKept
  BY TypeByeTyped DEF ClientKept
<1>2. plain' = plain /\ secure' = secure /\ fromPlain' = fromPlain /\ fromSecure' = fromSecure
  BY DEF TypeBye, OnlySent
<1>3. /\ MayType(c, "DISCONNECT_SEC") \/ MayType(c, "DEL_ACCOUNT_SEC")
      /\ \/ SendBoth(c, Signal("DISCONNECT"), Signal("DISCONNECT_SEC"))
         \/ /\ toSecure' = Put(Put(toSecure, {c} \ secure.ended, Signal("DEL_ACCOUNT_SEC")),
                               {c} \ secure.ended, Signal("DISCONNECT_SEC"))
            /\ UNCHANGED toPlain
  BY Zenon DEF TypeBye
<1>4. c \in Running /\ client[c].login /\ ~ Stays(c)
  BY <1>3 DEF MayType, Stays
<1>5. /\ Signal("DISCONNECT") \in Mail /\ Signal("DISCONNECT").code = "DISCONNECT"
      /\ Signal("DISCONNECT_SEC") \in Mail /\ Signal("DISCONNECT_SEC").code = "DISCONNECT_SEC"
      /\ Signal("DEL_ACCOUNT_SEC") \in Mail /\ Signal("DEL_ACCOUNT_SEC").code = "DEL_ACCOUNT_SEC"
  BY SignalIsMail DEF Session
<1>6. toPlain[c] \in Seq(Mail) /\ toSecure[c] \in Seq(Mail) /\ toSecure \in Queues
  BY QueueSays DEF WellFormed
<1>7. /\ ~ Has(toPlain[c], "EOF") /\ ~ Has(toSecure[c], "EOF")
      /\ c \in secure.ended => c \notin secure.users /\ toSecure[c] = <<>>
      /\ c \in plain.ended => c \notin plain.users /\ toPlain[c] = <<>>
  BY <1>4 DEF LoginInv, Ends
<1>8. /\ \A x \in Client \ {c} : toPlain'[x] = toPlain[x]
      /\ c \in plain.ended => toPlain'[c] = toPlain[c]
      /\ \A code : code # "DISCONNECT" => (Has(toPlain'[c], code) <=> Has(toPlain[c], code))
      /\ Single(toPlain'[c], "CONNECT")
  <2>1. CASE \A x \in Client : toPlain'[x] = IF x \in {c} \ plain.ended THEN Append(toPlain[x], Signal("DISCONNECT"))
                                                                         ELSE toPlain[x]
    BY <1>5, <1>6, <2>1, AppendSays, SingleStays DEF LoginInv, Once
  <2>2. CASE toPlain' = toPlain
    BY <2>2 DEF LoginInv, Once
  <2>3. QED
    BY <1>3, <1>5, <2>1, <2>2, SendSays DEF SendBoth
<1>9. PICK word \in Mail :
        /\ word.code = "DEL_ACCOUNT_SEC"
        /\ \/ \A x \in Client : toSecure'[x] = IF x \in {c} \ secure.ended
                                               THEN Append(toSecure[x], Signal("DISCONNECT_SEC")) ELSE toSecure[x]
           \/ \A x \in Client : toSecure'[x] = IF x \in {c} \ secure.ended
                                               THEN Append(Append(toSecure[x], word), Signal("DISCONNECT_SEC"))
                                               ELSE toSecure[x]
  <2>1. CASE SendBoth(c, Signal("DISCONNECT"), Signal("DISCONNECT_SEC"))
    BY <1>5, <2>1, SendSays DEF SendBoth
  <2>2. CASE toSecure' = Put(Put(toSecure, {c} \ secure.ended, Signal("DEL_ACCOUNT_SEC")),
                             {c} \ secure.ended, Signal("DISCONNECT_SEC"))
    <3>1. \A x \in Client : toSecure'[x] = IF x \in {c} \ secure.ended
            THEN Append(Append(toSecure[x], Signal("DEL_ACCOUNT_SEC")), Signal("DISCONNECT_SEC")) ELSE toSecure[x]
      BY <2>2 DEF Put
    <3>2. QED
      BY <1>5, <3>1
  <2>3. QED
    BY <1>3, <2>1, <2>2
<1>10. /\ \A x \in Client \ {c} : toSecure'[x] = toSecure[x]
       /\ c \in secure.ended => toSecure'[c] = toSecure[c]
       /\ c \notin secure.ended => Has(toSecure'[c], "DISCONNECT_SEC")
       /\ \A code : code \notin {"DEL_ACCOUNT_SEC", "DISCONNECT_SEC"} =>
            (Has(toSecure'[c], code) <=> Has(toSecure[c], code))
       /\ Single(toSecure'[c], "CONNECT_SEC")
       /\ Leads(toSecure'[c], "DEL_ACCOUNT_SEC", "DISCONNECT_SEC")
  <2> DEFINE bye == Signal("DISCONNECT_SEC")
             q == toSecure[c]
  <2>1. /\ bye \in Mail /\ bye.code = "DISCONNECT_SEC" /\ q \in Seq(Mail)
        /\ Single(q, "CONNECT_SEC") /\ Leads(q, "DEL_ACCOUNT_SEC", "DISCONNECT_SEC")
    BY <1>5, <1>6 DEF LoginInv, Once, Accounted
  <2>2. \A x \in Client \ {c} : toSecure'[x] = toSecure[x]
    BY <1>9
  <2>3. c \in secure.ended => toSecure'[c] = q
    BY <1>9
  <2>4. c \notin secure.ended => toSecure'[c] = Append(q, bye) \/ toSecure'[c] = Append(Append(q, word), bye)
    BY <1>9
  <2> HIDE DEF bye, q
  <2>5. /\ Has(Append(q, bye), "DISCONNECT_SEC")
        /\ \A code : code # "DISCONNECT_SEC" => (Has(Append(q, bye), code) <=> Has(q, code))
        /\ Single(Append(q, bye), "CONNECT_SEC") /\ Leads(Append(q, bye), "DEL_ACCOUNT_SEC", "DISCONNECT_SEC")
    BY <2>1, AppendSays, SingleStays, LeadsStays
  <2>6. Append(q, word) \in Seq(Mail) /\ Single(Append(q, word), "CONNECT_SEC")
        /\ \A code : code # "DEL_ACCOUNT_SEC" => (Has(Append(q, word), code) <=> Has(q, code))
    BY <1>9, <2>1, AppendSays, SingleStays
  <2>7. /\ Has(Append(Append(q, word), bye), "DISCONNECT_SEC")
        /\ \A code : code \notin {"DEL_ACCOUNT_SEC", "DISCONNECT_SEC"} =>
             (Has(Append(Append(q, word), bye), code) <=> Has(q, code))
        /\ Single(Append(Append(q, word), bye), "CONNECT_SEC")
    <3>1. SUFFICES ASSUME NEW p, p = Append(q, word)
                   PROVE  /\ Has(Append(p, bye), "DISCONNECT_SEC")
                          /\ \A code : code \notin {"DEL_ACCOUNT_SEC", "DISCONNECT_SEC"} =>
                               (Has(Append(p, bye), code) <=> Has(q, code))
                          /\ Single(Append(p, bye), "CONNECT_SEC")
      OBVIOUS
    <3>2. /\ p \in Seq(Mail) /\ Single(p, "CONNECT_SEC")
          /\ \A code : code # "DEL_ACCOUNT_SEC" => (Has(p, code) <=> Has(q, code))
      BY <2>6, <3>1
    <3>3. \A code : Has(Append(p, bye), code) <=> Has(p, code) \/ bye.code = code
      BY <2>1, <3>2, AppendSays
    <3>4. Single(Append(p, bye), "CONNECT_SEC")
      BY <2>1, <3>2, SingleStays
    <3>5. QED
      BY <2>1, <3>2, <3>3, <3>4
  <2>8. Leads(Append(Append(q, word), bye), "DEL_ACCOUNT_SEC", "DISCONNECT_SEC")
    BY <1>9, <2>1, LeadsStays
  <2>9. CASE c \in secure.ended
    BY <2>1, <2>2, <2>3, <2>9 DEF q
  <2>10. CASE c \notin secure.ended
    <3>1. /\ Has(toSecure'[c], "DISCONNECT_SEC") /\ Single(toSecure'[c], "CONNECT_SEC")
          /\ Leads(toSecure'[c], "DEL_ACCOUNT_SEC", "DISCONNECT_SEC")
          /\ \A code : code \notin {"DEL_ACCOUNT_SEC", "DISCONNECT_SEC"} => (Has(toSecure'[c], code) <=> Has(q, code))
      BY <2>4, <2>5, <2>7, <2>8, <2>10
    <3>2. QED
      BY <2>2, <2>10, <3>1 DEF q
  <2>11. QED
    BY <2>9, <2>10
<1>11. Ahead(toSecure'[c], "DISCONNECT_SEC", "EOF")
  BY <1>7, <1>10 DEF Ahead, Has
<1>12. Elsewhere(c)
  BY <1>1, <1>2, <1>8, <1>10 DEF Elsewhere, SameStanding, LoginsKept
<1>13. client'[c].status = client[c].status /\ client'[c].login
  BY <1>1, <1>4 DEF LoginsKept
<1>14. Unknown(c)'
  BY <1>13 DEF Unknown
<1>15. Ends(c)'
  <2>1. ~ Has(toPlain'[c], "EOF") /\ ~ Has(toSecure'[c], "EOF")
    BY <1>7, <1>8, <1>10
  <2>2. c \in Running /\ c \in Running' /\ client'[c].status # "exited"
    BY <1>4, <1>13 DEF Running
  <2>3. c \in secure.ended \/ Has(toSecure'[c], "DISCONNECT_SEC")
    BY <1>10
  <2>4. QED
    BY <1>2, <1>7, <1>8, <1>10, <1>11, <2>1, <2>2, <2>3 DEF LoginInv, Ends
<1>16. GoesOn(c)'
  <2>1. c \in Running /\ (c \in secure.ended => c \notin secure.users)
    BY <1>4, <1>7
  <2>2. c \in secure.ended \/ Has(toSecure'[c], "DISCONNECT_SEC")
    BY <1>10
  <2>3. QED
    BY <1>2, <1>4, <1>10, <2>1, <2>2 DEF LoginInv, GoesOn
<1>17. Accounted(c)'
  <2>1. c \in secure.users => Has(toSecure'[c], "DISCONNECT_SEC")
    BY <1>7, <1>10
  <2>2. QED
    BY <1>2, <1>8, <1>10, <2>1 DEF LoginInv, Accounted
<1>18. Once(c)'
  BY <1>2, <1>8, <1>10 DEF LoginInv, Once
<1>19. Remains(c)'
  BY <1>4 DEF Remains, Stays
<1>20. QED
  BY <1>12, <1>14, <1>15, <1>16, <1>17, <1>18, <1>19 DEF SessionStep, LoginInv

LEMMA HearConnectSecLogin ==
  ASSUME WellFormed, Bounded, NEW c \in Client, LoginInv(c), setting' = setting, HearConnectSec(c)
  PROVE  SessionStep(c)
<1>1. /\ LoginsKept /\ toSecure' = toSecure /\ Head(fromSecure[c]).code = "CONNECT_SEC"
      /\ \A x \in Client : toPlain'[x] = IF x \in {c} \ plain.ended THEN Append(toPlain[x], Signal("CONNECT"))
                                                                  ELSE toPlain[x]
  BY HearConnectSecTyped DEF ClientKept
<1>2. FromSecure(c, {"CONNECT_SEC"})
  BY Zenon DEF HearConnectSec
<1>3. /\ UNCHANGED <<plain, secure, fromPlain>> /\ fromSecure[c] # <<>> /\ fromSecure[c] \in Seq(Mail)
      /\ fromSecure'[c] = Tail(fromSecure[c]) /\ \A x \in Client \ {c} : fromSecure'[x] = fromSecure[x]
      /\ c \in Running
  BY <1>2, FromSecureSays
<1>4. \A code : Has(fromSecure[c], code) <=> Has(fromSecure'[c], code) \/ code = "CONNECT_SEC"
  BY <1>1, <1>3, TailSays
<1>5. Single(fromSecure'[c], "CONNECT_SEC") /\ ~ Has(fromSecure'[c], "CONNECT_SEC")
  BY <1>1, <1>3, SingleStays DEF LoginInv, Once
<1>6. /\ ~ Has(toSecure[c], "CONNECT_SEC") /\ ~ Has(toPlain[c], "CONNECT") /\ c \notin plain.users
  BY <1>4 DEF LoginInv, Once
<1>7. Signal("CONNECT") \in Mail /\ Signal("CONNECT").code = "CONNECT" /\ toPlain[c] \in Seq(Mail)
  BY SignalIsMail, QueueSays DEF Session, WellFormed
<1>8. \A code : Has(toPlain'[c], code) <=> Has(toPlain[c], code) \/ (c \notin plain.ended /\ code = "CONNECT")
  BY <1>1, <1>7, AppendSays
<1>9. Single(toPlain'[c], "CONNECT")
  BY <1>1, <1>6, <1>7, SingleStays DEF LoginInv, Once
<1>10. client[c].login
  BY <1>4, KnownWhenTalking, SessionSays
<1>11. client'[c].status = client[c].status /\ client'[c].login /\ c \in Running' /\ client'[c].status # "exited"
  BY <1>1, <1>3, <1>10 DEF LoginsKept, Running
<1>12. Elsewhere(c)
  BY <1>1, <1>3 DEF Elsewhere, SameStanding, LoginsKept
<1>13. Unknown(c)'
  BY <1>11 DEF Unknown
<1>14. Ends(c)'
  <2>1. c \in plain.ended => toPlain'[c] = toPlain[c]
    BY <1>1
  <2>2. QED
    BY <1>1, <1>3, <1>4, <1>8, <1>11, <2>1 DEF LoginInv, Ends
<1>15. GoesOn(c)'
  BY <1>1, <1>3, <1>4, <1>8, <1>10 DEF LoginInv, GoesOn
<1>16. Accounted(c)'
  BY <1>1, <1>3, <1>4, <1>8 DEF LoginInv, Accounted
<1>17. Once(c)'
  BY <1>1, <1>3, <1>5, <1>6, <1>9 DEF LoginInv, Once
<1>18. Remains(c)'
  BY <1>1, <1>3, <1>4, <1>8, <1>10, <1>11 DEF LoginInv, Remains, Stays
<1>19. QED
  BY <1>12, <1>13, <1>14, <1>15, <1>16, <1>17, <1>18 DEF SessionStep, LoginInv

LEMMA HearConnectLogin ==
  ASSUME WellFormed, Bounded, NEW c \in Client, LoginInv(c), setting' = setting, HearConnect(c)
  PROVE  SessionStep(c)
<1>1. /\ LoginsKept /\ toPlain' = toPlain /\ Head(fromPlain[c]).code = "CONNECT"
      /\ \A x \in Client : toSecure'[x] = IF x \in {c} \ secure.ended
                                          THEN Append(toSecure[x], Signal("CONNECT_OK")) ELSE toSecure[x]
  BY HearLoginTyped DEF ClientKept
<1>2. FromPlain(c, {"CONNECT"})
  BY Zenon DEF HearConnect
<1>3. /\ UNCHANGED <<plain, secure, fromSecure>> /\ fromPlain[c] # <<>> /\ fromPlain[c] \in Seq(Mail)
      /\ fromPlain'[c] = Tail(fromPlain[c]) /\ \A x \in Client \ {c} : fromPlain'[x] = fromPlain[x]
      /\ c \in Running
  BY <1>2, FromPlainSays
<1>4. \A code : Has(fromPlain[c], code) <=> Has(fromPlain'[c], code) \/ code = "CONNECT"
  BY <1>1, <1>3, TailSays
<1>5. Signal("CONNECT_OK") \in Mail /\ Signal("CONNECT_OK").code = "CONNECT_OK" /\ toSecure[c] \in Seq(Mail)
  BY SignalIsMail, QueueSays DEF Session, WellFormed
<1>6. \A code : code # "CONNECT_OK" => (Has(toSecure'[c], code) <=> Has(toSecure[c], code))
  BY <1>1, <1>5, AppendSays
<1>7. client[c].login /\ c \notin setting.taken
  <2>1. client[c].login
    BY <1>4, KnownWhenTalking, SessionSays
  <2>2. QED
    BY <1>4, <2>1 DEF LoginInv, Accounted
<1>8. client'[c].status = client[c].status /\ client'[c].login /\ c \in Running' /\ client'[c].status # "exited"
  BY <1>1, <1>3, <1>7 DEF LoginsKept, Running
<1>9. /\ Single(toSecure'[c], "CONNECT_SEC")
      /\ Ahead(toSecure[c], "CONNECT_SEC", "EOF") => Ahead(toSecure'[c], "CONNECT_SEC", "EOF")
      /\ Ahead(toSecure'[c], "DISCONNECT_SEC", "EOF") /\ Leads(toSecure'[c], "DEL_ACCOUNT_SEC", "DISCONNECT_SEC")
  BY <1>1, <1>5, SingleStays, AheadStays, LeadsStays DEF LoginInv, Once, Ends, Accounted
<1>10. Elsewhere(c)
  BY <1>1, <1>3 DEF Elsewhere, SameStanding, LoginsKept
<1>11. Unknown(c)'
  BY <1>8 DEF Unknown
<1>12. Ends(c)'
  <2>1. c \in secure.ended => toSecure'[c] = toSecure[c]
    BY <1>1
  <2>2. QED
    BY <1>1, <1>3, <1>4, <1>6, <1>8, <1>9, <2>1 DEF LoginInv, Ends
<1>13. GoesOn(c)'
  BY <1>1, <1>3, <1>4, <1>6, <1>7 DEF LoginInv, GoesOn
<1>14. Accounted(c)'
  BY <1>1, <1>3, <1>6, <1>7, <1>9 DEF LoginInv, Accounted
<1>15. Once(c)'
  BY <1>1, <1>3, <1>6, <1>9 DEF LoginInv, Once
<1>16. Remains(c)'
  BY <1>1, <1>3, <1>4, <1>6, <1>7, <1>8, <1>9 DEF LoginInv, Remains, Stays
<1>17. QED
  BY <1>10, <1>11, <1>12, <1>13, <1>14, <1>15, <1>16 DEF SessionStep, LoginInv

LEMMA HearConnectKoLogin ==
  ASSUME WellFormed, Bounded, NEW c \in Client, LoginInv(c), setting' = setting, HearConnectKo(c)
  PROVE  SessionStep(c)
<1>1. /\ LoginsKept /\ toPlain' = toPlain /\ Head(fromPlain[c]).code = "CONNECT_KO"
      /\ \A x \in Client : toSecure'[x] = IF x \in {c} \ secure.ended
                                          THEN Append(toSecure[x], Signal("DISCONNECT_SEC")) ELSE toSecure[x]
  BY HearLoginTyped DEF ClientKept
<1>2. FromPlain(c, {"CONNECT_KO"})
  BY Zenon DEF HearConnectKo
<1>3. /\ UNCHANGED <<plain, secure, fromSecure>> /\ fromPlain[c] # <<>> /\ fromPlain[c] \in Seq(Mail)
      /\ fromPlain'[c] = Tail(fromPlain[c]) /\ \A x \in Client \ {c} : fromPlain'[x] = fromPlain[x]
      /\ c \in Running
  BY <1>2, FromPlainSays
<1>4. \A code : Has(fromPlain[c], code) <=> Has(fromPlain'[c], code) \/ code = "CONNECT_KO"
  BY <1>1, <1>3, TailSays
<1>5. /\ Signal("DISCONNECT_SEC") \in Mail /\ Signal("DISCONNECT_SEC").code = "DISCONNECT_SEC"
      /\ toSecure[c] \in Seq(Mail)
  BY SignalIsMail, QueueSays DEF Session, WellFormed
<1>6. /\ \A code : code # "DISCONNECT_SEC" => (Has(toSecure'[c], code) <=> Has(toSecure[c], code))
      /\ Has(toSecure[c], "DISCONNECT_SEC") \/ c \notin secure.ended => Has(toSecure'[c], "DISCONNECT_SEC")
      /\ c \in secure.ended => toSecure'[c] = toSecure[c]
  BY <1>1, <1>5, AppendSays
<1>7. client[c].login
  BY <1>4, KnownWhenTalking, SessionSays
<1>8. client'[c].status = client[c].status /\ client'[c].login /\ c \in Running' /\ client'[c].status # "exited"
  BY <1>1, <1>3, <1>7 DEF LoginsKept, Running
<1>9. ~ Stays(c)
  BY <1>3, <1>4 DEF LoginInv, Remains, Running
<1>10. Ahead(toSecure'[c], "DISCONNECT_SEC", "EOF")
  <2>1. ~ Has(toSecure[c], "EOF")
    BY <1>3 DEF LoginInv, Ends
  <2>2. ~ Has(toSecure'[c], "EOF")
    BY <1>6, <2>1
  <2>3. QED
    BY <2>2 DEF Ahead, Has
<1>11. Single(toSecure'[c], "CONNECT_SEC") /\ Leads(toSecure'[c], "DEL_ACCOUNT_SEC", "DISCONNECT_SEC")
  BY <1>1, <1>5, SingleStays, LeadsStays DEF LoginInv, Once, Accounted
<1>12. Elsewhere(c)
  BY <1>1, <1>3 DEF Elsewhere, SameStanding, LoginsKept
<1>13. Unknown(c)'
  BY <1>8 DEF Unknown
<1>14. Ends(c)'
  BY <1>1, <1>3, <1>4, <1>6, <1>8, <1>10 DEF LoginInv, Ends
<1>15. GoesOn(c)'
  <2>1. c \in secure.users => c \notin secure.ended
    BY <1>3 DEF LoginInv, Ends
  <2>2. QED
    BY <1>1, <1>3, <1>4, <1>6, <1>7, <2>1 DEF LoginInv, GoesOn
<1>16. Accounted(c)'
  BY <1>1, <1>3, <1>4, <1>6, <1>11 DEF LoginInv, Accounted
<1>17. Once(c)'
  BY <1>1, <1>3, <1>6, <1>11 DEF LoginInv, Once
<1>18. Remains(c)'
  BY <1>9 DEF Remains, Stays
<1>19. QED
  BY <1>12, <1>13, <1>14, <1>15, <1>16, <1>17, <1>18 DEF SessionStep, LoginInv

LEMMA InitLogin == ASSUME Init PROVE AllLoginInv
<1>1. SUFFICES ASSUME NEW c \in Client PROVE LoginInv(c)
  BY DEF AllLoginInv
<1>2. /\ plain.users = setting.inside /\ plain.ended = {} /\ secure.users = setting.inside
      /\ secure.ended = {} /\ secure.accounts = setting.inside /\ secure.first_connection = {}
      /\ client[c].status = "running" /\ (client[c].login <=> c \in setting.inside)
      /\ setting.inside \cap (setting.taken \cup setting.refused) = {}
      /\ toPlain[c] = <<>> /\ toSecure[c] = <<>> /\ fromPlain[c] = <<>> /\ fromSecure[c] = <<>>
  BY ConstantsAssumption DEF Init, NothingSent
<1>3. Unknown(c)
  BY <1>2, EmptySays DEF Unknown
<1>4. Ends(c)
  BY <1>2, EmptySays DEF Ends, Running
<1>5. GoesOn(c)
  BY <1>2 DEF GoesOn
<1>6. Accounted(c)
  BY <1>2, EmptySays DEF Accounted
<1>7. Once(c)
  BY <1>2, EmptySays DEF Once
<1>8. Remains(c)
  BY <1>2, EmptySays DEF Remains
<1>9. QED
  BY <1>3, <1>4, <1>5, <1>6, <1>7, <1>8 DEF LoginInv

----------------------------------------------------------------------------
(***************************************************************************)
(* Every step is one or the other.                                         *)
(***************************************************************************)
ServedOrIdle(c) == AllIdle \/ SessionStep(c)

LEMMA ServersServe ==
  ASSUME TInv, NEW c \in Client, LoginInv(c), setting' = setting
  PROVE  /\ PlainServer(c) => ServedOrIdle(c)
         /\ SecureServer(c) => ServedOrIdle(c)
<1>0. WellFormed /\ KeysComeFirst
  BY DEF TInv
<1>1. ASSUME PlainServer(c) PROVE ServedOrIdle(c)
  <2>1. PlainConnect(c) \/ PlainLeave(c) \/ PlainRoomStep(c)
    BY <1>1, Zenon DEF PlainServer, PlainRoomStep
  <2>2. QED
    BY <1>0, <2>1, PlainConnectLogin, PlainLeaveLogin, PlainRoomIsIdle DEF ServedOrIdle
<1>2. ASSUME SecureServer(c) PROVE ServedOrIdle(c)
  <2>1. \/ SecConnect(c) \/ SecConfirm(c) \/ SecDelAccount(c) \/ SecLeave(c) \/ SecStopped(c)
        \/ SecureRoomStep(c) \/ SecureTellStep(c) \/ SecMpDeal(c)
    BY <1>2, Zenon DEF SecureServer, SecureRoomStep, SecureTellStep
  <2>2. CASE SecConnect(c) \/ SecConfirm(c) \/ SecDelAccount(c) \/ SecLeave(c) \/ SecStopped(c)
    BY <1>0, <2>2, SecConnectLogin, SecConfirmLogin, SecDelAccountLogin, SecLeaveLogin, SecStoppedLogin
       DEF ServedOrIdle
  <2>3. CASE SecureRoomStep(c) \/ SecureTellStep(c) \/ SecMpDeal(c)
    BY <1>0, <2>3, SecureRoomIsIdle, SecureTellIsIdle, SecureDealIsIdle DEF ServedOrIdle
  <2>4. QED
    BY <2>1, <2>2, <2>3
<1>3. QED
  BY <1>1, <1>2

LEMMA ClientsServe ==
  ASSUME TInv, NEW c \in Client, LoginInv(c), setting' = setting
  PROVE  /\ Keyboard(c) => ServedOrIdle(c)
         /\ ReceiveSecure(c) => ServedOrIdle(c)
         /\ ReceivePlain(c) => ServedOrIdle(c)
<1>0. WellFormed /\ Bounded
  BY DEF TInv
<1>1. ASSUME CommandKept, OnlySent PROVE AllIdle
  BY <1>0, <1>1, CommandIsIdle
<1>2. ASSUME Keyboard(c) PROVE ServedOrIdle(c)
  <2>1. CASE TypeConnect(c) \/ TypeBye(c) \/ Interrupt(c)
    BY <1>0, <2>1, TypeConnectLogin, TypeByeLogin, EndsOfClients DEF ServedOrIdle
  <2>2. CASE \E r \in Room : TypeCreate(c, r) \/ TypeLeave(c, r) \/ TypeJoin(c, r)
    BY <1>0, <1>1, <2>2, TypeAboutRoomKept DEF ServedOrIdle
  <2>3. CASE \E r \in Room : TypeMessage(c, r)
    <3>1. \/ MayType(c, "MESSAGE") /\ ClientEnds(c, "crashed", <<>>, <<>>)
          \/ CommandKept /\ OnlySent
      BY <1>0, <2>3, TypeTextKept
    <3>2. CASE MayType(c, "MESSAGE") /\ ClientEnds(c, "crashed", <<>>, <<>>)
      BY <1>0, <3>2, EndsOfClients DEF ServedOrIdle
    <3>3. QED
      BY <1>1, <3>1, <3>2 DEF ServedOrIdle
  <2>4. CASE \E r \in Room, d \in Client : TypeDecision(c, r, d)
    BY <1>0, <1>1, <2>4, TypeDecisionKept DEF ServedOrIdle
  <2>5. CASE \E d \in Client : TypeMp(c, d)
    BY <1>0, <1>1, <2>5, TypeTextKept DEF ServedOrIdle
  <2>6. QED
    BY <1>2, <2>1, <2>2, <2>3, <2>4, <2>5, Zenon DEF Keyboard
<1>3. ASSUME ReceiveSecure(c) PROVE ServedOrIdle(c)
  <2>1. CASE HearConnectSec(c) \/ HearEnd(c)
    BY <1>0, <2>1, HearConnectSecLogin, EndsOfClients DEF ServedOrIdle
  <2>2. CASE \/ HearConnectSecKo(c) \/ HearConnected(c) \/ HearAsk(c) \/ HearCreateKo(c) \/ HearKeys(c)
             \/ HearJoin(c) \/ HearQuit(c) \/ HearMp(c)
    <3>1. HeardKept(c)
      BY <1>0, <2>2, HearPrintsKept, HearKeysKept, HearRoomsKept, HearMpKept
    <3>2. \E codes : FromSecure(c, codes)
      BY <2>2, Zenon DEF HearConnectSecKo, HearConnected, HearAsk, HearCreateKo, HearKeys, HearJoin, HearQuit, HearMp
    <3>3. QED
      BY <1>0, <3>1, <3>2, HeardIsIdle DEF ServedOrIdle
  <2>3. QED
    BY <1>3, <2>1, <2>2, Zenon DEF ReceiveSecure
<1>4. ASSUME ReceivePlain(c) PROVE ServedOrIdle(c)
  <2>1. CASE HearConnect(c) \/ HearConnectKo(c) \/ HearDisconnect(c)
    BY <1>0, <2>1, HearConnectLogin, HearConnectKoLogin, EndsOfClients DEF ServedOrIdle
  <2>2. CASE HearCreated(c) \/ HearPlainCreateKo(c) \/ HearText(c)
    <3>1. CommandKept /\ Head(fromPlain[c]).code \notin Session
      BY <1>0, <2>2, HearPlainKept
    <3>2. \E codes : FromPlain(c, codes)
      BY <2>2, Zenon DEF HearCreated, HearPlainCreateKo, HearText
    <3>3. QED
      BY <1>0, <3>1, <3>2, HeardPlainIsIdle DEF ServedOrIdle
  <2>3. QED
    BY <1>4, <2>1, <2>2, Zenon DEF ReceivePlain
<1>5. QED
  BY <1>2, <1>3, <1>4

LEMMA NextKeepsLogins == ASSUME TInv, AllLoginInv, [Next]_vars PROVE AllLoginInv'
<1>0. WellFormed /\ \A x \in Client : LoginInv(x)
  BY DEF TInv, AllLoginInv
<1>1. ASSUME AllIdle PROVE AllLoginInv'
  BY <1>0, <1>1, IdleKeeps DEF AllIdle, AllLoginInv
<1>2. ASSUME setting' = setting, NEW c \in Client, SessionStep(c) PROVE AllLoginInv'
  <2>1. LoginInv(c)' /\ Elsewhere(c)
    BY <1>2 DEF SessionStep
  <2>2. \A x \in Client \ {c} : LoginInv(x)'
    BY <1>0, <1>2, <2>1, ElsewhereIsIdle, IdleKeeps
  <2>3. QED
    BY <2>1, <2>2 DEF AllLoginInv
<1>3. ASSUME UNCHANGED vars \/ (Stopped /\ setting' = setting) PROVE AllLoginInv'
  <2>1. UNCHANGED <<setting, plain, secure, client, toPlain, toSecure, fromPlain, fromSecure>>
    BY <1>3 DEF vars, state, channels, Stopped
  <2>2. QED
    BY <1>1, <2>1, UnchangedIsIdle
<1>4. ASSUME setting' = setting, NEW c \in Client,
             Keyboard(c) \/ PlainServer(c) \/ SecureServer(c) \/ ReceiveSecure(c) \/ ReceivePlain(c)
      PROVE  AllLoginInv'
  <2>1. ServedOrIdle(c)
    BY <1>0, <1>4, ServersServe, ClientsServe
  <2>2. QED
    BY <1>1, <1>2, <1>4, <2>1 DEF ServedOrIdle
<1>5. QED
  BY <1>3, <1>4, Zenon DEF Next

LEMMA QuietAgrees == ASSUME TInv, AllLoginInv PROVE LoginAgrees
<1>1. SUFFICES ASSUME Quiet
               PROVE  /\ plain.users = {c \in Running : client[c].login} \ setting.refused
                      /\ secure.accounts \cap setting.refused = {}
                      /\ plain.users \cup {c \in Crashed : Stays(c)} \subseteq secure.users
                      /\ secure.users \subseteq plain.users \cup Crashed
                      /\ secure.users \subseteq secure.accounts
                      /\ secure.accounts \cap setting.taken \subseteq Crashed
  BY DEF LoginAgrees
<1>2. ASSUME NEW c \in Client
      PROVE  \A code : /\ ~ Has(toPlain[c], code) /\ ~ Has(toSecure[c], code)
                       /\ ~ Has(fromPlain[c], code) /\ ~ Has(fromSecure[c], code)
  BY <1>1, EmptySays DEF Quiet
<1>3. /\ plain.users \subseteq Client /\ secure.users \subseteq Client /\ secure.accounts \subseteq Client
      /\ \A c \in Client : client[c].status \in {"running", "exited", "crashed"}
  BY DEF TInv, WellFormed, PlainState, SecureState, ClientState
<1>4. ASSUME NEW c \in Running, client[c].login, c \notin setting.refused
      PROVE  c \in plain.users /\ c \in secure.users
  <2>1. c \in Client /\ LoginInv(c)
    BY DEF Running, AllLoginInv
  <2>2. c \notin plain.ended /\ c \notin secure.ended
    BY <1>2, <2>1 DEF LoginInv, Ends
  <2>3. QED
    BY <1>2, <1>4, <2>1, <2>2 DEF LoginInv, GoesOn
<1>5. ASSUME NEW c \in plain.users PROVE c \in Running /\ client[c].login /\ c \notin setting.refused
  <2>1. c \in Client /\ LoginInv(c)
    BY <1>3 DEF AllLoginInv
  <2>2. client[c].login
    BY <2>1 DEF LoginInv, Unknown
  <2>3. c \in Running
    BY <1>2, <2>1 DEF LoginInv, Ends
  <2>4. c \notin setting.refused
    BY <2>1 DEF LoginInv, Accounted
  <2>5. QED
    BY <2>2, <2>3, <2>4
<1>6. ASSUME NEW c \in Crashed, Stays(c) PROVE c \in secure.users
  <2>1. c \in Client /\ LoginInv(c) /\ client[c].status = "crashed"
    BY DEF Crashed, AllLoginInv
  <2>2. client[c].login
    BY <2>1 DEF LoginInv, Unknown
  <2>3. QED
    BY <1>2, <1>6, <2>1, <2>2 DEF LoginInv, Remains
<1>7. ASSUME NEW c \in secure.users PROVE c \in plain.users \cup Crashed
  <2>1. c \in Client /\ LoginInv(c)
    BY <1>3 DEF AllLoginInv
  <2>2. client[c].login
    BY <2>1 DEF LoginInv, Unknown
  <2>3. client[c].status # "exited"
    BY <1>2, <2>1 DEF LoginInv, Ends
  <2>4. c \notin setting.refused
    BY <2>1 DEF LoginInv, Accounted
  <2>5. QED
    BY <1>3, <1>4, <2>1, <2>2, <2>3, <2>4 DEF Running, Crashed
<1>8. ASSUME NEW c \in secure.users PROVE c \in secure.accounts
  <2>1. c \in Client /\ LoginInv(c)
    BY <1>3 DEF AllLoginInv
  <2>2. QED
    BY <1>2, <2>1 DEF LoginInv, Accounted
<1>9. ASSUME NEW c \in secure.accounts \cap setting.taken PROVE c \in Crashed
  <2>1. c \in Client /\ LoginInv(c)
    BY <1>3 DEF AllLoginInv
  <2>2. c \in secure.users /\ c \notin plain.users
    BY <2>1 DEF LoginInv, Accounted
  <2>3. QED
    BY <1>7, <2>2
<1>10. secure.accounts \cap setting.refused = {}
  BY <1>3 DEF AllLoginInv, LoginInv, Accounted
<1>11. QED
  BY <1>4, <1>5, <1>6, <1>7, <1>8, <1>9, <1>10

(***************************************************************************)
(* The two servers agree on who is in whenever nothing is on its way, for  *)
(* any number of clients that type what they like, leave, are turned away  *)
(* by either server or crash: a login is passed from server to client   *)
(* to server without being lost or doubled, and whatever takes a client    *)
(* off the one server has asked the other (clientsec-cli.c:112,284,313).   *)
(***************************************************************************)
THEOREM LoginsAgree == Spec => []LoginAgrees
<1>1. Init => TInv /\ AllLoginInv
  BY InitTyped, InitLogin
<1>2. TInv /\ AllLoginInv /\ [Next]_vars => (TInv /\ AllLoginInv)'
  BY NextKeepsTypes, NextKeepsLogins
<1>3. TInv /\ AllLoginInv => LoginAgrees
  BY QuietAgrees
<1>4. QED
  BY <1>1, <1>2, <1>3, PTL DEF Spec

----------------------------------------------------------------------------
(***************************************************************************)
(* Only those who may ask for keys of conversations do.                    *)
(***************************************************************************)
CallsStay == \A x \in Client : Has(toSecure'[x], "MP_SEC") => Has(toSecure[x], "MP_SEC") \/ Calls(x)

LEMMA SentWithoutCalls ==
  ASSUME WellFormed, NEW c \in Client
  PROVE  /\ UNCHANGED toSecure => CallsStay
         /\ \A m \in Mail : SendSecure(c, m) /\ (m.code # "MP_SEC" \/ Calls(c)) => CallsStay
         /\ \A r \in Room, code \in RoomCode : SendSecure(c, About(code, r)) => CallsStay
         /\ \A code \in Session : SendSecure(c, Signal(code)) => CallsStay
<1>0. \A x \in Client : toSecure[x] \in Seq(Mail)
  BY QueueSays DEF WellFormed
<1>1. ASSUME NEW m \in Mail, SendSecure(c, m), m.code # "MP_SEC" \/ Calls(c) PROVE CallsStay
  <2>1. \A x \in Client : toSecure'[x] = IF x \in {c} \ secure.ended THEN Append(toSecure[x], m)
                                                                    ELSE toSecure[x]
    BY <1>1, SendSays
  <2>2. QED
    BY <1>0, <1>1, <2>1, AppendSays DEF CallsStay
<1>2. ASSUME NEW r \in Room, NEW code \in RoomCode PROVE About(code, r) \in Mail /\ About(code, r).code # "MP_SEC"
  BY <1>2, RoomCodeIsMail DEF RoomCode, About, Msg
<1>3. ASSUME NEW code \in Session PROVE Signal(code) \in Mail /\ Signal(code).code # "MP_SEC"
  BY <1>3, SignalIsMail DEF Session
<1>4. UNCHANGED toSecure => CallsStay
  BY DEF CallsStay
<1>5. QED
  BY <1>1, <1>2, <1>3, <1>4, Zenon

LEMMA LastWordsWithoutCalls ==
  ASSUME WellFormed, NEW c \in Client, NEW status, NEW ps,
         \/ ClientEnds(c, status, ps, <<>>)
         \/ ClientEnds(c, status, ps, <<Signal("DISCONNECT_SEC")>>)
  PROVE  CallsStay
<1>1. toSecure \in Queues
  BY DEF WellFormed
<1>2. \/ toSecure' = Bye(toSecure, {c} \ secure.ended, <<>>)
      \/ toSecure' = Bye(toSecure, {c} \ secure.ended, LastWord("DISCONNECT_SEC"))
  BY Zenon DEF ClientEnds, LastWord
<1>3. ASSUME NEW x \in Client, Has(toSecure'[x], "MP_SEC") PROVE Has(toSecure[x], "MP_SEC")
  <2>1. "DISCONNECT_SEC" \in Session \ {"EOF"}
    BY DEF Session
  <2>2. CASE x \in {c} \ secure.ended
    <3>1. PICK t : /\ t = toSecure'[x]
                   /\ \/ EndsWith(toSecure[x], t, FALSE, "DISCONNECT_SEC")
                      \/ EndsWith(toSecure[x], t, TRUE, "DISCONNECT_SEC")
      <4>1. EndsWith(toSecure[x], Bye(toSecure, {c} \ secure.ended, <<>>)[x], FALSE, "DISCONNECT_SEC")
        BY <1>1, <2>1, <2>2, LastWordsSay, Zenon
      <4>2. EndsWith(toSecure[x], Bye(toSecure, {c} \ secure.ended, LastWord("DISCONNECT_SEC"))[x], TRUE,
                     "DISCONNECT_SEC")
        BY <1>1, <2>1, <2>2, LastWordsSay, Zenon
      <4>3. QED
        BY <1>2, <4>1, <4>2, Zenon
    <3>2. Has(t, "MP_SEC")
      BY <1>3, <3>1
    <3>3. ASSUME NEW words, EndsWith(toSecure[x], t, words, "DISCONNECT_SEC") PROVE Has(toSecure[x], "MP_SEC")
      BY <3>2, <3>3 DEF EndsWith
    <3>4. QED
      BY <3>1, <3>3
  <2>3. CASE x \notin {c} \ secure.ended
    <3>1. Bye(toSecure, {c} \ secure.ended, <<>>)[x] = toSecure[x]
      BY <2>3 DEF Bye
    <3>2. Bye(toSecure, {c} \ secure.ended, LastWord("DISCONNECT_SEC"))[x] = toSecure[x]
      BY <2>3 DEF Bye
    <3>3. toSecure'[x] = toSecure[x]
      BY <1>2, <3>1, <3>2, Zenon
    <3>4. QED
      BY <1>3, <3>3
  <2>4. QED
    BY <2>2, <2>3
<1>4. QED
  BY <1>3 DEF CallsStay

LEMMA KeyboardCalls ==
  ASSUME WellFormed, NEW c \in Client, Keyboard(c)
  PROVE  CallsStay
<1>1. /\ "CREATE_ROOM_SEC" \in RoomCode /\ "QUIT_ROOM_SEC" \in RoomCode
      /\ "DELETE_ROOM_SEC" \in RoomCode /\ "JOIN_ROOM_SEC" \in RoomCode
  BY DEF RoomCode
<1>2. CASE TypeConnect(c)
  <2>1. SendSecure(c, Signal("CONNECT_SEC"))
    BY <1>2, Zenon DEF TypeConnect
  <2>2. QED
    BY <2>1, SentWithoutCalls, SessionSays
<1>3. CASE TypeBye(c)
  <2>1. CASE SendSecure(c, Signal("DISCONNECT_SEC"))
    BY <2>1, SentWithoutCalls, SessionSays
  <2>2. CASE toSecure' = Put(Put(toSecure, {c} \ secure.ended, Signal("DEL_ACCOUNT_SEC")),
                             {c} \ secure.ended, Signal("DISCONNECT_SEC"))
    <3>1. PICK m \in Mail, n \in Mail :
            /\ m.code # "MP_SEC" /\ n.code # "MP_SEC"
            /\ toSecure' = Put(Put(toSecure, {c} \ secure.ended, m), {c} \ secure.ended, n)
      BY <2>2, SignalIsMail DEF Session
    <3>2. /\ toSecure \in Queues /\ Put(toSecure, {c} \ secure.ended, m) \in Queues
      BY PutSays DEF WellFormed
    <3>3. ASSUME NEW x \in Client, Has(toSecure'[x], "MP_SEC") PROVE Has(toSecure[x], "MP_SEC")
      <4>1. toSecure[x] \in Seq(Mail) /\ Put(toSecure, {c} \ secure.ended, m)[x] \in Seq(Mail)
        BY <3>2, QueueSays
      <4>2. Has(Put(toSecure, {c} \ secure.ended, m)[x], "MP_SEC")
        BY <3>1, <3>2, <3>3, <4>1, PutSays, AppendSays
      <4>3. QED
        BY <3>1, <3>2, <4>1, <4>2, PutSays, AppendSays
    <3>4. QED
      BY <3>3 DEF CallsStay
  <2>3. QED
    BY <1>3, <2>1, <2>2, Zenon DEF TypeBye, SendBoth
<1>4. CASE Interrupt(c)
  BY <1>4, LastWordsWithoutCalls, Zenon DEF Interrupt
<1>5. CASE \E r \in Room : TypeCreate(c, r) \/ TypeLeave(c, r) \/ TypeJoin(c, r)
  <2>1. \E r \in Room, code \in RoomCode : SendSecure(c, About(code, r))
    BY <1>1, <1>5, Zenon DEF TypeCreate, TypeLeave, TypeJoin, SendBoth
  <2>2. QED
    BY <2>1, SentWithoutCalls
<1>6. CASE \E r \in Room : TypeMessage(c, r)
  <2>1. UNCHANGED toSecure \/ ClientEnds(c, "crashed", <<>>, <<>>)
    BY <1>6, Zenon DEF TypeMessage
  <2>2. QED
    BY <2>1, SentWithoutCalls, LastWordsWithoutCalls, Zenon
<1>7. ASSUME NEW r \in Room, NEW d \in Client, TypeDecision(c, r, d) PROVE CallsStay
  <2>1. PICK code \in {"ACCEPT_JOIN_ROOM_SEC", "EJECT_FROM_ROOM_SEC"} : SendSecure(c, Msg(code, r, d, NoKey))
    BY <1>7 DEF TypeDecision
  <2>2. Msg(code, r, d, NoKey) \in Mail /\ Msg(code, r, d, NoKey).code = code /\ code # "MP_SEC"
    <3>1. code \in Code \ (AboutClient \cup {"ASK_JOIN_ROOM_SEC"})
      BY DEF Code, AboutClient
    <3>2. Msg(code, r, d, NoKey) \in Mail
      BY <3>1 DEF Msg, Mail, Message, Name, AboutClient
    <3>3. QED
      BY <3>2 DEF Msg
  <2>3. QED
    BY <2>1, <2>2, SentWithoutCalls
<1>8. ASSUME NEW d \in Client, TypeMp(c, d) PROVE CallsStay
  <2>1. Calls(c) /\ (UNCHANGED toSecure \/ SendSecure(c, About("MP_SEC", d)))
    BY <1>8 DEF TypeMp, MayType, Calls
  <2>2. About("MP_SEC", d) \in Mail
    <3>1. 1 \in Key
      BY DEF Key, NoKey
    <3>2. QED
      BY <3>1, ConversationIsMail
  <2>3. QED
    BY <2>1, <2>2, SentWithoutCalls
<1>9. QED
  BY <1>2, <1>3, <1>4, <1>5, <1>6, <1>7, <1>8, Zenon DEF Keyboard

LEMMA ReceiveCalls ==
  ASSUME WellFormed, NEW c \in Client
  PROVE  /\ ReceiveSecure(c) => CallsStay
         /\ ReceivePlain(c) => CallsStay
<1>1. ASSUME ReceiveSecure(c) PROVE CallsStay
  <2>1. \/ UNCHANGED toSecure
        \/ ClientEnds(c, "exited", <<>>, <<>>)
        \/ ClientEnds(c, "exited", <<Signal("DISCONNECT")>>, <<Signal("DISCONNECT_SEC")>>)
    BY <1>1 DEF ReceiveSecure, HearConnectSec, HearConnectSecKo, HearConnected, HearAsk, HearKeys, HearJoin, HearQuit,
                HearMp, HearCreateKo, HearEnd, SendNothing
  <2>2. QED
    BY <2>1, SentWithoutCalls, LastWordsWithoutCalls, Zenon
<1>2. ASSUME ReceivePlain(c) PROVE CallsStay
  <2>1. CASE HearConnect(c) \/ HearConnectKo(c)
    <3>1. SendSecure(c, Signal("CONNECT_OK")) \/ SendSecure(c, Signal("DISCONNECT_SEC"))
      BY <2>1, Zenon DEF HearConnect, HearConnectKo
    <3>2. QED
      BY <3>1, SentWithoutCalls, SessionSays
  <2>2. CASE HearCreated(c) \/ HearText(c)
    <3>1. UNCHANGED toSecure
      BY <2>2 DEF HearCreated, HearText, SendNothing
    <3>2. QED
      BY <3>1, SentWithoutCalls
  <2>3. CASE HearPlainCreateKo(c)
    <3>1. \/ UNCHANGED toSecure
          \/ SendSecure(c, About("DELETE_ROOM_SEC", Head(fromPlain[c]).name))
      BY <2>3, Zenon DEF HearPlainCreateKo, SendNothing, SendBoth
    <3>2. Head(fromPlain[c]).name \in Room
      <4>1. FromPlain(c, {"CREATE_ROOM_KO"})
        BY <2>3, Zenon DEF HearPlainCreateKo
      <4>2. Head(fromPlain[c]) \in Mail /\ Head(fromPlain[c]).code = "CREATE_ROOM_KO"
        BY <4>1, FromPlainSays
      <4>3. QED
        BY <4>2, MailSays DEF AboutRoom
    <3>3. "DELETE_ROOM_SEC" \in RoomCode
      BY DEF RoomCode
    <3>4. QED
      BY <3>1, <3>2, <3>3, SentWithoutCalls
  <2>4. CASE HearDisconnect(c)
    BY <2>4, LastWordsWithoutCalls, Zenon DEF HearDisconnect
  <2>5. QED
    BY <1>2, <2>1, <2>2, <2>3, <2>4, Zenon DEF ReceivePlain
<1>3. QED
  BY <1>1, <1>2

LEMMA SecureServerCalls ==
  ASSUME WellFormed, NEW c \in Client, SecureServer(c)
  PROVE  CallsStay
<1>1. ASSUME NEW code, SecureServes(c, code) PROVE CallsStay
  <2>1. /\ toSecure[c] # <<>> /\ toSecure[c] \in Seq(Mail) /\ toSecure'[c] = Tail(toSecure[c])
        /\ \A x \in Client \ {c} : toSecure'[x] = toSecure[x]
    BY <1>1, SecureServesSays
  <2>2. QED
    BY <2>1, TailSays DEF CallsStay
<1>2. ASSUME NEW code, SecureEnds(c, code) PROVE CallsStay
  <2>1. toSecure'[c] = <<>> /\ \A x \in Client \ {c} : toSecure'[x] = toSecure[x]
    BY <1>2, SecureEndsSays
  <2>2. QED
    BY <2>1, EmptySays DEF CallsStay
<1>3. ASSUME SecMpDeal(c) \/ SecTellFirst(c) \/ SecTellNext(c) \/ SecTold(c) PROVE CallsStay
  <2>1. UNCHANGED toSecure
    BY <1>3, Zenon DEF SecMpDeal, SecTellFirst, SecTellNext, SecTold, SecTells
  <2>2. QED
    BY <2>1, SentWithoutCalls
<1>4. \/ \E code : SecureServes(c, code)
      \/ \E code : SecureEnds(c, code)
      \/ SecMpDeal(c) \/ SecTellFirst(c) \/ SecTellNext(c) \/ SecTold(c)
  BY Zenon DEF SecureServer, SecConnect, SecConfirm, SecCreate, SecJoin, SecAccept, SecEject, SecQuit,
               SecDelete, SecMp, SecDelAccount, SecLeave, SecStopped
<1>5. QED
  BY <1>1, <1>2, <1>3, <1>4

LEMMA NextCalls == ASSUME WellFormed, [Next]_vars PROVE CallsStay /\ setting' = setting
<1>1. ASSUME NEW c \in Client,
             Keyboard(c) \/ PlainServer(c) \/ SecureServer(c) \/ ReceiveSecure(c) \/ ReceivePlain(c)
      PROVE  CallsStay
  <2>1. CASE PlainServer(c)
    <3>1. UNCHANGED toSecure
      BY <2>1, PlainServerTyped
    <3>2. QED
      BY <3>1, SentWithoutCalls
  <2>2. QED
    BY <1>1, <2>1, KeyboardCalls, SecureServerCalls, ReceiveCalls
<1>2. ASSUME UNCHANGED vars \/ Stopped PROVE CallsStay
  BY <1>2 DEF vars, state, channels, Stopped, CallsStay
<1>3. setting' = setting
  BY DEF Next, vars
<1>4. QED
  BY <1>1, <1>2, <1>3, Zenon DEF Next

LEMMA CallersCallNext ==
  ASSUME TInv, CallersCall, [Next]_vars
  PROVE  CallersCall'
<1>1. CallsStay /\ setting' = setting /\ WellFormed /\ KeyStep
  BY NextCalls, NextTyped DEF TInv
<1>2. \A x \in Client : Calls(x)' <=> Calls(x)
  BY <1>1 DEF Calls
<1>3. SUFFICES ASSUME NEW x \in Client, secure'.dealing[x] # NotDealing PROVE Calls(x)
  BY <1>1, <1>2 DEF CallersCall, CallsStay
<1>4. CASE secure.dealing[x] # NotDealing
  BY <1>4 DEF CallersCall
<1>5. CASE secure.dealing[x] = NotDealing
  <2>1. secure'.dealing # secure.dealing
    BY <1>3, <1>5
  <2>2. PICK c \in Client : SecMp(c) \/ SecMpDeal(c)
    BY <1>1, <2>1 DEF KeyStep, Plainly, Learns, Stops, DealStep
  <2>3. secure \in SecureState /\ secure.dealing \in [Client -> Message] /\ KeysComeFirst
    BY <1>1 DEF TInv, WellFormed, SecureState
  <2>4. CASE SecMpDeal(c)
    <3>1. secure'.dealing = [secure.dealing EXCEPT ![c] = NotDealing]
      BY <1>1, <2>3, <2>4, SecureMpDealTyped
    <3>2. QED
      BY <1>3, <1>5, <2>3, <3>1
  <2>5. CASE SecMp(c)
    <3>1. PICK m : secure'.dealing = [secure.dealing EXCEPT ![c] = m]
      BY <1>1, <2>1, <2>5, SecureMpTyped
    <3>2. x = c
      BY <1>3, <1>5, <2>3, <3>1
    <3>3. SecureServes(c, "MP_SEC")
      BY <2>5, Zenon DEF SecMp
    <3>4. Has(toSecure[c], "MP_SEC")
      BY <1>1, <3>3, SecureServesSays, TailSays
    <3>5. QED
      BY <3>2, <3>4 DEF CallersCall
  <2>6. QED
    BY <2>2, <2>4, <2>5
<1>6. QED
  BY <1>4, <1>5

----------------------------------------------------------------------------
(***************************************************************************)
(* The keys a client will hold, as its queue grows and is read.            *)
(***************************************************************************)
LEMMA GetGrows ==
  ASSUME NEW had, NEW d, NEW k, NEW q, NEW s, Len(q) \in Nat, Len(s) \in Nat, Len(q) <= Len(s),
         \A i \in 1 .. Len(q) : s[i] = q[i],
         \A i \in Len(q) + 1 .. Len(s) : ~ IsDeal(s[i], d),
         WillGet(had, q, d, k)
  PROVE  WillGet(had, s, d, k)
<1>1. CASE had = k /\ \A i \in 1 .. Len(q) : ~ IsDeal(q[i], d)
  <2>1. \A i \in 1 .. Len(s) : ~ IsDeal(s[i], d)
    BY <1>1
  <2>2. QED
    BY <1>1, <2>1 DEF WillGet
<1>2. CASE \E i \in 1 .. Len(q) :
             IsDeal(q[i], d) /\ q[i].k = k /\ \A j \in i + 1 .. Len(q) : ~ IsDeal(q[j], d)
  <2>1. PICK i \in 1 .. Len(q) :
          IsDeal(q[i], d) /\ q[i].k = k /\ \A j \in i + 1 .. Len(q) : ~ IsDeal(q[j], d)
    BY <1>2
  <2>2. i \in 1 .. Len(s) /\ s[i] = q[i]
    OBVIOUS
  <2>3. \A j \in i + 1 .. Len(s) : ~ IsDeal(s[j], d)
    BY <2>1
  <2>4. QED
    BY <2>1, <2>2, <2>3 DEF WillGet
<1>3. QED
  BY <1>1, <1>2 DEF WillGet

LEMMA GetTail ==
  ASSUME NEW had, NEW d, NEW k, NEW q \in Seq(Mail), q # <<>>, WillGet(had, q, d, k),
         NEW has, has = IF IsDeal(Head(q), d) THEN Head(q).k ELSE had
  PROVE  WillGet(has, Tail(q), d, k)
<1>1. /\ Head(q) = q[1] /\ Len(q) \in Nat \ {0} /\ Len(Tail(q)) = Len(q) - 1
      /\ \A i \in 1 .. Len(q) - 1 : Tail(q)[i] = q[i + 1]
  BY TailSays
<1>2. SUFFICES ASSUME NEW t, t = Tail(q) PROVE WillGet(has, t, d, k)
  OBVIOUS
<1>3. Len(t) = Len(q) - 1 /\ \A i \in 1 .. Len(q) - 1 : t[i] = q[i + 1]
  BY <1>1, <1>2
<1>4. CASE had = k /\ \A i \in 1 .. Len(q) : ~ IsDeal(q[i], d)
  <2>1. has = k
    BY <1>1, <1>4
  <2>2. \A i \in 1 .. Len(t) : ~ IsDeal(t[i], d)
    BY <1>1, <1>3, <1>4
  <2>3. QED
    BY <2>1, <2>2 DEF WillGet
<1>5. ASSUME NEW i \in 1 .. Len(q), IsDeal(q[i], d), q[i].k = k, \A j \in i + 1 .. Len(q) : ~ IsDeal(q[j], d)
      PROVE  WillGet(has, t, d, k)
  <2>1. CASE i = 1
    <3>1. has = k
      BY <1>1, <1>5, <2>1
    <3>2. \A j \in 1 .. Len(t) : ~ IsDeal(t[j], d)
      BY <1>1, <1>3, <1>5, <2>1
    <3>3. QED
      BY <3>1, <3>2 DEF WillGet
  <2>2. CASE i # 1
    <3>1. i - 1 \in 1 .. Len(t) /\ t[i - 1] = q[i]
      BY <1>1, <1>3, <2>2
    <3>2. \A j \in i - 1 + 1 .. Len(t) : ~ IsDeal(t[j], d)
      <4>1. SUFFICES ASSUME NEW j \in i - 1 + 1 .. Len(t) PROVE ~ IsDeal(t[j], d)
        OBVIOUS
      <4>2. j + 1 \in i + 1 .. Len(q) /\ t[j] = q[j + 1]
        BY <1>1, <1>3
      <4>3. QED
        BY <1>5, <4>2
    <3>3. QED
      BY <1>5, <3>1, <3>2 DEF WillGet
  <2>3. QED
    BY <2>1, <2>2
<1>6. QED
  BY <1>4, <1>5 DEF WillGet

LEMMA GetDealt ==
  ASSUME NEW had, NEW d, NEW q \in Seq(Mail), NEW m \in Mail, IsDeal(m, d)
  PROVE  WillGet(had, Append(q, m), d, m.k)
<1>1. SUFFICES ASSUME NEW s, s = Append(q, m) PROVE WillGet(had, s, d, m.k)
  OBVIOUS
<1>2. Len(q) \in Nat /\ Len(s) = Len(q) + 1 /\ s[Len(q) + 1] = m
  BY <1>1, AppendSays
<1>3. Len(s) \in 1 .. Len(s) /\ s[Len(s)] = m /\ \A j \in Len(s) + 1 .. Len(s) : FALSE
  BY <1>2
<1>4. QED
  BY <1>3 DEF WillGet

LEMMA GetOther ==
  ASSUME NEW had, NEW d, NEW k, NEW q \in Seq(Mail), NEW m \in Mail, ~ IsDeal(m, d), WillGet(had, q, d, k)
  PROVE  WillGet(had, Append(q, m), d, k)
<1>1. SUFFICES ASSUME NEW s, s = Append(q, m) PROVE WillGet(had, s, d, k)
  OBVIOUS
<1>2. /\ Len(q) \in Nat /\ Len(s) = Len(q) + 1 /\ s[Len(q) + 1] = m
      /\ \A i \in 1 .. Len(q) : s[i] = q[i]
  BY <1>1, AppendSays
<1>3. Len(s) \in Nat /\ Len(q) <= Len(s) /\ \A i \in Len(q) + 1 .. Len(s) : ~ IsDeal(s[i], d)
  BY <1>2
<1>4. QED
  BY <1>2, <1>3, GetGrows

\* Whoever runs on will hold what it would have held.
HoldsOn(x, d) == \A k : WillHold(x, d, k) => WillGet(client'[x].keys[d], fromSecure'[x], d, k)

DealtNext(c, d) == secure'.dealing[c] # NotDealing /\ secure'.dealing[c].name = d

LEMMA PairedStays ==
  ASSUME NEW x, NEW y, Paired(x, y), HoldsOn(x, y), HoldsOn(y, x),
         DealtNext(x, y) <=> Dealt(x, y), DealtNext(y, x) <=> Dealt(y, x),
         Dealt(x, y) => secure'.dealing[x].k = secure.dealing[x].k,
         Dealt(y, x) => secure'.dealing[y].k = secure.dealing[y].k
  PROVE  Paired(x, y)'
  BY DEF Paired, HoldsOn, DealtNext, Dealt, WillHold

LEMMA PairsStay ==
  ASSUME Pairs, secure'.dealing = secure.dealing,
         \A x \in Running' : x \in Running /\ \A d \in Client : HoldsOn(x, d)
  PROVE  Pairs'
<1>1. SUFFICES ASSUME NEW x \in Running', NEW y \in Running', x # y PROVE Paired(x, y)'
  BY DEF Pairs
<1>2. x \in Client /\ y \in Client /\ x \in Running /\ y \in Running /\ Paired(x, y)
  BY <1>1 DEF Pairs, Running
<1>3. HoldsOn(x, y) /\ HoldsOn(y, x)
  BY <1>1, <1>2
<1>4. /\ DealtNext(x, y) <=> Dealt(x, y)
      /\ DealtNext(y, x) <=> Dealt(y, x)
      /\ secure'.dealing[x].k = secure.dealing[x].k /\ secure'.dealing[y].k = secure.dealing[y].k
  BY DEF DealtNext, Dealt
<1>5. QED
  BY <1>2, <1>3, <1>4, PairedStays

LEMMA PlainlyPairs ==
  ASSUME WellFormed, fromSecure' \in Queues, Pairs, Plainly
  PROVE  Pairs'
<1>1. ASSUME NEW x \in Client, NEW d \in Client, NEW k, WillHold(x, d, k)
      PROVE  WillGet(client'[x].keys[d], fromSecure'[x], d, k)
  <2>1. client'[x].keys[d] = client[x].keys[d]
    BY DEF Plainly, KeysKept
  <2>2. Len(fromSecure[x]) \in Nat /\ Len(fromSecure'[x]) \in Nat
    BY QueueSays DEF WellFormed
  <2>3. /\ Len(fromSecure[x]) <= Len(fromSecure'[x])
        /\ \A i \in 1 .. Len(fromSecure[x]) : fromSecure'[x][i] = fromSecure[x][i]
        /\ \A i \in Len(fromSecure[x]) + 1 .. Len(fromSecure'[x]) : fromSecure'[x][i].code # "MP_SEC_OK"
    BY DEF Plainly, Grows, Conversation
  <2>4. \A i \in Len(fromSecure[x]) + 1 .. Len(fromSecure'[x]) : ~ IsDeal(fromSecure'[x][i], d)
    BY <2>3 DEF IsDeal
  <2>5. WillGet(client[x].keys[d], fromSecure[x], d, k)
    BY <1>1 DEF WillHold
  <2>6. WillGet(client[x].keys[d], fromSecure'[x], d, k)
    BY <2>2, <2>3, <2>4, <2>5, GetGrows
  <2>7. QED
    BY <2>1, <2>6
<1>2. \A x \in Running' : x \in Client /\ x \in Running
  BY DEF Plainly, Running
<1>3. secure'.dealing = secure.dealing
  BY DEF Plainly
<1>4. QED
  BY <1>1, <1>2, <1>3, PairsStay DEF HoldsOn

LEMMA StopsPairs ==
  ASSUME WellFormed, Pairs, NEW e \in Client, Stops(e)
  PROVE  Pairs'
<1>1. /\ secure'.dealing = secure.dealing /\ fromSecure \in Queues
      /\ \A x \in Running' : x \in Client \ {e} /\ x \in Running
  BY DEF Stops, Running, WellFormed
<1>2. ASSUME NEW x \in Client \ {e}, NEW d \in Client PROVE HoldsOn(x, d)
  <2>1. fromSecure'[x] = fromSecure[x] /\ client'[x].keys[d] = client[x].keys[d]
    BY <1>1, CutSays DEF Stops
  <2>2. QED
    BY <2>1 DEF HoldsOn, WillHold
<1>3. QED
  BY <1>1, <1>2, PairsStay

LEMMA LearnsPairs ==
  ASSUME WellFormed, Pairs, NEW e \in Client, Learns(e)
  PROVE  Pairs'
<1>1. /\ secure'.dealing = secure.dealing /\ fromSecure \in Queues
      /\ \A x \in Running' : x \in Client /\ x \in Running
  BY DEF Learns, Running, WellFormed
<1>2. ASSUME NEW x \in Client \ {e}, NEW d \in Client PROVE HoldsOn(x, d)
  <2>1. fromSecure'[x] = fromSecure[x] /\ client'[x].keys[d] = client[x].keys[d]
    BY <1>1, PopSays DEF Learns
  <2>2. QED
    BY <2>1 DEF HoldsOn, WillHold
<1>3. ASSUME NEW d \in Client, NEW k, WillHold(e, d, k)
      PROVE  WillGet(client'[e].keys[d], fromSecure'[e], d, k)
  <2>1. /\ fromSecure[e] # <<>> /\ fromSecure'[e] = Tail(fromSecure[e]) /\ fromSecure[e] \in Seq(Mail)
        /\ client'[e].keys[d] = IF IsDeal(Head(fromSecure[e]), d) THEN Head(fromSecure[e]).k
                                                               ELSE client[e].keys[d]
    BY <1>1, PopSays, QueueSays DEF Learns
  <2>2. WillGet(client[e].keys[d], fromSecure[e], d, k)
    BY <1>3 DEF WillHold
  <2>3. QED
    BY <2>1, <2>2, GetTail
<1>4. \A d \in Client : HoldsOn(e, d)
  BY <1>3 DEF HoldsOn
<1>5. QED
  BY <1>1, <1>2, <1>4, PairsStay

\* Keys are made: the one that asked will hold them, and the other one will be sent them.
LEMMA MpPairs ==
  ASSUME WellFormed, Pairs, NEW e \in Client, SecMp(e), KeysKept, Running' = Running
  PROVE  Pairs'
<1>0. /\ fromSecure \in Queues /\ secure \in SecureState /\ secure.dealing \in [Client -> Message]
      /\ \A x \in Client : fromSecure[x] \in Seq(Mail)
  BY QueueSays DEF WellFormed, SecureState
<1>1. CASE secure' = secure /\ fromSecure' = fromSecure
  <2>1. Plainly /\ fromSecure' \in Queues
    BY <1>0, <1>1, GrowsFromItself DEF Plainly
  <2>2. QED
    BY <2>1, PlainlyPairs
<1>2. ASSUME NEW d \in Client, NEW k \in Key, secure.dealing[e] = NotDealing,
             NEW n, n = Msg("MP_SEC", d, NULL, k), NEW m \in Mail, m = Msg("MP_SEC_OK", d, NULL, k),
             secure'.dealing = [secure.dealing EXCEPT ![e] = n],
             fromSecure' = Put(fromSecure, {e} \cap Running, m)
      PROVE  Pairs'
  <2>1. /\ n # NotDealing /\ n.name = d /\ n.k = k
        /\ m.k = k /\ \A x : IsDeal(m, x) <=> x = d
    BY <1>2 DEF Msg, NotDealing, About, IsDeal
  <2>2. /\ \A x \in Client : fromSecure'[x] = IF x = e /\ e \in Running THEN Append(fromSecure[x], m)
                                                                      ELSE fromSecure[x]
        /\ \A x, y \in Client : client'[x].keys[y] = client[x].keys[y]
    BY <1>0, <1>2, PutSays DEF KeysKept
  <2>3. ASSUME NEW x \in Client, NEW y \in Client, ~ (x = e /\ y = d)
        PROVE  /\ HoldsOn(x, y) /\ (DealtNext(x, y) <=> Dealt(x, y))
               /\ Dealt(x, y) => secure'.dealing[x].k = secure.dealing[x].k
    <3>1. ASSUME NEW i, WillHold(x, y, i) PROVE WillGet(client'[x].keys[y], fromSecure'[x], y, i)
      <4>1. WillGet(client[x].keys[y], fromSecure[x], y, i) /\ fromSecure[x] \in Seq(Mail)
        BY <1>0, <3>1 DEF WillHold
      <4>2. x = e => WillGet(client[x].keys[y], Append(fromSecure[x], m), y, i)
        BY <2>1, <2>3, <4>1, GetOther
      <4>3. QED
        BY <2>2, <4>1, <4>2
    <3>2. HoldsOn(x, y)
      BY <3>1 DEF HoldsOn
    <3>3. CASE x = e
      BY <1>0, <1>2, <2>1, <2>3, <3>2, <3>3 DEF DealtNext, Dealt
    <3>4. CASE x # e
      BY <1>0, <1>2, <3>2, <3>4 DEF DealtNext, Dealt
    <3>5. QED
      BY <3>3, <3>4
  <2>4. e \in Running => DealtNext(e, d) /\ WillGet(client'[e].keys[d], fromSecure'[e], d, secure'.dealing[e].k)
    <3>1. secure'.dealing[e] = n
      BY <1>0, <1>2
    <3>2. e \in Running => fromSecure'[e] = Append(fromSecure[e], m)
      BY <2>2
    <3>3. WillGet(client'[e].keys[d], Append(fromSecure[e], m), d, m.k)
      BY <1>0, <2>1, GetDealt
    <3>4. QED
      BY <2>1, <3>1, <3>2, <3>3 DEF DealtNext
  <2>5. SUFFICES ASSUME NEW x \in Running', NEW y \in Running', x # y PROVE Paired(x, y)'
    BY DEF Pairs
  <2>6. x \in Client /\ y \in Client /\ x \in Running /\ y \in Running /\ Paired(x, y)
    BY <2>5 DEF Pairs, Running
  <2>7. CASE (x = e /\ y = d) \/ (x = d /\ y = e)
    BY <2>4, <2>6, <2>7 DEF Paired, Dealt, DealtNext, WillHold
  <2>8. CASE ~ (x = e /\ y = d) /\ ~ (x = d /\ y = e)
    <3>1. /\ HoldsOn(x, y) /\ (DealtNext(x, y) <=> Dealt(x, y))
          /\ Dealt(x, y) => secure'.dealing[x].k = secure.dealing[x].k
      BY <2>3, <2>6, <2>8
    <3>2. /\ HoldsOn(y, x) /\ (DealtNext(y, x) <=> Dealt(y, x))
          /\ Dealt(y, x) => secure'.dealing[y].k = secure.dealing[y].k
      BY <2>3, <2>6, <2>8
    <3>3. QED
      BY <2>6, <3>1, <3>2, PairedStays, Zenon
  <2>9. QED
    BY <2>7, <2>8
<1>3. QED
  BY <1>1, <1>2, SecureMpTyped

\* The other one will hold the same.
LEMMA MpDealPairs ==
  ASSUME WellFormed, KeysComeFirst, CallersCall, OneCalls, Pairs, NEW e \in Client, SecMpDeal(e),
         KeysKept, Running' = Running
  PROVE  Pairs'
<1>0. /\ fromSecure \in Queues /\ secure \in SecureState /\ secure.dealing \in [Client -> Message]
      /\ \A x \in Client : fromSecure[x] \in Seq(Mail)
  BY QueueSays DEF WellFormed, SecureState
<1>1. PICK d \in Client, k \in Key :
        /\ d = secure.dealing[e].name /\ k = secure.dealing[e].k
        /\ Msg("MP_SEC_OK", e, NULL, k) \in Mail /\ About("MP_SEC", d) \in Mail
        /\ secure'.dealing = [secure.dealing EXCEPT ![e] = NotDealing]
        /\ Put(fromSecure, {d} \cap Running, Msg("MP_SEC_OK", e, NULL, k)) \in Queues
        /\ fromSecure' = Put(Put(fromSecure, {d} \cap Running, Msg("MP_SEC_OK", e, NULL, k)),
                             {e} \cap Running, About("MP_SEC", d))
  BY SecureMpDealTyped
<1>2. secure.dealing[e] # NotDealing
  BY SecureMpDealTyped
<1>3. SUFFICES ASSUME NEW m \in Mail, m = Msg("MP_SEC_OK", e, NULL, k), NEW n \in Mail, n = About("MP_SEC", d),
                      NEW s \in Queues, s = Put(fromSecure, {d} \cap Running, m),
                      fromSecure' = Put(s, {e} \cap Running, n)
               PROVE  Pairs'
  BY <1>1
<1>4. /\ m.k = k /\ \A x : IsDeal(m, x) <=> x = e
      /\ \A x : ~ IsDeal(n, x)
  BY <1>3 DEF Msg, About, IsDeal
<1>5. /\ \A x \in Client : s[x] = IF x = d /\ d \in Running THEN Append(fromSecure[x], m) ELSE fromSecure[x]
      /\ \A x \in Client : fromSecure'[x] = IF x = e /\ e \in Running THEN Append(s[x], n) ELSE s[x]
      /\ \A x \in Client : s[x] \in Seq(Mail)
      /\ \A x, y \in Client : client'[x].keys[y] = client[x].keys[y]
  BY <1>0, <1>3, PutSays, QueueSays DEF KeysKept
<1>6. ASSUME NEW x \in Client, NEW y \in Client, ~ (x = d /\ y = e)
      PROVE  HoldsOn(x, y)
  <2>1. ASSUME NEW i, WillHold(x, y, i) PROVE WillGet(client'[x].keys[y], fromSecure'[x], y, i)
    <3>1. WillGet(client[x].keys[y], fromSecure[x], y, i) /\ fromSecure[x] \in Seq(Mail)
      BY <1>0, <2>1 DEF WillHold
    <3>2. x = d => WillGet(client[x].keys[y], Append(fromSecure[x], m), y, i)
      BY <1>4, <1>6, <3>1, GetOther
    <3>3. WillGet(client[x].keys[y], s[x], y, i) /\ s[x] \in Seq(Mail)
      BY <1>5, <3>1, <3>2
    <3>4. WillGet(client[x].keys[y], Append(s[x], n), y, i)
      BY <1>4, <3>3, GetOther
    <3>5. QED
      BY <1>5, <3>3, <3>4
  <2>2. QED
    BY <2>1 DEF HoldsOn
<1>7. Dealt(e, d) /\ ~ DealtNext(e, d)
  BY <1>0, <1>1, <1>2 DEF Dealt, DealtNext
<1>8. ASSUME d # e PROVE ~ Dealt(d, e) /\ ~ DealtNext(d, e)
  <2>1. Calls(e)
    BY <1>2 DEF CallersCall
  <2>2. secure.dealing[d] # NotDealing => d = e
    BY <2>1 DEF CallersCall, OneCalls, Calls
  <2>3. secure'.dealing[d] = secure.dealing[d]
    BY <1>0, <1>1, <1>8
  <2>4. QED
    BY <1>8, <2>2, <2>3 DEF Dealt, DealtNext
<1>9. SUFFICES ASSUME NEW x \in Running', NEW y \in Running', x # y PROVE Paired(x, y)'
  BY DEF Pairs
<1>10. x \in Client /\ y \in Client /\ x \in Running /\ y \in Running /\ Paired(x, y)
  BY <1>9 DEF Pairs, Running
<1>11. ASSUME d # e, d \in Running, e \in Running
       PROVE  \E i : WillGet(client'[e].keys[d], fromSecure'[e], d, i)
                     /\ WillGet(client'[d].keys[e], fromSecure'[d], e, i)
  <2>1. WillHold(e, d, k)
    <3>1. Paired(e, d)
      BY <1>11 DEF Pairs
    <3>2. QED
      BY <1>1, <1>7, <1>8, <1>11, <3>1 DEF Paired
  <2>2. WillGet(client'[e].keys[d], fromSecure'[e], d, k)
    BY <1>6, <1>11, <2>1 DEF HoldsOn
  <2>3. fromSecure'[d] = Append(fromSecure[d], m)
    BY <1>5, <1>11
  <2>4. WillGet(client'[d].keys[e], Append(fromSecure[d], m), e, m.k)
    BY <1>0, <1>4, GetDealt
  <2>5. QED
    BY <1>4, <2>2, <2>3, <2>4
<1>12. CASE (x = e /\ y = d) \/ (x = d /\ y = e)
  BY <1>7, <1>8, <1>9, <1>10, <1>11, <1>12 DEF Paired, Dealt, DealtNext, WillHold
<1>13. CASE ~ (x = e /\ y = d) /\ ~ (x = d /\ y = e)
  <2>1. ASSUME NEW v \in Client, NEW w \in Client, ~ (v = e /\ w = d)
        PROVE  /\ DealtNext(v, w) <=> Dealt(v, w)
               /\ Dealt(v, w) => secure'.dealing[v].k = secure.dealing[v].k
    <3>1. CASE v = e
      BY <1>0, <1>1, <2>1, <3>1 DEF Dealt, DealtNext
    <3>2. CASE v # e
      BY <1>0, <1>1, <3>2 DEF Dealt, DealtNext
    <3>3. QED
      BY <3>1, <3>2
  <2>2. HoldsOn(x, y) /\ HoldsOn(y, x)
    BY <1>6, <1>10, <1>13
  <2>3. /\ DealtNext(x, y) <=> Dealt(x, y)
        /\ Dealt(x, y) => secure'.dealing[x].k = secure.dealing[x].k
    BY <1>10, <1>13, <2>1
  <2>4. /\ DealtNext(y, x) <=> Dealt(y, x)
        /\ Dealt(y, x) => secure'.dealing[y].k = secure.dealing[y].k
    BY <1>10, <1>13, <2>1
  <2>5. QED
    BY <1>10, <2>2, <2>3, <2>4, PairedStays, Zenon
<1>14. QED
  BY <1>12, <1>13

LEMMA PairsNext ==
  ASSUME TInv, PairsInv, [Next]_vars
  PROVE  PairsInv'
<1>1. CallersCall'
  BY CallersCallNext DEF PairsInv
<1>2. /\ WellFormed /\ KeysComeFirst /\ CallersCall /\ KeyStep /\ fromSecure' \in Queues
      /\ OneCalls' => OneCalls
  <2>1. setting' = setting /\ WellFormed /\ WellFormed' /\ KeyStep
    BY NextCalls, NextTyped DEF TInv
  <2>2. QED
    BY <2>1 DEF TInv, PairsInv, WellFormed, OneCalls
<1>3. ASSUME OneCalls, Pairs PROVE Pairs'
  <2>1. CASE Plainly
    BY <1>2, <1>3, <2>1, PlainlyPairs
  <2>2. ASSUME NEW c \in Client, Learns(c) \/ Stops(c) PROVE Pairs'
    BY <1>2, <1>3, <2>2, LearnsPairs, StopsPairs
  <2>3. ASSUME NEW c \in Client, DealStep(c) PROVE Pairs'
    BY <1>2, <1>3, <2>3, MpPairs, MpDealPairs DEF DealStep
  <2>4. QED
    BY <1>2, <2>1, <2>2, <2>3 DEF KeyStep
<1>4. QED
  BY <1>1, <1>2, <1>3 DEF PairsInv

LEMMA InitPairs == ASSUME Init PROVE PairsInv
<1>1. /\ \A x \in Client : toSecure[x] = <<>> /\ fromSecure[x] = <<>> /\ secure.dealing[x] = NotDealing
      /\ \A x, y \in Client : client[x].keys[y] = Absent
  BY DEF Init, NothingSent, Name
<1>2. CallersCall
  BY <1>1, EmptySays DEF CallersCall
<1>3. ASSUME NEW x \in Client, NEW y \in Client PROVE WillHold(x, y, Absent) /\ ~ Dealt(x, y)
  BY <1>1 DEF WillHold, WillGet, Dealt
<1>4. Pairs
  BY <1>3 DEF Pairs, Paired, Running
<1>5. QED
  BY <1>2, <1>4 DEF PairsInv

LEMMA QuietPairs == ASSUME PairsInv PROVE PairedKeys
<1>1. SUFFICES ASSUME Quiet, OneCalls, NEW c \in Running, NEW d \in Running, c # d
               PROVE  client[c].keys[d] = client[d].keys[c]
  BY DEF PairedKeys
<1>2. ASSUME NEW x \in Running, NEW y \in Running PROVE ~ Dealt(x, y) /\ \A k : WillHold(x, y, k) => client[x].keys[y] = k
  <2>1. fromSecure[x] = <<>> /\ secure.dealing[x] = NotDealing
    BY <1>1 DEF Quiet, Running, Serving
  <2>2. QED
    BY <2>1 DEF WillHold, WillGet, Dealt
<1>3. Paired(c, d)
  BY <1>1 DEF PairsInv, Pairs
<1>4. QED
  BY <1>2, <1>3 DEF Paired

(***************************************************************************)
(* Two users hold the same keys for each other whenever nothing is on its  *)
(* way, if only one user asks for such keys, whatever else any number of   *)
(* clients do meanwhile: the server deals the keys to the two of them one  *)
(* after the other, with other handlers in between                         *)
(* (secure_server.c:350-367), and either may stop before it reads them.    *)
(***************************************************************************)
THEOREM KeysArePaired == Spec => []PairedKeys
<1>1. Init => TInv /\ PairsInv
  BY InitTyped, InitPairs
<1>2. TInv /\ PairsInv /\ [Next]_vars => (TInv /\ PairsInv)'
  BY NextKeepsTypes, PairsNext
<1>3. PairsInv => PairedKeys
  BY QuietPairs
<1>4. QED
  BY <1>1, <1>2, <1>3, PTL DEF Spec
=============================================================================
