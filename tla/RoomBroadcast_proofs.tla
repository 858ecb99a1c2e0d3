------------------------- MODULE RoomBroadcast_proofs -------------------------
(***************************************************************************)
(* Theorems about RoomBroadcast, for a room of any size, sockets of any    *)
(* capacity and clients that read or do not.                               *)
(***************************************************************************)
EXTENDS RoomBroadcast, TLAPS

----------------------------------------------------------------------------
(***************************************************************************)
(* Why everybody reads one order: the mutex is held from the first user of *)
(* the walk to the last, so those that the walk has passed are one message *)
(* ahead of the others, and all others agree.                              *)
(***************************************************************************)

\* What has been asked, taken and answered, one message at a time.
Counted ==
  \A c \in Client :
    /\ taken[c] <= asked[c]
    /\ pc[c] = "read" => answered[c] = taken[c]
    /\ pc[c] # "read" => taken[c] = answered[c] + 1

\* The mutex is held by the thread that walks the room, and by nobody else.
OneWalks == \A c \in Client : pc[c] = "write" <=> mutex = c

\* The users a thread has written to.
Passed(c) == {Members[k] : k \in {j \in DOMAIN Members : j < next[c]}}

\* The log of the room, before the message that is being written.
Ahead(log) ==
  \A d \in Client :
    received[d] = IF mutex # NULL /\ d \in Passed(mutex)
                  THEN Append(log, <<mutex, taken[mutex]>>) ELSE log

OneLog == \E log \in Seq(Client \X (1 .. MaxMessages)) : Ahead(log)

IInv == TypeOK /\ Counted /\ OneWalks /\ OneLog

----------------------------------------------------------------------------
LEMMA MembersAre ==
  /\ Members \in Seq(Client)
  /\ \A k \in DOMAIN Members : Members[k] \in Client
  /\ DOMAIN Members = 1 .. Len(Members) /\ Len(Members) \in Nat
  BY BroadcastAssumption

LEMMA InitIInv == Init => IInv
<1> SUFFICES ASSUME Init PROVE IInv
  OBVIOUS
<1>1. TypeOK
  BY BroadcastAssumption, MembersAre DEF Init, TypeOK
<1>2. Counted
  BY BroadcastAssumption DEF Init, Counted
<1>3. OneWalks
  BY BroadcastAssumption DEF Init, OneWalks
<1>4. Ahead(<<>>)
  BY DEF Init, Ahead
<1>5. <<>> \in Seq(Client \X (1 .. MaxMessages))
  OBVIOUS
<1>6. QED
  BY <1>1, <1>2, <1>3, <1>4, <1>5 DEF IInv, OneLog

\* The values that IInv gives of one client.
LEMMA Typed ==
  ASSUME IInv, NEW c \in Client
  PROVE  /\ taken[c] \in Nat /\ taken[c] <= MaxMessages
         /\ answered[c] \in Nat /\ answered[c] <= MaxMessages
         /\ pc[c] # "read" => taken[c] \in 1 .. MaxMessages
         /\ next[c] \in Nat /\ next[c] >= 1 /\ next[c] <= Len(Members) + 1
         /\ unread[c] \in Nat /\ unread[c] <= Capacity
         /\ received[c] \in Seq(Client \X (1 .. MaxMessages))
<1>1. /\ taken[c] \in 0 .. MaxMessages /\ answered[c] \in 0 .. MaxMessages
      /\ next[c] \in 1 .. Len(Members) + 1 /\ unread[c] \in 0 .. Capacity
      /\ received[c] \in Seq(Client \X (1 .. MaxMessages))
  BY DEF IInv, TypeOK
<1>2. pc[c] # "read" => taken[c] = answered[c] + 1
  BY DEF IInv, Counted
<1>3. QED
  BY <1>1, <1>2, MembersAre, BroadcastAssumption

\* A step that touches neither the mutex nor what was written.
LEMMA QuietLog ==
  ASSUME OneLog, UNCHANGED <<mutex, received>>,
         mutex # NULL => next'[mutex] = next[mutex] /\ taken'[mutex] = taken[mutex]
  PROVE  OneLog'
<1>1. PICK log \in Seq(Client \X (1 .. MaxMessages)) : Ahead(log)
  BY DEF OneLog
<1>2. mutex # NULL => Passed(mutex)' = Passed(mutex)
  BY DEF Passed
<1>3. Ahead(log)'
  BY <1>1, <1>2 DEF Ahead
<1>4. QED
  BY <1>3 DEF OneLog

LEMMA AskStep ==
  ASSUME IInv, NEW c \in Client, Ask(c)
  PROVE  IInv'
<1>1. TypeOK'
  <2>1. asked[c] + 1 \in 0 .. MaxMessages
    <3>1. asked[c] \in 0 .. MaxMessages /\ asked[c] < MaxMessages
      BY DEF IInv, TypeOK, Ask
    <3>2. MaxMessages \in Nat
      BY BroadcastAssumption
    <3>3. QED
      BY <3>1, <3>2
  <2>2. asked' \in [Client -> 0 .. MaxMessages]
    BY <2>1 DEF IInv, TypeOK, Ask
  <2>3. QED
    BY <2>2 DEF IInv, TypeOK, Ask
<1>2. Counted'
  BY BroadcastAssumption DEF IInv, TypeOK, Counted, Ask
<1>3. OneWalks' /\ OneLog'
  BY QuietLog DEF IInv, OneWalks, Ask
<1>4. QED
  BY <1>1, <1>2, <1>3 DEF IInv

LEMMA TakeStep ==
  ASSUME IInv, NEW c \in Client, Take(c)
  PROVE  IInv'
<1>1. TypeOK'
  <2>1. taken[c] + 1 \in 0 .. MaxMessages
    BY BroadcastAssumption DEF IInv, TypeOK, Take
  <2>2. taken' \in [Client -> 0 .. MaxMessages]
    BY <2>1 DEF IInv, TypeOK, Take
  <2>3. pc' \in [Client -> {"read", "lock", "write", "reply"}]
    BY DEF IInv, TypeOK, Take, Goto
  <2>4. QED
    BY <2>2, <2>3 DEF IInv, TypeOK, Take
<1>2. Counted'
  BY BroadcastAssumption DEF IInv, TypeOK, Counted, Take, Goto
<1>3. OneWalks' /\ mutex # c
  BY DEF IInv, TypeOK, OneWalks, Take, Goto
<1>4. OneLog'
  BY <1>3, QuietLog DEF IInv, TypeOK, Take
<1>5. QED
  BY <1>1, <1>2, <1>3, <1>4 DEF IInv

\* The walk begins: nobody is ahead.
LEMMA LockStep ==
  ASSUME IInv, NEW c \in Client, Lock(c)
  PROVE  IInv'
<1>1. TypeOK' /\ Counted'
  <2>1. /\ next' \in [Client -> 1 .. Len(Members) + 1]
        /\ pc' \in [Client -> {"read", "lock", "write", "reply"}]
    BY MembersAre DEF IInv, TypeOK, Lock, Goto
  <2>2. TypeOK'
    BY <2>1 DEF IInv, TypeOK, Lock
  <2>3. Counted'
    BY DEF IInv, TypeOK, Counted, Lock, Goto
  <2>4. QED
    BY <2>2, <2>3
<1>2. OneWalks'
  BY BroadcastAssumption DEF IInv, TypeOK, OneWalks, Lock, Goto
<1>3. OneLog'
  <2>1. PICK log \in Seq(Client \X (1 .. MaxMessages)) : Ahead(log)
    BY DEF IInv, OneLog
  <2>2. Passed(c)' = {}
    BY MembersAre DEF Passed, Lock, IInv, TypeOK
  <2>3. Ahead(log)'
    BY <2>1, <2>2 DEF Ahead, Lock
  <2>4. QED
    BY <2>3 DEF OneLog
<1>4. QED
  BY <1>1, <1>2, <1>3 DEF IInv

\* The walk passes one more user, who gets the message.
LEMMA WriteStep ==
  ASSUME IInv, NEW c \in Client, Write(c)
  PROVE  IInv'
<1> DEFINE d == Members[next[c]]
           m == <<c, taken[c]>>
<1>1. /\ next[c] \in DOMAIN Members /\ d \in Client
      /\ mutex = c /\ c # NULL
  <2>1. mutex = c /\ c # NULL
    BY BroadcastAssumption DEF IInv, OneWalks, Write
  <2>2. QED
    BY <2>1, Typed, MembersAre DEF Write
<1>2. m \in Client \X (1 .. MaxMessages)
  BY Typed DEF Write
<1>3. TypeOK'
  <2>1. received' \in [Client -> Seq(Client \X (1 .. MaxMessages))]
    <3>1. Append(received[d], m) \in Seq(Client \X (1 .. MaxMessages))
      BY <1>1, <1>2 DEF IInv, TypeOK
    <3>2. QED
      BY <3>1, <1>1 DEF IInv, TypeOK, Write
  <2>2. next' \in [Client -> 1 .. Len(Members) + 1]
    <3>1. next[c] + 1 \in 1 .. Len(Members) + 1
      BY Typed, MembersAre DEF Write
    <3>2. QED
      BY <3>1 DEF IInv, TypeOK, Write
  <2>3. unread' \in [Client -> 0 .. Capacity]
    <3>1. unread[d] + 1 \in 0 .. Capacity
      BY <1>1, Typed, BroadcastAssumption DEF Write
    <3>2. QED
      BY <3>1 DEF IInv, TypeOK, Write
  <2>4. QED
    BY <2>1, <2>2, <2>3 DEF IInv, TypeOK, Write
<1>4. Counted' /\ OneWalks'
  BY DEF IInv, Counted, OneWalks, Write
<1>5. OneLog'
  <2>1. PICK log \in Seq(Client \X (1 .. MaxMessages)) : Ahead(log)
    BY DEF IInv, OneLog
  <2>2. d \notin Passed(c)
    BY <1>1, BroadcastAssumption, MembersAre DEF Passed
  <2>3. Passed(c)' = Passed(c) \cup {d}
    <3>1. next'[c] = next[c] + 1
      BY DEF IInv, TypeOK, Write
    <3>2. \A k \in DOMAIN Members : k < next'[c] <=> k < next[c] \/ k = next[c]
      BY <3>1, Typed, MembersAre
    <3>3. QED
      BY <1>1, <3>2 DEF Passed
  <2>4. received' = [received EXCEPT ![d] = Append(log, m)]
    BY <1>1, <2>1, <2>2 DEF Ahead, Write
  <2>5. ASSUME NEW e \in Client
        PROVE  received'[e] = IF e \in Passed(c)' THEN Append(log, m) ELSE log
    BY <1>1, <2>1, <2>3, <2>4 DEF Ahead, IInv, TypeOK
  <2>6. Ahead(log)'
    BY <1>1, <2>5 DEF Ahead, Write
  <2>7. QED
    BY <2>1, <2>6 DEF OneLog
<1>6. QED
  BY <1>3, <1>4, <1>5 DEF IInv

\* The walk is over: everybody has the message, which joins the log.
LEMMA UnlockStep ==
  ASSUME IInv, NEW c \in Client, Unlock(c)
  PROVE  IInv'
<1>1. mutex = c /\ c # NULL
  BY BroadcastAssumption DEF IInv, OneWalks, Unlock
<1>2. TypeOK' /\ Counted'
  <2>1. pc' \in [Client -> {"read", "lock", "write", "reply"}]
    BY DEF IInv, TypeOK, Unlock, Goto
  <2>2. TypeOK'
    BY <2>1 DEF IInv, TypeOK, Unlock
  <2>3. Counted'
    BY DEF IInv, TypeOK, Counted, Unlock, Goto
  <2>4. QED
    BY <2>2, <2>3
<1>3. OneWalks'
  BY <1>1, BroadcastAssumption DEF IInv, TypeOK, OneWalks, Unlock, Goto
<1>4. OneLog'
  <2>1. PICK log \in Seq(Client \X (1 .. MaxMessages)) : Ahead(log)
    BY DEF IInv, OneLog
  <2>2. \A d \in Client : d \in Passed(c)
    <3>1. \A k \in DOMAIN Members : k < next[c]
      BY Typed, MembersAre DEF Unlock
    <3>2. QED
      BY <3>1 DEF Client, Passed
  <2> DEFINE longer == Append(log, <<c, taken[c]>>)
  <2>3. longer \in Seq(Client \X (1 .. MaxMessages))
    <3>1. <<c, taken[c]>> \in Client \X (1 .. MaxMessages)
      BY Typed DEF Unlock
    <3>2. QED
      BY <3>1
  <2>4. PICK l \in Seq(Client \X (1 .. MaxMessages)) : l = longer
    BY <2>3
  <2>5. \A d \in Client : received[d] = l
    BY <1>1, <2>1, <2>2, <2>4 DEF Ahead
  <2>6. Ahead(l)'
    BY <2>5 DEF Ahead, Unlock
  <2>7. QED
    BY <2>6 DEF OneLog
<1>5. QED
  BY <1>2, <1>3, <1>4 DEF IInv

LEMMA ReplyStep ==
  ASSUME IInv, NEW c \in Client, Reply(c)
  PROVE  IInv'
<1>1. TypeOK' /\ Counted'
  <2>1. answered[c] + 1 \in 0 .. MaxMessages /\ unread[c] + 1 \in 0 .. Capacity
    <3>1. answered[c] + 1 = taken[c]
      BY DEF IInv, Counted, Reply
    <3>2. QED
      BY <3>1, Typed, BroadcastAssumption DEF Reply
  <2>2. pc' \in [Client -> {"read", "lock", "write", "reply"}]
    BY DEF IInv, TypeOK, Reply, Goto
  <2>3. /\ answered' \in [Client -> 0 .. MaxMessages]
        /\ unread' \in [Client -> 0 .. Capacity]
    BY <2>1 DEF IInv, TypeOK, Reply
  <2>4. TypeOK'
    BY <2>2, <2>3 DEF IInv, TypeOK, Reply
  <2>5. Counted'
    BY DEF IInv, TypeOK, Counted, Reply, Goto
  <2>6. QED
    BY <2>4, <2>5
<1>2. OneWalks' /\ mutex # c
  BY DEF IInv, TypeOK, OneWalks, Reply, Goto
<1>3. OneLog'
  BY <1>2, QuietLog DEF IInv, TypeOK, Reply
<1>4. QED
  BY <1>1, <1>2, <1>3 DEF IInv

LEMMA ReadStep ==
  ASSUME IInv, NEW c \in Client, Read(c)
  PROVE  IInv'
<1>1. TypeOK' /\ Counted' /\ OneWalks'
  <2>1. unread[c] - 1 \in 0 .. Capacity
    BY Typed, BroadcastAssumption DEF Read
  <2>2. unread' \in [Client -> 0 .. Capacity]
    BY <2>1 DEF IInv, TypeOK, Read
  <2>3. QED
    BY <2>2 DEF IInv, TypeOK, Counted, OneWalks, Read
<1>2. OneLog'
  BY QuietLog DEF IInv, Read
<1>3. QED
  BY <1>1, <1>2 DEF IInv

LEMMA NextIInv == IInv /\ [Next]_vars => IInv'
<1> SUFFICES ASSUME IInv, [Next]_vars PROVE IInv'
  OBVIOUS
<1>1. CASE \E c \in Client : Ask(c) \/ Thread(c) \/ Read(c)
  BY <1>1, AskStep, TakeStep, LockStep, WriteStep, UnlockStep, ReplyStep, ReadStep DEF Thread
<1>2. CASE UNCHANGED vars
  <2>1. TypeOK' /\ Counted' /\ OneWalks'
    BY <1>2 DEF IInv, TypeOK, Counted, OneWalks, vars
  <2>2. OneLog'
    BY <1>2, QuietLog DEF IInv, vars
  <2>3. QED
    BY <2>1, <2>2 DEF IInv
<1>3. QED
  BY <1>1, <1>2 DEF Next, Idle

THEOREM InvariantHolds == Spec => []IInv
  BY InitIInv, NextIInv, PTL DEF Spec

----------------------------------------------------------------------------
\* A log is a prefix of itself and of itself with one more message.
LEMMA PrefixOfNext ==
  ASSUME NEW S, NEW log \in Seq(S), NEW m \in S
  PROVE  Prefix(log, log) /\ Prefix(log, Append(log, m))
  BY DEF Prefix

LEMMA IInvOneOrder == IInv => OneOrder
<1> SUFFICES ASSUME IInv, NEW c \in Client, NEW d \in Client
             PROVE  Prefix(received[c], received[d]) \/ Prefix(received[d], received[c])
  BY DEF OneOrder
<1> DEFINE M == Client \X (1 .. MaxMessages)
<1>1. PICK log \in Seq(M) : Ahead(log)
  BY DEF IInv, OneLog
<1>2. CASE mutex = NULL
  BY <1>1, <1>2 DEF Ahead, Prefix
<1>3. CASE mutex # NULL
  <2>1. <<mutex, taken[mutex]>> \in M
    <3>1. mutex \in Client /\ pc[mutex] = "write"
      BY <1>3 DEF IInv, TypeOK, OneWalks
    <3>2. QED
      BY <3>1, Typed
  <2> DEFINE longer == Append(log, <<mutex, taken[mutex]>>)
  <2>2. /\ Prefix(log, log) /\ Prefix(log, longer) /\ Prefix(longer, longer)
    BY <1>1, <2>1, PrefixOfNext DEF Prefix
  <2>3. received[c] \in {log, longer} /\ received[d] \in {log, longer}
    BY <1>1, <1>3 DEF Ahead
  <2>4. QED
    BY <2>2, <2>3
<1>4. QED
  BY <1>2, <1>3

(***************************************************************************)
(* The values of the variables keep their types; in particular no socket   *)
(* ever holds more than it can (server.c:304-305).                         *)
(***************************************************************************)
THEOREM TypeCorrect == Spec => []TypeOK
<1>1. IInv => TypeOK
  BY DEF IInv
<1>2. QED
  BY <1>1, InvariantHolds, PTL

(***************************************************************************)
(* All users of a room, however many and however slow, get its messages in *)
(* one order (server.c:137,287-298,335).                                   *)
(***************************************************************************)
THEOREM MessagesHaveOneOrder == Spec => []OneOrder
  BY InvariantHolds, IInvOneOrder, PTL
=============================================================================
