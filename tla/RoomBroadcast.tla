---------------------------- MODULE RoomBroadcast ----------------------------
(***************************************************************************)
(* What the plain server writes to the sockets of a room, and when that    *)
(* blocks it.  MESSAGE is written to every user of the room, the sender    *)
(* included, by a handler that holds the mutex; the reply follows when it  *)
(* has released it.  A socket holds only so many messages: a write to one  *)
(* that is full waits until its client reads (writeSocketTCP).             *)
(*                                                                         *)
(* Everybody is in the one room, and nobody leaves: ChatServer is about    *)
(* who is in, and takes the sockets to be unbounded.                       *)
(***************************************************************************)
EXTENDS Integers, Sequences

CONSTANTS
  Members,       \* the users of the room, in the order the handler walks them
  Reading,       \* those whose client goes on reading
  Capacity,      \* how many messages a socket holds
  MaxMessages,   \* bound: how many messages each user sends
  NULL

Client == {Members[i] : i \in DOMAIN Members}

ASSUME BroadcastAssumption ==
  /\ Members \in Seq(Client) /\ NULL \notin Client /\ Reading \subseteq Client
  /\ \A i, j \in DOMAIN Members : Members[i] = Members[j] => i = j
  /\ Capacity \in Nat \ {0} /\ MaxMessages \in Nat

VARIABLES
  asked,      \* how many messages each client sent
  taken,      \* how many of them its thread read
  answered,   \* how many of them were replied to
  pc,         \* where the thread of each connection is
  mutex,
  next,       \* the place in Members of the user that a handler writes to
  received,   \* what was written to each client of the room's messages, in order
  unread      \* how many messages its socket holds, replies included

vars == <<asked, taken, answered, pc, mutex, next, received, unread>>

Init ==
  /\ asked = [c \in Client |-> 0] /\ taken = [c \in Client |-> 0]
  /\ answered = [c \in Client |-> 0]
  /\ pc = [c \in Client |-> "read"] /\ mutex = NULL
  /\ next = [c \in Client |-> 1]
  /\ received = [c \in Client |-> <<>>] /\ unread = [c \in Client |-> 0]

Goto(c, label) == pc' = [pc EXCEPT ![c] = label]

Ask(c) ==
  /\ asked[c] < MaxMessages
  /\ asked' = [asked EXCEPT ![c] = @ + 1]
  /\ UNCHANGED <<taken, answered, pc, mutex, next, received, unread>>

Take(c) ==
  /\ pc[c] = "read" /\ taken[c] < asked[c]
  /\ taken' = [taken EXCEPT ![c] = @ + 1]
  /\ Goto(c, "lock")
  /\ UNCHANGED <<asked, answered, mutex, next, received, unread>>

\* Mutant: the handler does not wait for the mutex.
LockNot(c) ==
  /\ pc[c] = "lock"
  /\ mutex' = c /\ next' = [next EXCEPT ![c] = 1]
  /\ Goto(c, "write")
  /\ UNCHANGED <<asked, taken, answered, received, unread>>

Lock(c) ==
  /\ pc[c] = "lock" /\ mutex = NULL
  /\ mutex' = c /\ next' = [next EXCEPT ![c] = 1]
  /\ Goto(c, "write")
  /\ UNCHANGED <<asked, taken, answered, received, unread>>

\* Mutant: the write does not wait.
WriteAnyway(c) ==
  LET d == Members[next[c]] IN
  /\ pc[c] = "write" /\ next[c] <= Len(Members)
  /\ received' = [received EXCEPT ![d] = Append(@, <<c, taken[c]>>)]
  /\ unread' = [unread EXCEPT ![d] = @ + 1]
  /\ next' = [next EXCEPT ![c] = @ + 1]
  /\ UNCHANGED <<asked, taken, answered, pc, mutex>>

\* To the next user of the room, once there is place for it.
Write(c) ==
  LET d == Members[next[c]] IN
  /\ pc[c] = "write" /\ next[c] <= Len(Members) /\ unread[d] < Capacity
  /\ received' = [received EXCEPT ![d] = Append(@, <<c, taken[c]>>)]
  /\ unread' = [unread EXCEPT ![d] = @ + 1]
  /\ next' = [next EXCEPT ![c] = @ + 1]
  /\ UNCHANGED <<asked, taken, answered, pc, mutex>>

Unlock(c) ==
  /\ pc[c] = "write" /\ next[c] > Len(Members)
  /\ mutex' = NULL
  /\ Goto(c, "reply")
  /\ UNCHANGED <<asked, taken, answered, next, received, unread>>

\* Mutant: a handler that has written to the room does not reply.
ReplyNot(c) ==
  /\ pc[c] = "reply"
  /\ Goto(c, "read")
  /\ UNCHANGED <<asked, taken, answered, mutex, next, received, unread>>

Reply(c) ==
  /\ pc[c] = "reply" /\ unread[c] < Capacity
  /\ answered' = [answered EXCEPT ![c] = @ + 1]
  /\ unread' = [unread EXCEPT ![c] = @ + 1]
  /\ Goto(c, "read")
  /\ UNCHANGED <<asked, taken, mutex, next, received>>

Thread(c) == Take(c) \/ Lock(c) \/ Write(c) \/ Unlock(c) \/ Reply(c)

\* The thread of a client that receives.
Read(c) ==
  /\ c \in Reading /\ unread[c] > 0
  /\ unread' = [unread EXCEPT ![c] = @ - 1]
  /\ UNCHANGED <<asked, taken, answered, pc, mutex, next, received>>

\* Every thread waits for a message: nobody need write one.
Idle == (\A c \in Client : pc[c] = "read" /\ taken[c] = asked[c]) /\ UNCHANGED vars

Next == Idle \/ \E c \in Client : Ask(c) \/ Thread(c) \/ Read(c)

Spec == Init /\ [][Next]_vars

\* Threads run, on both sides; nobody is made to write.
FairSpec == Spec /\ \A c \in Client : WF_vars(Thread(c)) /\ WF_vars(Read(c))

----------------------------------------------------------------------------
\* The values the variables range over: a socket holds no more than it can.
TypeOK ==
  /\ asked \in [Client -> 0 .. MaxMessages]
  /\ taken \in [Client -> 0 .. MaxMessages]
  /\ answered \in [Client -> 0 .. MaxMessages]
  /\ pc \in [Client -> {"read", "lock", "write", "reply"}] /\ mutex \in Client \cup {NULL}
  /\ next \in [Client -> 1 .. Len(Members) + 1]
  /\ received \in [Client -> Seq(Client \X (1 .. MaxMessages))]
  /\ unread \in [Client -> 0 .. Capacity]

Prefix(s, t) == Len(s) <= Len(t) /\ s = SubSeq(t, 1, Len(s))

(***************************************************************************)
(* All users of a room get its messages in one order: a handler writes to  *)
(* all of them before another one does (server.c:137,287-298,335).         *)
(***************************************************************************)
OneOrder ==
  \A c, d \in Client : Prefix(received[c], received[d]) \/ Prefix(received[d], received[c])

(***************************************************************************)
(* Whatever a client that reads has sent is answered                       *)
(* (server.c:129,137,335-336).                                             *)
(***************************************************************************)
ReadersAreAnswered ==
  \A c \in Reading : \A n \in 1 .. MaxMessages : asked[c] >= n ~> answered[c] >= n
=============================================================================
