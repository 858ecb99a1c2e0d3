--------------------------- MODULE Listener_proofs ---------------------------
(***************************************************************************)
(* Theorems about Listener, for any number of clients, descriptors and     *)
(* visits, and whatever an SSL adds to the count of its context.           *)
(***************************************************************************)
EXTENDS Listener, FiniteSetTheorems, SequenceTheorems, TLAPS

----------------------------------------------------------------------------
\* A client waits once, and not while it is served.
Distinct ==
  /\ IsFiniteSet(served)
  /\ \A k \in 1 .. Len(queue) : queue[k] \notin served
  /\ \A j, k \in 1 .. Len(queue) : queue[j] = queue[k] => j = k

\* Two descriptors for each connection, and one for the socket that waits for it.
Spent ==
  LET waiting == IF main = "creerSocketTCP" THEN 0 ELSE 1 IN
  free + 2 * accepted + waiting >= Descriptors

IInv == TypeOK /\ Distinct /\ Spent /\ ByesCostTheContext

----------------------------------------------------------------------------
LEMMA InitIInv == Init => IInv
<1> SUFFICES ASSUME Init PROVE IInv
  OBVIOUS
<1>1. TypeOK
  BY ListenerAssumption DEF Init, TypeOK
<1>2. Distinct
  BY FS_EmptySet DEF Init, Distinct
<1>3. Spent
  BY ListenerAssumption DEF Init, Spent
<1>4. ByesCostTheContext
  <2>1. Cardinality(served) = 0
    BY FS_EmptySet DEF Init
  <2>2. QED
    BY <2>1, ListenerAssumption DEF Init, ByesCostTheContext, Byes
<1>5. QED
  BY <1>1, <1>2, <1>3, <1>4 DEF IInv

\* The numbers that IInv relates.
LEMMA Numbers ==
  ASSUME IInv
  PROVE  /\ Cardinality(served) \in Nat /\ accepted \in Nat /\ kept \in Nat
         /\ free \in Nat /\ refs \in Nat /\ RefsPerSsl \in Nat /\ Descriptors \in Nat
         /\ RefsPerSsl * (1 + Cardinality(served) + kept) \in Int
<1>1. Cardinality(served) \in Nat
  BY FS_CardinalityType DEF IInv, Distinct
<1>2. /\ accepted \in Nat /\ kept \in Nat
      /\ free \in Nat /\ refs \in Nat /\ RefsPerSsl \in Nat /\ Descriptors \in Nat
  BY ListenerAssumption DEF IInv, TypeOK
<1>3. QED
  BY <1>1, <1>2

LEMMA Distributes ==
  ASSUME NEW r \in Nat, NEW n \in Nat, NEW k \in Nat
  PROVE  r * (1 + (n + 1) + k) = r * (1 + n + k) + r
  OBVIOUS

LEMMA ConnectStep ==
  ASSUME IInv, NEW c \in Client, Connect(c)
  PROVE  IInv'
<1>1. queue \in Seq(Client) /\ Len(queue) \in Nat
  BY DEF IInv, TypeOK
<1>2. /\ queue' \in Seq(Client) /\ Len(queue') = Len(queue) + 1
      /\ \A k \in 1 .. Len(queue) : queue'[k] = queue[k]
      /\ queue'[Len(queue) + 1] = c
  BY <1>1 DEF Connect
<1>3. c \notin served /\ \A k \in 1 .. Len(queue) : queue[k] # c
  BY <1>1 DEF Connect, Here
<1>4. TypeOK'
  <2>1. visits' \in [Client -> 0 .. MaxVisits]
    <3>1. visits[c] + 1 \in 0 .. MaxVisits
      BY ListenerAssumption DEF IInv, TypeOK, Connect
    <3>2. QED
      BY <3>1 DEF IInv, TypeOK, Connect
  <2>2. Len(queue') <= SIZE_QUEUE
    BY <1>1, <1>2, ListenerAssumption DEF Connect
  <2>3. QED
    BY <1>2, <2>1, <2>2 DEF IInv, TypeOK, Connect
<1>5. Distinct'
  BY <1>1, <1>2, <1>3 DEF IInv, Distinct, Connect
<1>6. Spent' /\ ByesCostTheContext'
  BY DEF IInv, Spent, ByesCostTheContext, Byes, Connect
<1>7. QED
  BY <1>4, <1>5, <1>6 DEF IInv

LEMMA CreateStep ==
  ASSUME IInv, Create
  PROVE  IInv'
<1>1. free' \in 0 .. Descriptors /\ free' >= free - 1
  BY ListenerAssumption DEF IInv, TypeOK, Create
<1>2. TypeOK' /\ Distinct' /\ ByesCostTheContext'
  BY <1>1 DEF IInv, TypeOK, Distinct, ByesCostTheContext, Byes, Create
<1>3. Spent'
  BY <1>1, Numbers DEF IInv, Spent, Create
<1>4. QED
  BY <1>2, <1>3 DEF IInv

LEMMA AcceptStep ==
  ASSUME IInv, Accept
  PROVE  IInv'
<1> DEFINE c == Head(queue)
<1>1. queue \in Seq(Client) /\ Len(queue) \in Nat /\ queue # <<>> /\ Len(queue) >= 1
  BY DEF IInv, TypeOK, Accept
<1>2. /\ c \in Client /\ queue' \in Seq(Client) /\ Len(queue') = Len(queue) - 1
      /\ \A k \in 1 .. Len(queue') : queue'[k] = queue[k + 1]
      /\ c = queue[1]
  BY <1>1, HeadTailProperties DEF Accept
<1>3. c \notin served /\ \A k \in 1 .. Len(queue') : queue[k + 1] # c
  <2>1. 1 \in 1 .. Len(queue) /\ \A k \in 1 .. Len(queue') : k + 1 \in 1 .. Len(queue) /\ k + 1 # 1
    BY <1>1, <1>2
  <2>2. QED
    BY <1>2, <2>1 DEF IInv, Distinct
<1>4. TypeOK'
  <2>1. free' \in 0 .. Descriptors /\ refs' \in Nat /\ accepted' \in Nat
    BY ListenerAssumption DEF IInv, TypeOK, Accept
  <2>2. Len(queue') <= SIZE_QUEUE
    BY <1>1, <1>2, ListenerAssumption DEF IInv, TypeOK
  <2>3. QED
    BY <1>2, <2>1, <2>2 DEF IInv, TypeOK, Accept
<1>5. Distinct'
  <2>1. IsFiniteSet(served')
    BY FS_AddElement DEF IInv, Distinct, Accept
  <2>2. \A k \in 1 .. Len(queue') : queue'[k] \notin served'
    <3>1. \A k \in 1 .. Len(queue') : k + 1 \in 1 .. Len(queue)
      BY <1>1, <1>2
    <3>2. QED
      BY <1>2, <1>3, <3>1 DEF IInv, Distinct, Accept
  <2>3. \A j, k \in 1 .. Len(queue') : queue'[j] = queue'[k] => j = k
    <3>1. \A j, k \in 1 .. Len(queue') :
            /\ j + 1 \in 1 .. Len(queue) /\ k + 1 \in 1 .. Len(queue)
            /\ j + 1 = k + 1 => j = k
      BY <1>1, <1>2
    <3>2. QED
      BY <1>2, <3>1 DEF IInv, Distinct
  <2>4. QED
    BY <2>1, <2>2, <2>3 DEF Distinct
<1>6. Spent'
  <2>1. /\ main = "accept" /\ main' = "creerSocketTCP" /\ free > 0
        /\ free' = free - 1 /\ accepted' = accepted + 1
    BY DEF Accept
  <2>2. free + 2 * accepted + 1 >= Descriptors
    BY <2>1 DEF IInv, Spent
  <2>3. free' + 2 * accepted' + 0 >= Descriptors
    BY <2>1, <2>2, Numbers
  <2>4. QED
    BY <2>1, <2>3 DEF Spent
<1>7. ByesCostTheContext'
  <2>1. Cardinality(served') = Cardinality(served) + 1
    BY <1>3, FS_AddElement DEF IInv, Distinct, Accept
  <2>2. refs + Byes = 1 + RefsPerSsl * (1 + Cardinality(served) + kept)
    BY DEF IInv, ByesCostTheContext, Accept
  <2>3. Byes' = Byes /\ Byes \in Int
    <3>1. accepted' = accepted + 1 /\ kept' = kept
      BY DEF Accept
    <3>2. QED
      BY <2>1, <3>1, Numbers DEF Byes
  <2>4. refs' = refs + RefsPerSsl /\ kept' = kept
    BY DEF Accept
  <2>5. RefsPerSsl * (1 + Cardinality(served') + kept')
          = RefsPerSsl * (1 + Cardinality(served) + kept) + RefsPerSsl
    BY <2>1, <2>4, Numbers, Distributes
  <2>6. QED
    BY <2>2, <2>3, <2>4, <2>5, Numbers DEF ByesCostTheContext
<1>8. QED
  BY <1>4, <1>5, <1>6, <1>7 DEF IInv

\* One client fewer is served.
LEMMA LeftStep ==
  ASSUME IInv, NEW c \in Client, Left(c), refs' \in Nat, kept' \in Nat
  PROVE  /\ TypeOK' /\ Distinct' /\ Spent'
         /\ Cardinality(served') \in Nat /\ Cardinality(served) = Cardinality(served') + 1
<1>1. /\ IsFiniteSet(served') /\ Cardinality(served') = Cardinality(served) - 1
      /\ Cardinality(served') \in Nat
  <2>1. IsFiniteSet(served) /\ c \in served /\ served' = served \ {c}
    BY DEF IInv, Distinct, Left
  <2>2. IsFiniteSet(served') /\ Cardinality(served') = Cardinality(served) - 1
    BY <2>1, FS_RemoveElement
  <2>3. QED
    BY <2>2, FS_CardinalityType
<1>2. TypeOK'
  BY DEF IInv, TypeOK, Left
<1>3. Distinct' /\ Spent'
  BY <1>1 DEF IInv, Distinct, Spent, Left
<1>4. QED
  BY <1>1, <1>2, <1>3, Numbers

LEMMA ByeStep ==
  ASSUME IInv, NEW c \in Client, Bye(c)
  PROVE  IInv'
<1>1. refs' \in Nat /\ kept' = kept /\ (refs' > 0 => refs > 0 /\ refs' = refs - 1 - RefsPerSsl)
  BY Numbers DEF Bye
<1>2. /\ TypeOK' /\ Distinct' /\ Spent'
      /\ Cardinality(served') \in Nat /\ Cardinality(served) = Cardinality(served') + 1
  BY <1>1, LeftStep, Numbers DEF Bye
<1>3. ByesCostTheContext'
  <2> SUFFICES ASSUME refs' > 0
               PROVE  refs' + Byes' = 1 + RefsPerSsl * (1 + Cardinality(served') + kept')
    BY DEF ByesCostTheContext
  <2>1. refs + Byes = 1 + RefsPerSsl * (1 + Cardinality(served) + kept)
    BY <1>1 DEF IInv, ByesCostTheContext
  <2>2. Byes' = Byes + 1 /\ Byes \in Int
    BY <1>1, <1>2, Numbers DEF Byes, Bye, Left
  <2>3. RefsPerSsl * (1 + Cardinality(served) + kept)
          = RefsPerSsl * (1 + Cardinality(served') + kept') + RefsPerSsl
    BY <1>1, <1>2, Numbers, Distributes
  <2>4. RefsPerSsl * (1 + Cardinality(served') + kept') \in Int
    BY <1>1, <1>2, Numbers
  <2>5. QED
    BY <1>1, <2>1, <2>2, <2>3, <2>4, Numbers
<1>4. QED
  BY <1>2, <1>3 DEF IInv

LEMMA StopStep ==
  ASSUME IInv, NEW c \in Client, Stop(c)
  PROVE  IInv'
<1>1. refs' = refs /\ kept' = kept + 1 /\ refs' \in Nat /\ kept' \in Nat
  BY Numbers DEF Stop
<1>2. /\ TypeOK' /\ Distinct' /\ Spent'
      /\ Cardinality(served') \in Nat /\ Cardinality(served) = Cardinality(served') + 1
  BY <1>1, LeftStep DEF Stop
<1>3. 1 + Cardinality(served') + kept' = 1 + Cardinality(served) + kept /\ Byes' = Byes
  BY <1>1, <1>2, Numbers DEF Byes, Stop, Left
<1>4. ByesCostTheContext'
  BY <1>1, <1>3 DEF IInv, ByesCostTheContext
<1>5. QED
  BY <1>2, <1>4 DEF IInv

\* The main thread goes down, and the rest stays as it was.
LEMMA DownStep ==
  ASSUME IInv, AcceptFails \/ AcceptWithoutContext
  PROVE  IInv'
<1>1. TypeOK' /\ Distinct' /\ ByesCostTheContext'
  BY DEF IInv, TypeOK, Distinct, ByesCostTheContext, Byes, AcceptFails, AcceptWithoutContext
<1>2. Spent'
  BY Numbers DEF IInv, Spent, AcceptFails, AcceptWithoutContext
<1>3. QED
  BY <1>1, <1>2 DEF IInv

LEMMA NextIInv == IInv /\ [Next]_vars => IInv'
<1> SUFFICES ASSUME IInv, [Next]_vars PROVE IInv'
  OBVIOUS
<1>1. CASE Main
  BY <1>1, CreateStep, AcceptStep, DownStep DEF Main
<1>2. CASE \E c \in Client : Connect(c) \/ Bye(c) \/ Stop(c)
  BY <1>2, ConnectStep, ByeStep, StopStep
<1>3. CASE UNCHANGED vars
  BY <1>3 DEF IInv, TypeOK, Distinct, Spent, ByesCostTheContext, Byes, vars
<1>4. QED
  BY <1>1, <1>2, <1>3 DEF Next, Finished

THEOREM InvariantHolds == Spec => []IInv
  BY InitIInv, NextIInv, PTL DEF Spec

----------------------------------------------------------------------------
\* When accept fails, one socket was made for nobody and the others in pairs.
LEMMA NextCrash ==
  ASSUME IInv, HalfTheDescriptors, [Next]_vars
  PROVE  HalfTheDescriptors'
<1>1. CASE AcceptFails
  BY <1>1, Numbers DEF IInv, Spent, HalfTheDescriptors, AcceptFails
<1>2. CASE Create \/ Accept \/ AcceptWithoutContext
  BY <1>2 DEF HalfTheDescriptors, Create, Accept, AcceptWithoutContext
<1>3. CASE \E c \in Client : Connect(c) \/ Bye(c) \/ Stop(c)
  BY <1>3 DEF HalfTheDescriptors, Connect, Bye, Stop, Left
<1>4. CASE UNCHANGED vars
  BY <1>4 DEF HalfTheDescriptors, vars
<1>5. QED
  BY <1>1, <1>2, <1>3, <1>4 DEF Next, Main, Finished

(***************************************************************************)
(* However many descriptors there are, the server accepts half as many     *)
(* connections before it is brought down by one that it has no descriptor  *)
(* for (SocketTCP.c:93-107,117-124).                                       *)
(***************************************************************************)
THEOREM HalfTheDescriptorsAreServed == Spec => []HalfTheDescriptors
<1>1. Init => HalfTheDescriptors
  BY DEF Init, HalfTheDescriptors
<1>2. QED
  BY <1>1, InvariantHolds, NextCrash, PTL DEF Spec

(***************************************************************************)
(* Whatever an SSL adds to the count of the context, every DISCONNECT_SEC  *)
(* takes one more off it than its connection had added                     *)
(* (secure_server.c:129,398-399,628-630).                                  *)
(***************************************************************************)
THEOREM EveryByeCostsTheContext == Spec => []ByesCostTheContext
<1>1. IInv => ByesCostTheContext
  BY DEF IInv
<1>2. QED
  BY <1>1, InvariantHolds, PTL
=============================================================================
