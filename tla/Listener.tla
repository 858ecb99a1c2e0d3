------------------------------ MODULE Listener ------------------------------
(***************************************************************************)
(* What connections cost the secure server: the main thread that accepts   *)
(* them (start_listening), the descriptors of SocketTCP.c, and the TLS     *)
(* context that all of them share.  The plain server is the same without   *)
(* the context.                                                            *)
(*                                                                         *)
(* OpenSSL counts who holds a context and frees it with the last: the      *)
(* program holds it once, and every SSL made from it RefsPerSsl times.     *)
(***************************************************************************)
EXTENDS Integers, Sequences, FiniteSets

CONSTANTS
  Client,
  Descriptors,   \* how many the process may still open when it starts to listen
  RefsPerSsl,    \* two, where an SSL keeps its first context
  SIZE_QUEUE,    \* how many connections wait to be accepted
  MaxVisits      \* bound: how often a client connects

ASSUME ListenerAssumption ==
  /\ Descriptors \in Nat /\ RefsPerSsl \in Nat \ {0}
  /\ SIZE_QUEUE \in Nat /\ MaxVisits \in Nat

VARIABLES
  main,      \* the main thread: about to make a socket, waiting in accept, or down
  queue,     \* the connections that wait, in order
  served,    \* the clients whose connection has a thread
  visits,    \* how often each client connected
  accepted,  \* how many connections it accepted
  free,      \* the descriptors that are left
  refs,      \* who holds the context
  kept       \* how many connections ended with their SSL never freed

vars == <<main, queue, served, visits, accepted, free, refs, kept>>

Up == main \in {"creerSocketTCP", "accept"}

Here(c) == c \in served \/ \E k \in DOMAIN queue : queue[k] = c

\* The context is made, and one SSL for the listening socket.
Init ==
  /\ main = "creerSocketTCP" /\ queue = <<>> /\ served = {}
  /\ visits = [c \in Client |-> 0] /\ accepted = 0
  /\ free = Descriptors /\ refs = 1 + RefsPerSsl /\ kept = 0

Connect(c) ==
  /\ Up /\ ~ Here(c) /\ visits[c] < MaxVisits /\ Len(queue) < SIZE_QUEUE
  /\ queue' = Append(queue, c)
  /\ visits' = [visits EXCEPT ![c] = @ + 1]
  /\ UNCHANGED <<main, served, accepted, free, refs, kept>>

\* acceptSocketTCP makes a socket before it waits, and drops it when it has one.
Create ==
  /\ main = "creerSocketTCP"
  /\ main' = "accept"
  /\ free' = IF free > 0 THEN free - 1 ELSE 0
  /\ UNCHANGED <<queue, served, visits, accepted, refs, kept>>

\* Mutants: no thread is made for it; a second socket is made for it.
AcceptWithoutThread ==
  /\ main = "accept" /\ queue # <<>> /\ free > 0 /\ refs > 0
  /\ main' = "creerSocketTCP" /\ queue' = Tail(queue)
  /\ accepted' = accepted + 1 /\ free' = free - 1
  /\ UNCHANGED <<served, visits, refs, kept>>

AcceptWithTwo ==
  /\ main = "accept" /\ queue # <<>> /\ free > 0 /\ refs > 0
  /\ main' = "creerSocketTCP" /\ queue' = Tail(queue) /\ accepted' = accepted + 1
  /\ served' = served \cup {Head(queue)}
  /\ free' = (IF free > 1 THEN free - 2 ELSE 0) /\ refs' = refs + RefsPerSsl
  /\ UNCHANGED <<visits, kept>>

\* A thread of its own makes an SSL for the connection.
Accept ==
  /\ main = "accept" /\ queue # <<>> /\ free > 0 /\ refs > 0
  /\ main' = "creerSocketTCP" /\ queue' = Tail(queue) /\ accepted' = accepted + 1
  /\ served' = served \cup {Head(queue)}
  /\ free' = free - 1 /\ refs' = refs + RefsPerSsl
  /\ UNCHANGED <<visits, kept>>

\* accept fails: new_thread is given NULL, and the thread reads its socket.
AcceptFails ==
  /\ main = "accept" /\ queue # <<>> /\ free = 0
  /\ main' = "crashed"
  /\ UNCHANGED <<queue, served, visits, accepted, free, refs, kept>>

\* SSL_new of a context that was freed is undefined.
AcceptWithoutContext ==
  /\ main = "accept" /\ queue # <<>> /\ free > 0 /\ refs = 0
  /\ main' = "undefined"
  /\ UNCHANGED <<queue, served, visits, accepted, free, refs, kept>>

Left(c) ==
  /\ Up /\ c \in served
  /\ served' = served \ {c}
  /\ UNCHANGED <<main, queue, visits, accepted, free>>

\* Mutant: the SSL is not freed.
ByeContextOnly(c) ==
  /\ Left(c)
  /\ refs' = refs - 1
  /\ UNCHANGED kept

\* DISCONNECT_SEC frees the SSL of the connection, and the context once more.
Bye(c) ==
  /\ Left(c)
  /\ refs' = IF refs > 1 + RefsPerSsl THEN refs - 1 - RefsPerSsl ELSE 0
  /\ UNCHANGED kept

\* The connection just stops, or SSL_accept refuses it: shutdown at most.
Stop(c) ==
  /\ Left(c)
  /\ kept' = kept + 1
  /\ UNCHANGED refs

Main == Create \/ Accept \/ AcceptFails \/ AcceptWithoutContext

Finished ==
  /\ main # "creerSocketTCP" /\ (Up => queue = <<>>)
  /\ UNCHANGED vars

Next ==
  \/ Main \/ Finished
  \/ \E c \in Client : Connect(c) \/ Bye(c) \/ Stop(c)

Spec == Init /\ [][Next]_vars

\* The main thread runs; nobody is made to leave.
FairSpec == Spec /\ WF_vars(Main)

----------------------------------------------------------------------------
\* The values the variables range over.
TypeOK ==
  /\ main \in {"creerSocketTCP", "accept", "crashed", "undefined"}
  /\ queue \in Seq(Client) /\ Len(queue) <= SIZE_QUEUE
  /\ served \subseteq Client /\ visits \in [Client -> 0 .. MaxVisits]
  /\ accepted \in Nat /\ free \in 0 .. Descriptors /\ refs \in Nat /\ kept \in Nat

\* How many of those that were accepted said goodbye.
Byes == accepted - Cardinality(served) - kept

(***************************************************************************)
(* The server is not brought down before it has accepted half as many      *)
(* connections as it has descriptors: each takes two, and gives none back  *)
(* (SocketTCP.c:93-107,117-124).                                           *)
(***************************************************************************)
HalfTheDescriptors == main = "crashed" => 2 * accepted + 1 >= Descriptors

(***************************************************************************)
(* The context is held by the program, by the SSL of the listening socket  *)
(* and by those that were not freed, less once for everybody that left     *)
(* with DISCONNECT_SEC (secure_server.c:129,398-399,628-630).              *)
(***************************************************************************)
ByesCostTheContext ==
  refs > 0 => refs + Byes = 1 + RefsPerSsl * (1 + Cardinality(served) + kept)

(***************************************************************************)
(* Whoever waits is accepted, as long as there are descriptors and a       *)
(* context for him (secure_server.c:636-640).                              *)
(***************************************************************************)
QueueIsServed ==
  \A c \in Client :
    c \notin served /\ Here(c) ~> c \in served \/ ~ Up

(***************************************************************************)
(* "plusieurs utilisateurs" (README.md:7) may come and go.                 *)
(***************************************************************************)
\* TLC refutes it: see the disagreements in the README.
StaysUp == main # "crashed"

(***************************************************************************)
(* And the TLS context outlives them: no connection is accepted with a     *)
(* context that was freed (secure_server.c:129,398).                       *)
(***************************************************************************)
\* TLC refutes it: see the disagreements in the README.
ContextIsThere == main # "undefined"
=============================================================================
