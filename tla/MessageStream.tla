---------------------------- MODULE MessageStream ----------------------------
(***************************************************************************)
(* One direction of a connection, and the loop that reads it: of either    *)
(* server or of either thread of the client.  A message is a fixed number  *)
(* of bytes, here two halves.  A plain read waits for all of them, and     *)
(* gives fewer only at the end of the connection; a secure one gives a     *)
(* record, which is a message.                                             *)
(***************************************************************************)
EXTENDS Integers, Sequences

CONSTANTS
  Readers,    \* the loops: "server", "secure_server", "client", "secure_client"
  Faults,     \* how the other end may go: "close", "reset", "cut"
  Messages,   \* bound: how many messages are sent
  Capacity    \* how many messages the socket holds

ASSUME StreamAssumption ==
  /\ Readers \subseteq {"server", "secure_server", "client", "secure_client"}
  /\ Faults \subseteq {"close", "reset", "cut"}
  /\ Messages \in Nat /\ Capacity \in Nat \ {0}

VARIABLES
  reader,       \* which loop this is
  sent,         \* how many messages were sent
  wire,         \* the halves on their way, each with the number of its message
  connection,   \* open, closed, reset, or cut in the middle of a message
  buffer,       \* the message the loop reads into
  handled,      \* what it took for messages, in order
  status        \* of the loop: running, or stopped

vars == <<reader, sent, wire, connection, buffer, handled, status>>

Cleared == <<0, 0>>

\* The first buffer of a thread is not initialized: nobody sent what it holds.
Init ==
  /\ reader \in Readers /\ sent = 0 /\ wire = <<>> /\ connection = "open"
  /\ buffer = Cleared /\ handled = <<>> /\ status = "running"

Send ==
  /\ connection = "open" /\ sent < Messages /\ Len(wire) < 2 * Capacity
  /\ sent' = sent + 1
  /\ wire' = wire \o <<sent + 1, sent + 1>>
  /\ UNCHANGED <<reader, connection, buffer, handled, status>>

\* The sender goes: in order; with what is on its way lost, or some of it, be it in
\* the middle of a message; or while the system takes one from it piece by piece.
Go(fault) ==
  /\ connection = "open" /\ fault \in Faults
  /\ connection' = fault
  /\ UNCHANGED <<reader, buffer, handled, status>>

Close == Go("close") /\ UNCHANGED <<sent, wire>>

Reset ==
  /\ Go("reset") /\ UNCHANGED sent
  /\ \E n \in 0 .. Len(wire) : wire' = SubSeq(wire, 1, n)

Cut ==
  /\ Go("cut") /\ sent < Messages
  /\ sent' = sent + 1 /\ wire' = Append(wire, sent + 1)

----------------------------------------------------------------------------
Takes(m, rest) ==
  /\ buffer' = m /\ handled' = Append(handled, m) /\ wire' = rest
  /\ UNCHANGED <<reader, sent, connection, status>>

\* The plain server clears its buffer before it reads.
Before == IF reader = "server" THEN Cleared ELSE buffer

ReadMessage ==
  /\ status = "running" /\ Len(wire) >= 2
  /\ Takes(<<wire[1], wire[2]>>, SubSeq(wire, 3, Len(wire)))

Secure == reader \in {"secure_server", "secure_client"}

\* Nothing more can be read: half a record is nothing.
Drained == Len(wire) < (IF Secure THEN 2 ELSE 1)

\* The end came in the middle of a message: the rest of the buffer is as it was.
ReadHalf ==
  /\ status = "running" /\ Len(wire) = 1 /\ ~ Secure
  /\ Takes(<<Head(wire), Before[2]>>, <<>>)

\* Mutant: the end of the connection is not told from a message.
ReadEndAgain ==
  /\ status = "running" /\ connection \in {"close", "cut"} /\ Drained
  /\ UNCHANGED vars

\* The read returns 0, which every loop takes for the end.
ReadEnd ==
  /\ status = "running" /\ connection \in {"close", "cut"} /\ Drained
  /\ status' = "stopped"
  /\ UNCHANGED <<reader, sent, wire, connection, buffer, handled>>

\* Mutant: the servers look for 0 only, as the clients do.
StopsOnZeroOnly == FALSE

\* The servers stop on anything that is not positive; receive_message answers -1
\* to 0 only.
StopsOnError == reader \in {"server", "secure_server"}

\* The read returns -1 and leaves the buffer alone; the next one will return 0.
ReadError ==
  /\ status = "running" /\ connection = "reset" /\ Drained
  /\ IF StopsOnError THEN status' = "stopped" /\ UNCHANGED <<connection, buffer, handled>>
     ELSE /\ connection' = "close"
          /\ buffer' = Before /\ handled' = Append(handled, Before)
          /\ UNCHANGED status
  /\ UNCHANGED <<reader, sent, wire>>

Read == ReadMessage \/ ReadHalf \/ ReadEnd \/ ReadError

Finished == status = "stopped" /\ UNCHANGED vars

Next == Send \/ Close \/ Reset \/ Cut \/ Read \/ Finished

Spec == Init /\ [][Next]_vars

\* The loop runs; nobody is made to send or to go.
FairSpec == Spec /\ WF_vars(Read)

----------------------------------------------------------------------------
\* How many messages that nobody sent a loop may handle: the plain ones take half a
\* message for one, the clients an error, and the plain client the one and the other.
Spoils == CASE reader = "secure_server" -> 0
            [] reader = "client"        -> 2
            [] OTHER                    -> 1

(***************************************************************************)
(* What a loop handles are the messages that were sent, whole, in their    *)
(* order, and each once (server.c:127-130, secure_server.c:165-168,        *)
(* libclient.c:78-85, libclientsec.c:281-286).  Once the connection has    *)
(* ended the last one or two may be something else (Spoils): never in the  *)
(* secure server, and two in the plain client only.                        *)
(***************************************************************************)
HandledAsSent ==
  \A k \in DOMAIN handled :
    \/ handled[k] = <<k, k>> /\ k <= sent
    \/ k > Len(handled) - Spoils /\ connection # "open"

(***************************************************************************)
(* A loop whose other end went stops, after what was still on its way      *)
(* (server.c:338-354, secure_server.c:464-470, clientsec-cli.c:250-254).   *)
(***************************************************************************)
ReaderStops == connection # "open" ~> status = "stopped"
=============================================================================
