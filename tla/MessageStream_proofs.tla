------------------------ MODULE MessageStream_proofs ------------------------
(***************************************************************************)
(* Theorems about MessageStream, for connections that carry any number of  *)
(* messages through sockets of any capacity, and end in any way.           *)
(***************************************************************************)
EXTENDS MessageStream, SequenceTheorems, TLAPS

----------------------------------------------------------------------------
(***************************************************************************)
(* What is on the wire continues what was handled.  It is all that was     *)
(* sent, until the connection ends; what is taken for a message after that *)
(* may be something else: half a message, when nothing follows it, and an  *)
(* error, after which the end is read.                                     *)
(***************************************************************************)

\* The values the variables range over.
Typed ==
  /\ reader \in Readers /\ sent \in Nat /\ wire \in Seq(Nat)
  /\ connection \in {"open", "close", "reset", "cut"}
  /\ buffer \in Nat \X Nat /\ handled \in Seq(Nat \X Nat)
  /\ status \in {"running", "stopped"}

\* The first n messages that were handled are the first n that were sent.
AsSent(n) == n <= sent /\ \A k \in 1 .. n : handled[k] = <<k, k>>

\* The halves on the wire are those of the messages that follow.
Continued ==
  /\ AsSent(Len(handled))
  /\ 2 * Len(handled) + Len(wire) <= 2 * sent
  /\ connection = "open" => 2 * Len(handled) + Len(wire) = 2 * sent
  /\ \A i \in 1 .. Len(wire) : 2 * (wire[i] - Len(handled)) \in {i, i + 1}

\* The loop took half a message for one.
HalfRead ==
  /\ ~ Secure /\ connection # "open" /\ wire = <<>>
  /\ Len(handled) > 0 /\ AsSent(Len(handled) - 1)

\* It took an error for one, be it after half a message.
ErrorRead ==
  /\ reader \in {"client", "secure_client"} /\ connection = "close" /\ Drained
  /\ AsSent(Len(handled) - Spoils)

IInv == Typed /\ (Continued \/ HalfRead \/ ErrorRead)

----------------------------------------------------------------------------
\* What is left of a sequence of which the end, or the beginning, is taken.
LEMMA Beginning ==
  ASSUME NEW w \in Seq(Nat), NEW n \in 0 .. Len(w)
  PROVE  /\ SubSeq(w, 1, n) \in Seq(Nat) /\ Len(SubSeq(w, 1, n)) = n
         /\ \A i \in 1 .. n : SubSeq(w, 1, n)[i] = w[i]
<1>1. n \in Nat /\ \A i \in 1 .. n : i \in 1 .. Len(w)
  OBVIOUS
<1>2. QED
  BY <1>1

LEMMA Rest ==
  ASSUME NEW w \in Seq(Nat), Len(w) >= 2
  PROVE  /\ SubSeq(w, 3, Len(w)) \in Seq(Nat) /\ Len(SubSeq(w, 3, Len(w))) = Len(w) - 2
         /\ \A i \in 1 .. Len(w) - 2 : SubSeq(w, 3, Len(w))[i] = w[i + 2]
<1> DEFINE rest == SubSeq(w, 3, Len(w))
<1>1. Len(w) \in Nat /\ \A i \in 3 .. Len(w) : w[i] \in Nat
  OBVIOUS
<1>2. /\ rest \in Seq(Nat) /\ Len(rest) = (IF 3 <= Len(w) THEN Len(w) - 3 + 1 ELSE 0)
      /\ \A i \in 1 .. Len(w) - 3 + 1 : rest[i] = w[3 + i - 1]
  BY <1>1, SubSeqProperties
<1> HIDE DEF rest
<1>3. Len(rest) = Len(w) - 2
  <2>1. Len(w) \in Nat /\ Len(w) >= 2 /\ Len(rest) = (IF 3 <= Len(w) THEN Len(w) - 3 + 1 ELSE 0)
    BY <1>1, <1>2
  <2>2. CASE 3 <= Len(w)
    <3>1. Len(rest) = Len(w) - 3 + 1
      BY <2>1, <2>2
    <3>2. QED
      BY <2>1, <3>1
  <2>3. CASE ~ (3 <= Len(w))
    <3>1. Len(rest) = 0
      BY <2>1, <2>3
    <3>2. Len(w) = 2
      <4>1. \A n \in Nat : n >= 2 /\ ~ (3 <= n) => n = 2
        OBVIOUS
      <4>2. QED
        BY <2>1, <2>3, <4>1
    <3>3. QED
      BY <3>1, <3>2
  <2>4. QED
    BY <2>2, <2>3
<1>4. \A i \in 1 .. Len(w) - 2 : rest[i] = w[i + 2]
  <2>1. \A i \in 1 .. Len(w) - 2 : i \in 1 .. Len(w) - 3 + 1 /\ 3 + i - 1 = i + 2
    BY <1>1
  <2>2. QED
    BY <1>2, <2>1
<1>5. QED
  BY <1>2, <1>3, <1>4 DEF rest

LEMMA InitIInv == Init => IInv
  BY DEF Init, IInv, Typed, Continued, AsSent, Cleared

\* A socket is written to while the connection is there: nothing is spoiled yet.
LEMMA OpenIsContinued ==
  ASSUME IInv, connection = "open"
  PROVE  Typed /\ Continued
  BY DEF IInv, HalfRead, ErrorRead

LEMMA SendStep ==
  ASSUME IInv, Send
  PROVE  IInv'
<1>1. Typed /\ Continued
  BY OpenIsContinued DEF Send
<1> DEFINE m == <<sent + 1, sent + 1>>
<1>2. /\ wire' \in Seq(Nat) /\ Len(wire') = Len(wire) + 2
      /\ \A i \in 1 .. Len(wire) : wire'[i] = wire[i]
      /\ wire'[Len(wire) + 1] = sent + 1 /\ wire'[Len(wire) + 2] = sent + 1
  BY <1>1 DEF Typed, Send
<1>3. Typed'
  BY <1>1, <1>2 DEF Typed, Send
<1>4. Len(wire) \in Nat /\ Len(handled) \in Nat /\ sent \in Nat
  BY <1>1 DEF Typed
<1>5. \A i \in 1 .. Len(wire') : 2 * (wire'[i] - Len(handled)) \in {i, i + 1}
  <2> SUFFICES ASSUME NEW i \in 1 .. Len(wire')
               PROVE  2 * (wire'[i] - Len(handled)) \in {i, i + 1}
    OBVIOUS
  <2>1. 2 * Len(handled) + Len(wire) = 2 * sent
    BY <1>1 DEF Continued, Send
  <2>2. CASE i \in 1 .. Len(wire)
    BY <1>1, <1>2, <2>2 DEF Continued
  <2>3. CASE i \in {Len(wire) + 1, Len(wire) + 2}
    <3>1. wire'[i] = sent + 1
      BY <1>2, <2>3
    <3>2. 2 * (wire'[i] - Len(handled)) = Len(wire) + 2
      BY <1>4, <2>1, <3>1
    <3>3. QED
      BY <1>4, <2>3, <3>2
  <2>4. i \in 1 .. Len(wire) \/ i \in {Len(wire) + 1, Len(wire) + 2}
    BY <1>2, <1>4
  <2>5. QED
    BY <2>2, <2>3, <2>4
<1>6. Continued'
  <2>1. AsSent(Len(handled))'
    BY <1>1, <1>4 DEF Continued, AsSent, Send
  <2>2. 2 * Len(handled') + Len(wire') = 2 * sent'
    <3>1. 2 * Len(handled) + Len(wire) = 2 * sent
      BY <1>1 DEF Continued, Send
    <3>2. sent' = sent + 1 /\ handled' = handled
      BY DEF Send
    <3>3. QED
      BY <1>2, <1>4, <3>1, <3>2
  <2>3. handled' = handled
    BY DEF Send
  <2>4. QED
    BY <1>2, <1>4, <1>5, <2>1, <2>2, <2>3 DEF Continued, Send
<1>7. QED
  BY <1>3, <1>6 DEF IInv

LEMMA CloseStep ==
  ASSUME IInv, Close
  PROVE  IInv'
<1>1. Typed /\ Continued
  BY OpenIsContinued DEF Close, Go
<1>2. Typed'
  BY <1>1 DEF Typed, Close, Go
<1>3. Continued'
  BY <1>1, StreamAssumption DEF Typed, Continued, AsSent, Close, Go
<1>4. QED
  BY <1>2, <1>3 DEF IInv

\* What is lost is the end of what was on its way.
LEMMA ResetStep ==
  ASSUME IInv, Reset
  PROVE  IInv'
<1>1. Typed /\ Continued
  BY OpenIsContinued DEF Reset, Go
<1>2. PICK n \in 0 .. Len(wire) : wire' = SubSeq(wire, 1, n)
  BY DEF Reset
<1>3. Len(wire) \in Nat /\ Len(handled) \in Nat /\ n \in Nat /\ n <= Len(wire)
  BY <1>1 DEF Typed
<1>4. /\ wire' \in Seq(Nat) /\ Len(wire') = n
      /\ \A i \in 1 .. Len(wire') : wire'[i] = wire[i]
  BY <1>1, <1>2, <1>3, Beginning DEF Typed
<1>5. Typed'
  BY <1>1, <1>4 DEF Typed, Reset, Go
<1>6. Continued'
  <2>1. AsSent(Len(handled)) /\ 2 * Len(handled) + Len(wire) <= 2 * sent
    BY <1>1 DEF Continued
  <2>2. AsSent(Len(handled))'
    BY <2>1 DEF AsSent, Reset, Go
  <2>3. /\ handled' = handled /\ connection' = "reset"
        /\ 2 * Len(handled) + Len(wire') <= 2 * sent'
    BY <1>1, <1>3, <1>4, <2>1 DEF Typed, Reset, Go
  <2>4. \A i \in 1 .. Len(wire') : 2 * (wire'[i] - Len(handled)) \in {i, i + 1}
    <3>1. \A i \in 1 .. Len(wire') : i \in 1 .. Len(wire)
      BY <1>3, <1>4
    <3>2. QED
      BY <1>1, <1>4, <3>1 DEF Continued
  <2>5. QED
    BY <2>2, <2>3, <2>4 DEF Continued
<1>7. QED
  BY <1>5, <1>6 DEF IInv

LEMMA CutStep ==
  ASSUME IInv, Cut
  PROVE  IInv'
<1>1. Typed /\ Continued
  BY OpenIsContinued DEF Cut, Go
<1>2. Len(wire) \in Nat /\ Len(handled) \in Nat /\ sent \in Nat
  BY <1>1 DEF Typed
<1>3. /\ wire' \in Seq(Nat) /\ Len(wire') = Len(wire) + 1
      /\ \A i \in 1 .. Len(wire) : wire'[i] = wire[i]
      /\ wire'[Len(wire) + 1] = sent + 1
  BY <1>1 DEF Typed, Cut
<1>4. Typed'
  BY <1>1, <1>3 DEF Typed, Cut, Go
<1>5. 2 * Len(handled) + Len(wire) = 2 * sent
  BY <1>1 DEF Continued, Cut, Go
<1>6. \A i \in 1 .. Len(wire') : 2 * (wire'[i] - Len(handled)) \in {i, i + 1}
  <2> SUFFICES ASSUME NEW i \in 1 .. Len(wire')
               PROVE  2 * (wire'[i] - Len(handled)) \in {i, i + 1}
    OBVIOUS
  <2>1. CASE i \in 1 .. Len(wire)
    BY <1>1, <1>3, <2>1 DEF Continued
  <2>2. CASE i = Len(wire) + 1
    BY <1>2, <1>3, <1>5, <2>2
  <2>3. i \in 1 .. Len(wire) \/ i = Len(wire) + 1
    BY <1>2, <1>3
  <2>4. QED
    BY <2>1, <2>2, <2>3
<1>7. Continued'
  BY <1>1, <1>2, <1>3, <1>5, <1>6 DEF Continued, AsSent, Cut, Go
<1>8. QED
  BY <1>4, <1>7 DEF IInv

\* The two halves at the head of the wire are those of the next message.
LEMMA ReadMessageStep ==
  ASSUME IInv, ReadMessage
  PROVE  IInv'
<1>1. Typed /\ Continued
  BY DEF IInv, Typed, HalfRead, ErrorRead, Drained, ReadMessage
<1>2. Len(wire) \in Nat /\ Len(handled) \in Nat /\ sent \in Nat /\ Len(wire) >= 2
  BY <1>1 DEF Typed, ReadMessage
<1> DEFINE n == Len(handled)
           m == <<wire[1], wire[2]>>
<1>3. wire[1] = n + 1 /\ wire[2] = n + 1 /\ n + 1 <= sent
  <2>1. wire[1] \in Nat /\ wire[2] \in Nat
    BY <1>1, <1>2 DEF Typed
  <2>2. 2 * (wire[1] - n) \in {1, 2} /\ 2 * (wire[2] - n) \in {2, 3} /\ 2 * n + Len(wire) <= 2 * sent
    BY <1>1, <1>2 DEF Continued
  <2>3. QED
    BY <1>2, <2>1, <2>2
<1>4. m = <<n + 1, n + 1>>
  BY <1>1, <1>2, <1>3, Rest DEF Typed
<1>5. /\ wire' \in Seq(Nat) /\ Len(wire') = Len(wire) - 2
      /\ \A i \in 1 .. Len(wire') : wire'[i] = wire[i + 2]
  BY <1>1, <1>2, Rest DEF Typed, ReadMessage, Takes
<1>6. /\ handled' \in Seq(Nat \X Nat) /\ Len(handled') = n + 1
      /\ handled'[n + 1] = <<n + 1, n + 1>> /\ \A k \in 1 .. n : handled'[k] = handled[k]
      /\ buffer' \in Nat \X Nat
  BY <1>1, <1>2, <1>4 DEF Typed, ReadMessage, Takes
<1>7. Typed'
  BY <1>1, <1>5, <1>6 DEF Typed, ReadMessage, Takes
<1>8. \A i \in 1 .. Len(wire') : 2 * (wire'[i] - Len(handled')) \in {i, i + 1}
  <2> SUFFICES ASSUME NEW i \in 1 .. Len(wire')
               PROVE  2 * (wire'[i] - Len(handled')) \in {i, i + 1}
    OBVIOUS
  <2>1. i \in Nat /\ i >= 1 /\ i <= Len(wire) - 2 /\ wire'[i] = wire[i + 2]
    BY <1>2, <1>5
  <2>2. i + 2 \in 1 .. Len(wire)
    BY <1>2, <2>1
  <2>3. wire[i + 2] \in Nat
    BY <1>1, <2>2 DEF Typed
  <2>4. 2 * (wire[i + 2] - n) \in {i + 2, i + 2 + 1}
    BY <1>1, <2>2 DEF Continued
  <2>5. 2 * (wire[i + 2] - (n + 1)) \in {i, i + 1}
    <3>1. \A h \in Nat, l \in Nat, j \in Nat :
            2 * (h - l) \in {j + 2, j + 2 + 1} => 2 * (h - (l + 1)) \in {j, j + 1}
      OBVIOUS
    <3>2. QED
      BY <1>2, <2>1, <2>3, <2>4, <3>1
  <2>6. QED
    BY <1>6, <2>1, <2>5
<1>9. AsSent(Len(handled))'
  <2>1. \A k \in 1 .. n : handled[k] = <<k, k>>
    BY <1>1 DEF Continued, AsSent
  <2>2. \A k \in 1 .. n + 1 : handled'[k] = <<k, k>>
    <3> SUFFICES ASSUME NEW k \in 1 .. n + 1 PROVE handled'[k] = <<k, k>>
      OBVIOUS
    <3>1. k \in 1 .. n \/ k = n + 1
      BY <1>2
    <3>2. CASE k \in 1 .. n
      BY <1>6, <2>1, <3>2
    <3>3. CASE k = n + 1
      BY <1>6, <3>3
    <3>4. QED
      BY <3>1, <3>2, <3>3
  <2>3. sent' = sent
    BY DEF ReadMessage, Takes
  <2>4. QED
    BY <1>3, <1>6, <2>2, <2>3 DEF AsSent
<1>10. Continued'
  <2>1. /\ 2 * Len(handled') + Len(wire') = 2 * Len(handled) + Len(wire)
        /\ sent' = sent /\ connection' = connection
    <3>1. sent' = sent /\ connection' = connection
      BY DEF ReadMessage, Takes
    <3>2. 2 * (n + 1) + (Len(wire) - 2) = 2 * n + Len(wire)
      BY <1>2
    <3>3. QED
      BY <1>5, <1>6, <3>1, <3>2
  <2>2. QED
    BY <1>1, <1>8, <1>9, <2>1 DEF Continued
<1>11. QED
  BY <1>7, <1>10 DEF IInv

\* One more message, whatever it is: those before it are as they were.
LEMMA OneMore ==
  ASSUME Typed, NEW m \in Nat \X Nat, handled' = Append(handled, m), sent' = sent,
         NEW n \in Int, n <= Len(handled), AsSent(n)
  PROVE  /\ handled' \in Seq(Nat \X Nat) /\ Len(handled') = Len(handled) + 1
         /\ \A j \in Int : j <= n => AsSent(j)'
<1>1. /\ handled' \in Seq(Nat \X Nat) /\ Len(handled') = Len(handled) + 1
      /\ \A k \in 1 .. Len(handled) : handled'[k] = handled[k]
      /\ Len(handled) \in Nat
  BY DEF Typed
<1>2. sent' = sent /\ n <= sent /\ \A k \in 1 .. n : handled[k] = <<k, k>>
  BY DEF AsSent
<1>3. ASSUME NEW j \in Int, j <= n PROVE AsSent(j)'
  <2>1. \A k \in 1 .. j : k \in 1 .. n /\ k \in 1 .. Len(handled)
    BY <1>1, <1>3
  <2>2. \A k \in 1 .. j : handled'[k] = <<k, k>>
    BY <1>1, <1>2, <2>1
  <2>3. j <= sent'
    BY <1>2, <1>3 DEF Typed
  <2>4. QED
    BY <2>2, <2>3 DEF AsSent
<1>4. QED
  BY <1>1, <1>3

\* After half a message nothing can be read.
LEMMA ReadHalfStep ==
  ASSUME IInv, ReadHalf
  PROVE  IInv'
<1>1. Typed /\ Continued
  <2>1. wire # <<>> /\ ~ Secure /\ Len(wire) = 1
    BY DEF ReadHalf
  <2>2. ~ HalfRead /\ ~ ErrorRead
    BY <2>1 DEF HalfRead, ErrorRead, Drained
  <2>3. QED
    BY <2>2 DEF IInv
<1> DEFINE m == <<Head(wire), Before[2]>>
<1>2. m \in Nat \X Nat
  <2>1. Before \in Nat \X Nat
    BY <1>1 DEF Typed, Before, Cleared
  <2>2. Head(wire) \in Nat
    <3>1. wire \in Seq(Nat) /\ wire # <<>>
      <4>1. wire \in Seq(Nat) /\ Len(wire) = 1
        BY <1>1 DEF Typed, ReadHalf
      <4>2. QED
        BY <4>1
    <3>2. QED
      BY <3>1, HeadTailProperties
  <2>3. QED
    BY <2>1, <2>2
<1>3. connection # "open"
  <2>1. Len(wire) = 1 /\ Len(handled) \in Nat /\ sent \in Nat
    BY <1>1 DEF Typed, ReadHalf
  <2>2. 2 * Len(handled) + 1 # 2 * sent
    BY <2>1
  <2>3. QED
    BY <1>1, <2>1, <2>2 DEF Continued
<1>4. handled' = Append(handled, m) /\ sent' = sent
  BY DEF ReadHalf, Takes
<1>5. AsSent(Len(handled)) /\ Len(handled) \in Nat
  BY <1>1 DEF Continued, Typed
<1>6. /\ handled' \in Seq(Nat \X Nat) /\ Len(handled') = Len(handled) + 1
      /\ \A j \in Int : j <= Len(handled) => AsSent(j)'
  <2> HIDE DEF m
  <2>1. Len(handled) \in Int /\ Len(handled) <= Len(handled)
    BY <1>5
  <2>2. QED
    BY <1>1, <1>2, <1>4, <1>5, <2>1, OneMore
<1>7. Typed'
  BY <1>1, <1>2, <1>6 DEF Typed, ReadHalf, Takes
<1>8. HalfRead'
  <2>1. Len(handled') - 1 = Len(handled)
    BY <1>5, <1>6
  <2>2. Len(handled) <= sent' /\ \A k \in 1 .. Len(handled) : handled'[k] = <<k, k>>
    <3>1. \A j \in Int : j <= Len(handled) =>
            j <= sent' /\ \A k \in 1 .. j : handled'[k] = <<k, k>>
      BY <1>6 DEF AsSent
    <3>2. Len(handled) \in Int /\ Len(handled) <= Len(handled)
      BY <1>5
    <3>3. QED
      BY <3>1, <3>2
  <2>3. AsSent(Len(handled) - 1)'
    BY <2>1, <2>2 DEF AsSent
  <2>4. QED
    BY <1>3, <1>5, <1>6, <2>3 DEF HalfRead, ReadHalf, Takes, Secure
<1>9. QED
  BY <1>7, <1>8 DEF IInv

\* The servers stop on an error; a client takes it for a message, and may have taken
\* half a message for one before.
LEMMA ReadErrorStep ==
  ASSUME IInv, ReadError
  PROVE  IInv'
<1>1. Typed /\ (Continued \/ HalfRead) /\ Drained
  BY DEF IInv, ErrorRead, ReadError
<1>2. CASE StopsOnError
  BY <1>1, <1>2 DEF IInv, Typed, Continued, HalfRead, AsSent, Secure, ReadError
<1>3. CASE ~ StopsOnError
  <2>1. Before \in Nat \X Nat
    BY <1>1 DEF Typed, Before, Cleared
  <2>2. reader \in {"client", "secure_client"}
    BY <1>1, <1>3, StreamAssumption DEF Typed, StopsOnError
  <2>3. /\ handled' = Append(handled, Before) /\ buffer' = Before /\ sent' = sent
        /\ connection' = "close" /\ reader' = reader /\ wire' = wire /\ status' = status
    BY <1>3 DEF ReadError
  <2>4. Spoils = (IF reader = "client" THEN 2 ELSE 1)
    BY <2>2 DEF Spoils
  <2>5. Len(handled) \in Nat
    BY <1>1 DEF Typed
  <2>6. PICK n \in Int : /\ n <= Len(handled) /\ AsSent(n)
                         /\ Len(handled) + 1 - Spoils <= n
    <3>1. CASE Continued
      BY <2>4, <2>5, <3>1 DEF Continued
    <3>2. CASE HalfRead
      <4>1. reader = "client" /\ AsSent(Len(handled) - 1)
        BY <2>2, <3>2 DEF HalfRead, Secure
      <4>2. QED
        BY <2>4, <2>5, <4>1
    <3>3. QED
      BY <1>1, <3>1, <3>2
  <2>7. /\ handled' \in Seq(Nat \X Nat) /\ Len(handled') = Len(handled) + 1
        /\ \A j \in Int : j <= n => AsSent(j)'
    BY <1>1, <2>1, <2>3, <2>6, OneMore
  <2>8. Typed'
    BY <1>1, <2>1, <2>3, <2>7 DEF Typed
  <2>9. ErrorRead'
    <3>1. Spoils' = Spoils /\ Spoils \in Int
      BY <2>3, <2>4 DEF Spoils
    <3>2. Drained'
      BY <1>1, <2>3 DEF Drained, Secure
    <3> DEFINE j == Len(handled) + 1 - Spoils
    <3>3. j \in Int /\ j <= n
      BY <2>5, <2>6, <3>1
    <3>4. j <= sent' /\ \A k \in 1 .. j : handled'[k] = <<k, k>>
      BY <2>7, <3>3 DEF AsSent
    <3>5. AsSent(Len(handled) - Spoils)'
      BY <2>7, <3>1, <3>4 DEF AsSent
    <3>6. QED
      BY <2>2, <2>3, <3>2, <3>5 DEF ErrorRead
  <2>10. QED
    BY <2>8, <2>9 DEF IInv
<1>4. QED
  BY <1>2, <1>3

LEMMA ReadEndStep ==
  ASSUME IInv, ReadEnd
  PROVE  IInv'
<1>1. /\ status' = "stopped"
      /\ UNCHANGED <<reader, sent, wire, connection, buffer, handled>>
  BY DEF ReadEnd
<1>2. Typed'
  BY <1>1 DEF IInv, Typed
<1>3. Continued => Continued'
  BY <1>1 DEF Continued, AsSent
<1>4. HalfRead => HalfRead'
  BY <1>1 DEF HalfRead, AsSent, Secure
<1>5. ErrorRead => ErrorRead'
  BY <1>1 DEF ErrorRead, AsSent, Drained, Secure, Spoils
<1>6. QED
  BY <1>2, <1>3, <1>4, <1>5 DEF IInv

LEMMA NextIInv == IInv /\ [Next]_vars => IInv'
<1> SUFFICES ASSUME IInv, [Next]_vars PROVE IInv'
  OBVIOUS
<1>1. CASE Send \/ Close \/ Reset \/ Cut \/ Read
  BY <1>1, SendStep, CloseStep, ResetStep, CutStep, ReadMessageStep, ReadHalfStep,
     ReadErrorStep, ReadEndStep DEF Read
<1>2. CASE UNCHANGED vars
  BY <1>2 DEF IInv, Typed, Continued, HalfRead, ErrorRead, AsSent, Drained, Secure, Spoils, vars
<1>3. QED
  BY <1>1, <1>2 DEF Next, Finished

THEOREM InvariantHolds == Spec => []IInv
  BY InitIInv, NextIInv, PTL DEF Spec

----------------------------------------------------------------------------
LEMMA IInvHandledAsSent == IInv => HandledAsSent
<1> SUFFICES ASSUME IInv, NEW k \in DOMAIN handled
             PROVE  \/ handled[k] = <<k, k>> /\ k <= sent
                    \/ k > Len(handled) - Spoils /\ connection # "open"
  BY DEF HandledAsSent
<1>1. /\ k \in 1 .. Len(handled) /\ Len(handled) \in Nat /\ sent \in Nat
      /\ reader \in {"server", "secure_server", "client", "secure_client"}
  BY StreamAssumption DEF IInv, Typed
<1>2. ASSUME NEW n \in Int, AsSent(n), k <= n
      PROVE  handled[k] = <<k, k>> /\ k <= sent
  <2>1. k \in 1 .. n
    BY <1>1, <1>2
  <2>2. handled[k] = <<k, k>>
    BY <1>2, <2>1 DEF AsSent
  <2>3. k <= sent
    BY <1>1, <1>2 DEF AsSent
  <2>4. QED
    BY <2>2, <2>3
<1>3. Spoils = (IF reader = "secure_server" THEN 0 ELSE IF reader = "client" THEN 2 ELSE 1)
  BY <1>1 DEF Spoils
<1>4. CASE Continued
  <2>1. AsSent(Len(handled)) /\ k <= Len(handled)
    BY <1>1, <1>4 DEF Continued
  <2>2. QED
    BY <1>1, <1>2, <2>1
<1>5. CASE HalfRead
  <2>1. Spoils >= 1 /\ Spoils \in Int /\ connection # "open"
    BY <1>1, <1>3, <1>5 DEF HalfRead, Secure
  <2>2. CASE k = Len(handled)
    BY <1>1, <2>1, <2>2
  <2>3. CASE k # Len(handled)
    <3>1. AsSent(Len(handled) - 1) /\ k <= Len(handled) - 1
      BY <1>1, <1>5, <2>3 DEF HalfRead
    <3>2. QED
      BY <1>1, <1>2, <3>1
  <2>4. QED
    BY <2>2, <2>3
<1>6. CASE ErrorRead
  <2>1. AsSent(Len(handled) - Spoils) /\ connection # "open"
    BY <1>6 DEF ErrorRead
  <2>2. Len(handled) - Spoils \in Int
    BY <1>1, <1>3
  <2>3. CASE k > Len(handled) - Spoils
    BY <2>1, <2>3
  <2>4. CASE k <= Len(handled) - Spoils
    BY <1>2, <2>1, <2>2, <2>4
  <2>5. QED
    BY <1>1, <2>2, <2>3, <2>4
<1>7. QED
  BY <1>4, <1>5, <1>6 DEF IInv

(***************************************************************************)
(* Whatever the reader and however many messages, what a loop handles are  *)
(* those that were sent, whole, in their order, and each once; but, when   *)
(* the connection has ended, for the last one, and the last two of the     *)
(* plain client; never in the secure server (server.c:127-130,             *)
(* secure_server.c:165-168, libclient.c:78-85, libclientsec.c:281-286).    *)
(***************************************************************************)
THEOREM LoopsHandleWhatWasSent == Spec => []HandledAsSent
  BY InvariantHolds, IInvHandledAsSent, PTL
=============================================================================
