--------------------------- MODULE NameHash_proofs ---------------------------
(***************************************************************************)
(* What NameHash promises of names of any length, in tables of any size    *)
(* whose hash fits an int: the names the comment of hash_room_name is      *)
(* about find a bucket.                                                    *)
(***************************************************************************)
EXTENDS NameHash, TLAPS

\* A documented character is its own char, worth a number below 100.
LEMMA ValueBound ==
  ASSUME NEW c \in Alphanumeric
  PROVE  char(c) = c /\ value(c) \in 0 .. 67
  BY DEF Alphanumeric, Digit, Letter, char, value

\* The remainder of a number that is not negative is below the divisor.
LEMMA RemainderBound ==
  ASSUME NEW x \in Nat, NEW n \in Nat \ {0}
  PROVE  Remainder(x, n) \in 0 .. n - 1
  BY DEF Remainder

\* The inductive invariant: the hash is in the table at every turn of the loop.
IInv ==
  /\ room_name \in Seq(Character)
  /\ i \in 0 .. Len(room_name)
  /\ hash \in 0 .. HASH_ROOM_SIZE - 1

LEMMA InitIInv ==
  ASSUME Init
  PROVE  IInv
  <1>1. PICK n \in 0 .. MaxLength : room_name \in [1 .. n -> Character]
    BY DEF Init, Names
  <1>2. room_name \in Seq(Character) /\ Len(room_name) \in Nat
    BY <1>1, HashAssumption
  <1>3. QED BY <1>2, HashAssumption DEF Init, IInv

LEMMA NextIInv ==
  ASSUME Character \subseteq Alphanumeric, IInv, [Next]_vars
  PROVE  IInv'
  <1>1. CASE Step
    <2>1. room_name[i + 1] \in Alphanumeric
      BY <1>1 DEF Step, IInv
    <2>2. hash * 100 + value(char(room_name[i + 1])) \in Nat
      <3>1. value(char(room_name[i + 1])) \in Nat
        BY <2>1, ValueBound
      <3>2. hash \in Nat
        BY HashAssumption DEF IInv
      <3>3. QED BY <3>1, <3>2
    <2>3. hash' \in 0 .. HASH_ROOM_SIZE - 1
      BY <1>1, <2>2, RemainderBound, HashAssumption DEF Step
    <2>4. room_name' = room_name /\ i' \in 0 .. Len(room_name)
      BY <1>1 DEF Step, IInv
    <2>5. QED BY <2>3, <2>4 DEF IInv
  <1>2. CASE Return \/ UNCHANGED vars
    BY <1>2 DEF Return, vars, IInv
  <1>3. QED BY <1>1, <1>2 DEF Next

(***************************************************************************)
(* Every name of digits and letters hashes to the index of a bucket, in a  *)
(* table of any size (room_manager.h:46-59, room_manager.c:23-41).         *)
(***************************************************************************)
THEOREM DocumentedNamesHaveABucket ==
  ASSUME Character \subseteq Alphanumeric
  PROVE  Spec => []IndexInTable
  <1>1. Init => IInv
    BY InitIInv
  <1>2. IInv /\ [Next]_vars => IInv'
    BY NextIInv
  <1>3. IInv => IndexInTable
    BY DEF IInv, IndexInTable
  <1>4. QED BY <1>1, <1>2, <1>3, PTL DEF Spec

(***************************************************************************)
(* The hash of such a name, and what the loop makes of it, fit an int.     *)
(***************************************************************************)
THEOREM DocumentedNamesFit ==
  ASSUME Character \subseteq Alphanumeric, HASH_ROOM_SIZE <= LargestHash
  PROVE  Spec => []TypeOK
  <1>1. Init => IInv
    BY InitIInv
  <1>2. IInv /\ [Next]_vars => IInv'
    BY NextIInv
  <1>3. LargestHash \in Nat
    BY SMT DEF LargestHash, INT_MAX
  <1>4. IInv => TypeOK
    BY <1>3, HashAssumption DEF IInv, TypeOK
  <1>5. QED BY <1>1, <1>2, <1>4, PTL DEF Spec
=============================================================================
