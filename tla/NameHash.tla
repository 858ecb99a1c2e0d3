------------------------------ MODULE NameHash ------------------------------
(***************************************************************************)
(* The loop that hash_room_name and hash_user share: the bucket of a name, *)
(* one character at a time.  A name may hold any byte but 0: neither       *)
(* server looks at what follows CREATE_ROOM, nor the secure one at a login *)
(* (the plain one does, is_login_valid).  A char is signed where the       *)
(* program is built.                                                       *)
(***************************************************************************)
EXTENDS Integers, Sequences

CONSTANTS
  Character,       \* the bytes that names are made of
  MaxLength,       \* bound: how long names are
  HASH_ROOM_SIZE   \* the number of buckets, of rooms and of users

Digit    == 48 .. 57
Letter   == (65 .. 90) \cup (97 .. 122)
Alphanumeric == Digit \cup Letter

ASSUME HashAssumption ==
  /\ Character \subseteq 1 .. 255
  /\ MaxLength \in Nat /\ HASH_ROOM_SIZE \in Nat \ {0}

VARIABLES
  room_name,   \* the argument
  i,           \* how many of its characters the loop has taken
  hash

vars == <<room_name, i, hash>>

Names == UNION {[1 .. n -> Character] : n \in 0 .. MaxLength}

\* x % n in C: the sign is that of x.
Remainder(x, n) == IF x >= 0 THEN x % n ELSE - ((- x) % n)

\* char c = room_name[i]
char(b) == IF b < 128 THEN b ELSE b - 256

\* Mutant: lower case is not told from upper case.
value_folded(c) == IF c \in Digit THEN c - 48 ELSE IF c > 90 THEN c - 97 + 10 ELSE c - 65 + 10

value(c) == IF c \in Digit THEN c - 48 ELSE c - 65 + 10

Init == room_name \in Names /\ i = 0 /\ hash = 0

\* Mutant: the value is added after the remainder.
StepAddedLast ==
  /\ i < Len(room_name)
  /\ i' = i + 1
  /\ hash' = Remainder(hash * 100, HASH_ROOM_SIZE) + value(char(room_name[i + 1]))
  /\ UNCHANGED room_name

\* Mutant: the remainder is not taken.
StepUnreduced ==
  /\ i < Len(room_name)
  /\ i' = i + 1
  /\ hash' = hash * 100 + value(char(room_name[i + 1]))
  /\ UNCHANGED room_name

Step ==
  /\ i < Len(room_name)
  /\ i' = i + 1
  /\ hash' = Remainder(hash * 100 + value(char(room_name[i + 1])), HASH_ROOM_SIZE)
  /\ UNCHANGED room_name

\* The hash is returned: rooms[hash] or map[hash] follows.
Return == i = Len(room_name) /\ UNCHANGED vars

Next == Step \/ Return

Spec == Init /\ [][Next]_vars

----------------------------------------------------------------------------
INT_MAX == 2147483647

\* The largest hash from which the next turn stays in an int before the remainder.
LargestHash == (INT_MAX - 255) \div 100

\* The variables have the types of the code's, and the int does not overflow.
TypeOK ==
  /\ room_name \in Seq(Character)
  /\ i \in 0 .. Len(room_name)
  /\ hash \in - LargestHash .. LargestHash

(***************************************************************************)
(* "@return -1 si erreur, le haché du nom du salon sinon", a number modulo *)
(* HASH_ROOM_SIZE (room_manager.h:54-59): what is returned is the index of *)
(* a bucket of the table (room_manager.c:52,88,106; user_manager.c:40,57). *)
(***************************************************************************)
IndexInTable == i = Len(room_name) => hash \in 0 .. HASH_ROOM_SIZE - 1

\* What room_manager.h:46-56 says the characters are worth.
DocumentedValue ==
  [c \in Alphanumeric |-> CASE c \in 48 .. 57  -> c - 48
                            [] c \in 65 .. 90  -> 10 + (c - 65)
                            [] c \in 97 .. 122 -> 42 + (c - 97)]

(***************************************************************************)
(* The hash of an alphanumeric name is the number its characters make in   *)
(* base 100, modulo HASH_ROOM_SIZE: the remainder that each turn of the    *)
(* loop takes loses nothing of it (room_manager.h:46-56,                   *)
(* room_manager.c:30-37, user_manager.c:11-18).                            *)
(***************************************************************************)
Number[n \in 0 .. MaxLength] ==
  IF n = 0 THEN 0 ELSE Number[n - 1] * 100 + DocumentedValue[room_name[n]]

HashIsTheNumber ==
  (\A k \in 1 .. i : room_name[k] \in Alphanumeric) => hash = Number[i] % HASH_ROOM_SIZE
=============================================================================
