-------------------------- MODULE MCSecureServer --------------------------
(***************************************************************************)
(* Instances of SecureServer for TLC: names, certificates and hashes.      *)
(***************************************************************************)
EXTENDS SecureServer, TLC

CONSTANTS c1, c2, c3, A, B, C, D, x, y, z, accueil_sec, R, accueil_sec_bar, R_bar

\* No two names share a bucket.
ApartUsers == [l \in Login |-> l]
ApartRooms == [r \in RoomName |-> r]

Bars == accueil_sec :> accueil_sec_bar @@ R :> R_bar

\* Each connection may log in once; the first one, or each of them, twice.
Once == Client \X {1}
TheFirstTwice == Once \cup {<<c1, 2>>}
Twice == Client \X {1, 2}

\* Each client has a login of its own, or two of its own.
OwnLogins == [c \in Client |-> CASE c = c1 -> {A} [] c = c2 -> {B} [] c = c3 -> {C}]
TwoLoginsEach == [c \in Client |-> IF c = c1 THEN {A, D} ELSE {B, C}]

\* Clients are alike: one may be exchanged for another, with its login and its
\* certificate.
Clients ==
  {[v \in {c2, c3, B, C, y, z} |-> v],
   [v \in {c2, c3, B, C, y, z} |-> CASE v = c2 -> c3 [] v = c3 -> c2 [] v = B -> C
                                     [] v = C -> B [] v = y -> z [] v = z -> y]}

\* Each client has a certificate of its own, or all of them share one.
OwnCertificates == [c \in Client |-> CASE c = c1 -> x [] c = c2 -> y [] c = c3 -> z]
SharedCertificate == [c \in Client |-> x]
=============================================================================
