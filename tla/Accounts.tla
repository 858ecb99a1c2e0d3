------------------------------ MODULE Accounts ------------------------------
(***************************************************************************)
(* The table of accounts of src/src/common_server/mysqlite.c, as operators *)
(* on its value: a set of rows, whose logins are UNIQUE.  A query that     *)
(* sqlite runs to its end answers 1 or -1, as in the code: both checks     *)
(* answer 1 when they find NO row.                                         *)
(***************************************************************************)
EXTENDS Integers

CONSTANTS
  Login,   \* the names a client may ask for
  Cert     \* the subjects of the certificates

account == [login : Login, cert : Cert, on : BOOLEAN]

\* CREATE TABLE IF NOT EXISTS, the first time the server runs.
EmptyTable == {}

Registered(l, db) == {a \in db : a.login = l}

check_user(l, d, db) ==
  IF \E a \in Registered(l, db) : a.cert = d THEN -1 ELSE 1

check_certificate(d, db) == IF \E a \in db : a.cert = d THEN -1 ELSE 1

\* Mutant: the status of a new account starts at 1.
add_user_db_connected(l, d, db) ==
  IF Registered(l, db) # {} THEN db
  ELSE db \cup {[login |-> l, cert |-> d, on |-> TRUE]}

\* INSERT fails on a login that is taken, and leaves the table alone.
add_user_db(l, d, db) ==
  IF Registered(l, db) # {} THEN db
  ELSE db \cup {[login |-> l, cert |-> d, on |-> FALSE]}

\* Mutant: the DELETE is prepared and never run.
delete_user_prepared(l, db) == db

delete_user(l, db) == db \ Registered(l, db)

\* The SELECT is run for its success only: its rows are not looked at.
is_connected(l, db) == 1

\* The status is toggled, whatever it was.
change_status(l, db) ==
  (db \ Registered(l, db)) \cup {[a EXCEPT !.on = ~ @] : a \in Registered(l, db)}
=============================================================================
