-------------------------- MODULE AccountStatements --------------------------
(***************************************************************************)
(* The queries of mysqlite.c step by step.  One global variable, stmt, is  *)
(* the statement that check_user and check_certificate prepare and step,   *)
(* and that add_user_db finalizes; every thread of the secure server uses  *)
(* it, none takes a mutex.  sqlite itself is serialized: each of its calls *)
(* is one step.                                                            *)
(***************************************************************************)
EXTENDS Accounts, FiniteSets

CONSTANTS
  CertOf,     \* the certificate of each client
  Together,   \* bound: how many clients log in at a time
  MaxLogins   \* bound: how often each client logs in

VARIABLES
  db,        \* the table of accounts
  stmt,      \* the statement: none, live or finalized; its query; the rows it gave
  thread,    \* of each client: the call it is in, at which point, and its total
  logins     \* how often each client logged in

vars == <<db, stmt, thread, logins>>

Checks == {"is_connected", "check_user", "check_certificate"}

Idle == [call |-> "idle", at |-> "prepare", total |-> 0]

NoStatement == [state |-> "none", call |-> "idle", login |-> CHOOSE l \in Login : TRUE, given |-> 0]

\* The table as earlier logins, with any certificates, can have left it.
Init ==
  /\ db \in {d \in SUBSET [login : Login, cert : Cert, on : {FALSE}] :
               \A x, y \in d : x # y => x.login # y.login /\ x.cert # y.cert}
  /\ stmt = NoStatement
  /\ thread = [l \in Login |-> Idle]
  /\ logins = [l \in Login |-> 0]

Enter(l, call) == thread' = [thread EXCEPT ![l] = [call |-> call, at |-> "prepare", total |-> 0]]

Busy == {l \in Login : thread[l].call # "idle"}

\* CONNECT_SEC: is_connected calls check_user first, for nothing.
Request(l) ==
  /\ l \notin Busy /\ logins[l] < MaxLogins /\ Cardinality(Busy) < Together
  /\ logins' = [logins EXCEPT ![l] = @ + 1]
  /\ Enter(l, "is_connected")
  /\ UNCHANGED <<db, stmt>>

\* sqlite3_prepare_v2 gives stmt a new statement; the old one is not finalized.
Prepare(l) ==
  /\ thread[l].call \in Checks /\ thread[l].at = "prepare"
  /\ stmt' = [state |-> "live", call |-> thread[l].call, login |-> l, given |-> 0]
  /\ thread' = [thread EXCEPT ![l].at = "step"]
  /\ UNCHANGED <<db, logins>>

Rows(s) ==
  IF s.call = "check_certificate" THEN {a \in db : a.cert = CertOf[s.login]}
                                  ELSE {a \in Registered(s.login, db) : a.cert = CertOf[s.login]}

\* What stepping a finalized statement does is undefined.
Steps(l) == thread[l].at = "step" /\ stmt.state = "live"

StepRow(l) ==
  /\ Steps(l) /\ stmt.given < Cardinality(Rows(stmt))
  /\ stmt' = [stmt EXCEPT !.given = @ + 1]
  /\ thread' = [thread EXCEPT ![l].total = @ + 1]
  /\ UNCHANGED <<db, logins>>

\* What the check answers, and what CONNECT_SEC calls next.
Answer(l) == IF thread[l].total = 0 THEN 1 ELSE -1

After(l) ==
  CASE thread[l].call = "is_connected" -> "check_user"
    [] thread[l].call = "check_user" /\ Answer(l) = 1 -> "check_certificate"
    [] thread[l].call = "check_certificate" /\ Answer(l) = 1 -> "add_user_db"
    [] OTHER -> "idle"

\* SQLITE_DONE; a statement that is stepped again starts over.
StepDone(l) ==
  /\ Steps(l) /\ stmt.given >= Cardinality(Rows(stmt))
  /\ stmt' = [stmt EXCEPT !.given = 0]
  /\ Enter(l, After(l))
  /\ UNCHANGED <<db, logins>>

\* INSERT: its failure is reported, and nobody looks.
Insert(l) ==
  /\ thread[l].call = "add_user_db" /\ thread[l].at = "prepare"
  /\ db' = add_user_db(l, CertOf[l], db)
  /\ IF Registered(l, db) = {} THEN thread' = [thread EXCEPT ![l].at = "finalize"]
                               ELSE Enter(l, "idle")
  /\ UNCHANGED <<stmt, logins>>

\* Finalizing NULL does nothing; stmt is not reset.
Finalize(l) ==
  /\ thread[l].at = "finalize" /\ stmt.state # "finalized"
  /\ stmt' = [stmt EXCEPT !.state = IF @ = "live" THEN "finalized" ELSE @]
  /\ Enter(l, "idle")
  /\ UNCHANGED <<db, logins>>

Finished == Busy = {} /\ (\A l \in Login : logins[l] = MaxLogins) /\ UNCHANGED vars

Next ==
  \/ \E l \in Login : Request(l) \/ Prepare(l) \/ StepRow(l) \/ StepDone(l) \/ Insert(l) \/ Finalize(l)
  \/ Finished

Spec == Init /\ [][Next]_vars

----------------------------------------------------------------------------
\* The values the variables range over; a login has one account.
TypeOK ==
  /\ db \subseteq account /\ \A x, y \in db : x.login = y.login => x = y
  /\ stmt \in [state : {"none", "live", "finalized"}, call : Checks \cup {"idle"},
               login : Login, given : Nat]
  /\ thread \in [Login -> [call : Checks \cup {"add_user_db", "idle"},
                           at : {"prepare", "step", "finalize"}, total : Nat]]
  /\ logins \in [Login -> 0 .. MaxLogins]

(***************************************************************************)
(* A check whose answer is used has looked for what its thread asked: it   *)
(* answers what the table says (mysqlite.c:103-158).                       *)
(***************************************************************************)
AnswersAreRight ==
  [][\A l \in Login :
       thread[l].at = "step" /\ thread'[l].at # "step" /\ thread[l].call # "is_connected" =>
         Answer(l) = IF thread[l].call = "check_certificate"
                     THEN check_certificate(CertOf[l], db)
                     ELSE check_user(l, CertOf[l], db)]_vars
=============================================================================
