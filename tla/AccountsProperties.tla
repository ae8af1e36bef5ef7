-------------------------- MODULE AccountsProperties --------------------------
(***************************************************************************)
(* What is asked of accounts and sessions. Not every property holds of     *)
(* every configuration: each is named by the runs that check it.           *)
(***************************************************************************)
EXTENDS Accounts

\* The request and locals of a worker at a label: what its next step uses.
WellFormed(label, j) ==
  /\ j \in Job
  /\ label \in {"name", "role", "lookup", "audit", "erase"} => j.token \in Tokens
  /\ label \in {"select", "open"} => j.op = "login" /\ j.name \in Names
  /\ label = "open" => j.role \in Roles
  /\ label = "audit" => j.op \in {"login", "logout"}
  /\ label = "lookup" => j.op = "logout"
  /\ label \in {"find", "name", "register"} /\ j.op = "add_sub_user" =>
       j.new \in Names /\ j.role \in Roles
  /\ label = "register" => j.new \in Names /\ j.role \in Roles

DataOK ==
  /\ users \subseteq User /\ lastUser \in Nat
  /\ audit \subseteq Audit /\ lastAudit \in Nat
  /\ issued \in Seq(Names)
  /\ DOMAIN sessions \subseteq Tokens
  /\ sessions \in [DOMAIN sessions -> Session]
  /\ changed \in BOOLEAN

ControlOK ==
  /\ pc \in [Workers -> Labels]
  /\ job \in [Workers -> Job \cup {Null}]
  /\ \A w \in Workers : pc[w] # "idle" => WellFormed(pc[w], job[w])

\* Every variable has its type, and a worker in a handler has what its next
\* step uses.
TypeOK == DataOK /\ ControlOK

\* A token is in the map only after a login made it, and its session there is
\* that login's user's or, after a race with a logout, the empty one, which is
\* nobody's or the user's with the empty name: whatever workers lose of the map.
SessionsAreOfTheirLogin ==
  \A t \in DOMAIN sessions : Issued(t) /\ sessions[t].name \in {t.name, NoName}

\* The user_id of an audit row is, or was, of the account whose username was
\* looked up for it, and never comes to name another account, though
\* accounts are deleted and registered while logins and logouts are audited
\* and no foreign key is enforced: AUTOINCREMENT gives an id once.
AuditsStayWithTheirUser ==
  \A a \in audit, u \in users : a.user = u.id => u.name = a.name

\* The trail is in order: no logout is written before its login, though the
\* session is in use while the login is still being written.
LogoutsFollowLogins ==
  \A a, b \in audit :
    a.token = b.token /\ a.event = "login" /\ b.event = "logout" => a.id < b.id

\* "Not logged in": a session that has ended does not come back. A token
\* enters the map in the step of the login that makes it.
SessionsStayEnded ==
  [][\A t \in DOMAIN sessions' \ DOMAIN sessions : ~Issued(t)]_vars

\* "Employee sees products of their manager": the owner of a sub-user is the
\* person whose login made the token that the registration was sent with, and
\* anybody else is his own.
OwnersRegisterTheirUsers ==
  [][\A u \in users' \ users :
       \E w \in Workers :
         /\ pc[w] = "register" /\ pc'[w] = "idle"
         /\ u.name = job[w].new
         /\ u.owner = IF job[w].op = "add_user" THEN u.name ELSE job[w].token.name]_vars

\* A handler that was entered is left: every request is answered, or the
\* server restarts.
RequestsAreAnswered == \A w \in Workers : (pc[w] # "idle") ~> (pc[w] = "idle")
=============================================================================
