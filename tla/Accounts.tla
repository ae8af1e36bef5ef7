------------------------------- MODULE Accounts -------------------------------
(***************************************************************************)
(* Registration, login, logout, the session check every handler begins     *)
(* with, the audit of logins, and the deletion of users.                   *)
(*                                                                         *)
(* Shared by the worker threads without a lock of the program's own: the   *)
(* tables users and audit, sqlite3_changes() of their one connection, and  *)
(* the global map `sessions`. A check finds the token in the map and then  *)
(* reads sessions[token], once for each field; operator[] of a token that  *)
(* has gone in between inserts an empty session. The map is an             *)
(* unordered_map: an operation on it that overlaps an insertion or an      *)
(* erasure of another worker is undefined, and the outcomes that do not    *)
(* end the process are alternatives of the operation.                      *)
(*                                                                         *)
(* Passwords are left out: a login gives the right one or a wrong one. The *)
(* time in a token counts logins: system_clock, in nanoseconds, gives two  *)
(* logins of one user two tokens.                                          *)
(***************************************************************************)
EXTENDS Integers, Sequences, FiniteSets

CONSTANTS
  Workers,       \* the server's threads
  Names,         \* the usernames people register; it may have the empty one
  Lower,         \* [Names \cup {""} -> Names \cup {""}], tolower
  Roles,         \* what people choose as a role
  Null,          \* an unused variable
  Offered,       \* the requests clients make
  MaxUsers,      \* users ever registered
  MaxLogins,     \* logins ever made
  MaxAudits,     \* no logout begins once so many audit rows were written
  DiskFaults,    \* whether a statement may fail
  Crashes        \* whether the machine may stop

\* What an operator[] that inserts leaves in the map.
NoName == ""
Empty == [name |-> NoName, role |-> ""]

\* Requests that pass the session check: their tokens come from clients.
Checked == {"me", "current_user", "add_sub_user", "delete_user", "list_users",
            "get_users", "audit_users"}
Requests == Checked \cup {"login", "add_user", "logout"}

\* What a login gives out.
Tokens == [name: Names, time: 1 .. MaxLogins]

ASSUME WorkersAssumption == IsFiniteSet(Workers)

ASSUME NamesAssumption ==
  /\ Null \notin Tokens
  /\ Lower \in [Names \cup {NoName} -> Names \cup {NoName}]
  /\ Lower[NoName] = NoName

ASSUME BoundsAssumption ==
  /\ Offered \subseteq Requests
  /\ MaxUsers \in Nat /\ MaxLogins \in Nat /\ MaxAudits \in Nat
  /\ DiskFaults \in BOOLEAN
  /\ Crashes \in BOOLEAN

VARIABLES
  users,         \* the rows of table users
  lastUser,      \* its AUTOINCREMENT counter
  audit,         \* the rows of table audit
  lastAudit,     \* its AUTOINCREMENT counter
  issued,        \* who each login so far was of: tokens are given out for these
  sessions,      \* the map, as a function from the tokens in it
  changed,       \* sqlite3_changes(db_prodexa) > 0
  pc,            \* where each worker is in its handler
  job,           \* its request and local variables
  answer         \* the response sent in the last step, if one was

database == <<users, lastUser, audit, lastAudit>>
vars == <<users, lastUser, audit, lastAudit, issued, sessions, changed, pc, job, answer>>

\* username + "_" + the clock: only logins make one.
Issued(t) == t.time \in DOMAIN issued /\ issued[t.time] = t.name

User == [id: Nat, owner: Names \cup {NoName}, name: Names, role: Roles]
Session == [name: Names \cup {NoName}, role: Roles \cup {""}]

\* `name`, `token` and `event` are not columns: they say for which username,
\* and which login or logout, userAudit was called.
Audit == [id: Nat, owner: Names \cup {NoName}, user: Nat, name: Names \cup {NoName},
          token: Tokens, event: {"login", "logout"}]

\* `dangles`: the node of a logout's iterator was erased by another.
Job == [op: Requests, token: Tokens \cup {Null}, name: Names \cup {NoName},
        role: Roles \cup {""}, new: Names \cup {NoName}, user: Nat,
        owner: Names \cup {NoName}, right: BOOLEAN, query: SUBSET Names,
        dangles: BOOLEAN]

Request(o) == [op |-> o, token |-> Null, name |-> NoName, role |-> "",
               new |-> NoName, user |-> 0, owner |-> NoName, right |-> TRUE,
               query |-> {}, dangles |-> FALSE]

Labels == {"idle", "find", "name", "role", "work", "changes", "register",
           "select", "open", "audit", "lookup", "erase"}

Init ==
  /\ users = {} /\ lastUser = 0
  /\ audit = {} /\ lastAudit = 0
  /\ issued = <<>>
  /\ sessions = [t \in {} |-> Empty]
  /\ changed = FALSE
  /\ pc = [w \in Workers |-> "idle"]
  /\ job = [w \in Workers |-> Null]
  /\ answer = Null

-----------------------------------------------------------------------------
(* Control of one worker. *)

Continue(w, label, j) ==
  /\ pc' = [pc EXCEPT ![w] = label]
  /\ job' = [job EXCEPT ![w] = j]
  /\ answer' = Null

Respond(w, status, shown) ==
  /\ pc' = [pc EXCEPT ![w] = "idle"]
  /\ job' = [job EXCEPT ![w] = Null]
  /\ answer' = [status |-> status, shown |-> shown]

Reply(w, status) == Respond(w, status, {})

Accept(w, label, j) ==
  /\ pc[w] = "idle"
  /\ j.op \in Offered
  /\ Continue(w, label, j)
  /\ UNCHANGED <<database, issued, sessions, changed>>

-----------------------------------------------------------------------------
(* The session check: find, then sessions[token] once per field read.      *)

\* Fault: a login is answered before it is audited.
GivenAtOnce(t) == Issued(t)

\* A client has the token of a login that has answered, or none that a login
\* ever made: Null stands for those.
Given(t) ==
  /\ Issued(t)
  /\ \A w \in Workers : pc[w] = "audit" /\ job[w].op = "login" => job[w].token # t

Sent == {t \in Tokens : Given(t)} \cup {Null}

AcceptPlain(w) ==
  \E op \in {"me", "current_user", "list_users", "audit_users"}, t \in Sent :
    Accept(w, "find", [Request(op) EXCEPT !.token = t])

\* A search text, as the set of usernames it is found in.
AcceptGetUsers(w) ==
  \E t \in Sent, q \in SUBSET Names :
    Accept(w, "find", [Request("get_users") EXCEPT !.token = t, !.query = q])

Registering == {w \in Workers : pc[w] # "idle" /\ job[w].op \in {"add_user", "add_sub_user"}}

AcceptSubUser(w) ==
  /\ lastUser + Cardinality(Registering) < MaxUsers
  /\ \E t \in Sent, n \in Names, r \in Roles, fit \in BOOLEAN :
       Accept(w, "find", [Request("add_sub_user") EXCEPT !.token = t, !.new = n,
                                                         !.role = r, !.right = fit])

AcceptDeleteUser(w) ==
  \E t \in Sent, id \in 1 .. MaxUsers :
    Accept(w, "find", [Request("delete_user") EXCEPT !.token = t, !.user = id])

AcceptLogout(w) ==
  /\ lastAudit < MaxAudits
  /\ \E t \in Sent : Accept(w, "find", [Request("logout") EXCEPT !.token = t])

Present(t) == t \in DOMAIN sessions

Without(map, gone) == [k \in DOMAIN map \ gone |-> map[k]]

\* Another worker is about to insert into the map, or to erase from it.
Raced(w) ==
  \E v \in Workers \ {w} :
    \/ pc[v] \in {"open", "erase"}
    \/ pc[v] \in {"name", "role"} /\ ~Present(job[v].token)

\* What is left of the map when w makes it that one: of two that write the
\* links of its nodes at a time, either may lose some of them.
Outcomes(w, map) ==
  IF Raced(w) THEN {Without(map, gone) : gone \in SUBSET DOMAIN map} ELSE {map}

\* What w reads of t's session: while another worker erases it, of memory that
\* is freed and may be a newer session's.
Read(w, t) ==
  {sessions[t]} \cup
  (IF \E v \in Workers \ {w} : pc[v] = "erase" /\ (job[v].token = t \/ job[v].dangles)
   THEN Session ELSE {})

\* find; it may miss a session while the map is written.
NotLoggedIn(w) ==
  /\ pc[w] = "find"
  /\ ~Present(job[w].token) \/ Raced(w)
  /\ Reply(w, 401)
  /\ UNCHANGED <<database, issued, sessions, changed>>

\* Fault: /me does not look the token up.
LoggedInOrMe(w) ==
  /\ pc[w] = "find"
  /\ Present(job[w].token) \/ (job[w].op = "me" /\ job[w].token # Null)
  /\ IF job[w].op = "logout"
     THEN \E s \in Read(w, job[w].token) : Continue(w, "lookup", [job[w] EXCEPT !.name = s.name])
     ELSE Continue(w, "name", job[w])
  /\ UNCHANGED <<database, issued, sessions, changed>>

\* /logout keeps the iterator and reads the name through it.
LoggedIn(w) ==
  /\ pc[w] = "find"
  /\ Present(job[w].token)
  /\ IF job[w].op = "logout"
     THEN \E s \in Read(w, job[w].token) : Continue(w, "lookup", [job[w] EXCEPT !.name = s.name])
     ELSE Continue(w, "name", job[w])
  /\ UNCHANGED <<database, issued, sessions, changed>>

Inserted(t, session) ==
  [k \in DOMAIN sessions \cup {t} |-> IF k = t THEN session ELSE sessions[k]]

\* operator[], and the session it refers to: an absent key, or one it misses
\* while the map is written, gets an empty session.
Subscripted(w, t, s) ==
  \/ /\ Present(t)
     /\ s \in Read(w, t)
     /\ UNCHANGED sessions
  \/ /\ ~Present(t) \/ Raced(w)
     /\ s = Empty
     /\ sessions' \in Outcomes(w, Inserted(t, Empty))

\* Where a handler goes once it has the name: two do not read the role.
AfterName(op) == CASE op = "add_sub_user" -> "register"
                   [] op = "get_users" -> "work"
                   [] OTHER -> "role"

\* Fault: the owner of a sub-user is not set.
ReadNoName(w) ==
  /\ pc[w] = "name"
  /\ \E s \in Session : Subscripted(w, job[w].token, s)
  /\ Continue(w, AfterName(job[w].op), job[w])
  /\ UNCHANGED <<database, issued, changed>>

ReadName(w) ==
  /\ pc[w] = "name"
  /\ \E s \in Session :
       /\ Subscripted(w, job[w].token, s)
       /\ Continue(w, AfterName(job[w].op), [job[w] EXCEPT !.name = s.name])
  /\ UNCHANGED <<database, issued, changed>>

ReadRole(w) ==
  /\ pc[w] = "role"
  /\ \E s \in Session :
       /\ Subscripted(w, job[w].token, s)
       /\ Continue(w, "work", [job[w] EXCEPT !.role = s.role])
  /\ UNCHANGED <<database, issued, changed>>

-----------------------------------------------------------------------------
(* /login *)

AcceptLogin(w) ==
  /\ Len(issued) + Cardinality({v \in Workers : pc[v] \in {"select", "open"}}) < MaxLogins
  /\ \E n \in Names, right \in BOOLEAN :
       Accept(w, "select", [Request("login") EXCEPT !.name = n, !.right = right])

\* users.username is UNIQUE: a name has one row or none.
Accounts(n) == {u \in users : u.name = n}

\* "Invalid credentials" also when the statement fails; "DB error" when it
\* cannot be prepared.
Refused(w) ==
  /\ pc[w] = "select"
  /\ \/ (Accounts(job[w].name) = {} \/ ~job[w].right \/ DiskFaults) /\ Reply(w, 401)
     \/ DiskFaults /\ Reply(w, 500)
  /\ UNCHANGED <<database, issued, sessions, changed>>

SelectUser(w) ==
  /\ pc[w] = "select"
  /\ job[w].right
  /\ \E u \in Accounts(job[w].name) :
       Continue(w, "open", [job[w] EXCEPT !.user = u.id, !.owner = u.owner, !.role = u.role])
  /\ UNCHANGED <<database, issued, sessions, changed>>

\* sessions[t] = {n, role}
Opened(w, t, n, role) ==
  /\ issued' = Append(issued, t.name)
  /\ sessions' \in Outcomes(w, Inserted(t, [name |-> n, role |-> role]))
  /\ UNCHANGED <<database, changed>>

NewToken(n) == [name |-> n, time |-> Len(issued) + 1]

\* Fault: the worker does not keep the token it audits.
OpenUnnamedSession(w) ==
  /\ pc[w] = "open"
  /\ Opened(w, NewToken(job[w].name), job[w].name, job[w].role)
  /\ Continue(w, "audit", job[w])

\* Fault: the username is one variable for all the threads.
OpenSharedSession(w) ==
  /\ pc[w] = "open"
  /\ \E v \in Workers :
       /\ pc[v] # "idle" /\ job[v].name # NoName
       /\ Opened(w, NewToken(job[w].name), job[v].name, job[w].role)
  /\ Continue(w, "audit", [job[w] EXCEPT !.token = NewToken(job[w].name)])

\* sessions[token] = {username, role}, before the login is audited.
OpenSession(w) ==
  /\ pc[w] = "open"
  /\ Opened(w, NewToken(job[w].name), job[w].name, job[w].role)
  /\ Continue(w, "audit", [job[w] EXCEPT !.token = NewToken(job[w].name)])

AuditRow(j) == [id |-> lastAudit + 1, owner |-> j.owner, user |-> j.user,
                name |-> j.name, token |-> j.token, event |-> j.op]

\* userAudit, of /login and of /logout; a failed INSERT is logged and no more.
WriteAudit(w) ==
  /\ pc[w] = "audit"
  /\ \/ /\ audit' = audit \cup {AuditRow(job[w])}
        /\ lastAudit' = lastAudit + 1
        /\ changed' = TRUE
     \/ /\ DiskFaults
        /\ changed' \in BOOLEAN
        /\ UNCHANGED <<audit, lastAudit>>
  /\ IF job[w].op = "login" THEN Reply(w, 200) ELSE Continue(w, "erase", job[w])
  /\ UNCHANGED <<users, lastUser, issued, sessions>>

-----------------------------------------------------------------------------
(* /logout, after the token is found *)

\* Fault: a session whose account is gone is not logged out.
LookUpExistingUser(w) ==
  /\ pc[w] = "lookup"
  /\ \E u \in Accounts(job[w].name) :
       Continue(w, "audit", [job[w] EXCEPT !.user = u.id, !.owner = u.owner])
  /\ UNCHANGED <<database, issued, sessions, changed>>

LookUpUser(w) ==
  /\ pc[w] = "lookup"
  /\ \/ \E u \in Accounts(job[w].name) :
          Continue(w, "audit", [job[w] EXCEPT !.user = u.id, !.owner = u.owner])
     \/ /\ Accounts(job[w].name) = {} \/ DiskFaults
        /\ Continue(w, "erase", job[w])
  /\ UNCHANGED <<database, issued, sessions, changed>>

\* "Database error", when the look-up cannot be prepared: the session stays.
LogoutFails(w) ==
  /\ DiskFaults
  /\ pc[w] = "lookup"
  /\ Reply(w, 500)
  /\ UNCHANGED <<database, issued, sessions, changed>>

Holds(v, t) == pc[v] \in {"lookup", "audit", "erase"} /\ job[v].op = "logout" /\ job[v].token = t

\* erase(it). The iterators of other logouts to that node dangle from now on.
\* An iterator that dangles may erase whatever session is in that memory now.
EraseSession(w) ==
  /\ pc[w] = "erase"
  /\ \E gone \in {job[w].token} \cup (IF job[w].dangles THEN DOMAIN sessions ELSE {}) :
       /\ sessions' \in Outcomes(w, Without(sessions, {gone}))
       /\ job' = [v \in Workers |-> IF v = w THEN Null
                                    ELSE IF Holds(v, gone) THEN [job[v] EXCEPT !.dangles = TRUE]
                                    ELSE job[v]]
  /\ pc' = [pc EXCEPT ![w] = "idle"]
  /\ answer' = [status |-> 200, shown |-> {}]
  /\ UNCHANGED <<database, issued, changed>>

-----------------------------------------------------------------------------
(* /add_user and /add_sub_user *)

AcceptUser(w) ==
  /\ lastUser + Cardinality(Registering) < MaxUsers
  /\ \E n \in Names, r \in Roles, fit \in BOOLEAN :
       Accept(w, "register", [Request("add_user") EXCEPT !.name = n, !.new = n,
                                                         !.role = r, !.right = fit])

\* Fault: the key is not AUTOINCREMENT, so it follows the rows there are.
NextFreeUser ==
  CHOOSE n \in 1 .. lastUser + 1 :
    /\ \A u \in users : u.id < n
    /\ n = 1 \/ \E u \in users : u.id = n - 1

\* AUTOINCREMENT: above every key the table ever had.
NextUser == lastUser + 1

\* A person who registers is his own owner; a sub-user's owner is the name in
\* the session. The UNIQUE constraint refuses a name that is taken.
Register(w) ==
  /\ pc[w] = "register"
  /\ LET j == job[w] IN
       \/ /\ ~j.right
          /\ \E status \in IF j.op = "add_user" THEN {400, 402} ELSE {400} : Reply(w, status)
          /\ UNCHANGED <<users, lastUser, changed>>
       \/ /\ j.right /\ DiskFaults
          /\ Reply(w, 500)
          /\ UNCHANGED <<users, lastUser, changed>>
       \/ /\ j.right
          /\ Accounts(j.new) # {} \/ DiskFaults
          /\ changed' \in BOOLEAN
          /\ Reply(w, 409)
          /\ UNCHANGED <<users, lastUser>>
       \/ /\ j.right
          /\ Accounts(j.new) = {}
          /\ users' = users \cup
               {[id |-> NextUser, owner |-> j.name, name |-> j.new, role |-> j.role]}
          /\ lastUser' = NextUser
          /\ changed' = TRUE
          /\ Reply(w, 200)
  /\ UNCHANGED <<audit, lastAudit, issued, sessions>>

-----------------------------------------------------------------------------
(* The handlers behind a session check. *)

Mine(u, name) == Lower[u.owner] = Lower[name]

\* DELETE FROM users WHERE user_id = ? AND LOWER(owner) = LOWER(?)
DeleteUser(w) ==
  /\ pc[w] = "work" /\ job[w].op = "delete_user"
  /\ LET hit == {u \in users : u.id = job[w].user /\ Mine(u, job[w].name)}
     IN users' = users \ hit /\ changed' = (hit # {})
  /\ Continue(w, "changes", job[w])
  /\ UNCHANGED <<lastUser, audit, lastAudit, issued, sessions>>

DeleteUserFails(w) ==
  /\ DiskFaults
  /\ pc[w] = "work" /\ job[w].op = "delete_user"
  /\ changed' \in BOOLEAN
  /\ Reply(w, 404)
  /\ UNCHANGED <<database, issued, sessions>>

CheckChanges(w) ==
  /\ pc[w] = "changes"
  /\ Reply(w, IF changed THEN 200 ELSE 404)
  /\ UNCHANGED <<database, issued, sessions, changed>>

\* /me answers from the session; /current_user takes the role from the table
\* while the user has a row.
RolesOf(j) ==
  LET stored == {u.role : u \in Accounts(j.name)}
  IN IF j.op = "me" \/ stored = {} THEN {j.role}
     ELSE stored \cup (IF DiskFaults THEN {j.role} ELSE {})

\* What loadUsers may return, by a scan in id order: all the users of an
\* owner, or those before a row whose reading fails.
Loads(name) ==
  LET rows == {u \in users : Mine(u, name)}
  IN {rows} \cup {{u \in rows : u.id < q.id} : q \in IF DiskFaults THEN rows ELSE {}}

FirstOf(rows) == {r \in rows : \A q \in rows : r.id <= q.id}

\* FROM audit a JOIN users u ON a.user_id = u.user_id WHERE a.owner = ?, the
\* newest first; all of them, or those before a row whose reading fails.
AuditOf(owner) ==
  LET rows == {p \in audit \X users : p[1].user = p[2].id /\ p[1].owner = owner}
      shown(some) == {[event |-> p[1], name |-> p[2].name] : p \in some}
  IN {shown(rows)} \cup
     {shown({p \in rows : p[1].id > q[1].id}) : q \in IF DiskFaults THEN rows ELSE {}}

AnswerFromSession(w) ==
  /\ pc[w] = "work"
  /\ \/ /\ job[w].op \in {"me", "current_user"}
        /\ \E r \in RolesOf(job[w]) : Respond(w, 200, {[name |-> job[w].name, role |-> r]})
     \/ /\ job[w].op = "list_users"
        /\ \E rows \in Loads(job[w].name) : Respond(w, 200, rows)
     \/ /\ job[w].op = "get_users"
        /\ \E rows \in Loads(job[w].name) :
             LET found == {u \in rows : u.name \in job[w].query}
             IN IF found = {} THEN Reply(w, 404) ELSE Respond(w, 200, FirstOf(found))
     \/ /\ job[w].op = "audit_users"
        /\ \E rows \in AuditOf(job[w].name) : Respond(w, 200, rows)
  /\ UNCHANGED <<database, issued, sessions, changed>>

-----------------------------------------------------------------------------
\* A handler of another component runs a statement on the same connection;
\* it matters only while a worker is about to read sqlite3_changes.
OtherStatement ==
  /\ \E w \in Workers : pc[w] = "idle"
  /\ \E v \in Workers : pc[v] = "changes"
  /\ changed' \in BOOLEAN
  /\ answer' = Null
  /\ UNCHANGED <<database, issued, sessions, pc, job>>

\* The machine stops between any two steps and starts again: the map is lost.
\* A race on the map that ends the process is among these steps.
Crash ==
  /\ Crashes
  /\ sessions' = [t \in {} |-> Empty]
  /\ changed' = FALSE
  /\ pc' = [w \in Workers |-> "idle"]
  /\ job' = [w \in Workers |-> Null]
  /\ answer' = Null
  /\ UNCHANGED <<database, issued>>

Step(w) ==
  \/ NotLoggedIn(w) \/ LoggedIn(w) \/ ReadName(w) \/ ReadRole(w)
  \/ Refused(w) \/ SelectUser(w) \/ OpenSession(w) \/ WriteAudit(w)
  \/ LookUpUser(w) \/ LogoutFails(w) \/ EraseSession(w) \/ Register(w)
  \/ DeleteUser(w) \/ DeleteUserFails(w) \/ CheckChanges(w) \/ AnswerFromSession(w)

Arrival(w) ==
  \/ AcceptPlain(w) \/ AcceptSubUser(w) \/ AcceptDeleteUser(w) \/ AcceptLogout(w)
  \/ AcceptLogin(w) \/ AcceptUser(w) \/ AcceptGetUsers(w)

Next ==
  \/ \E w \in Workers : Step(w) \/ Arrival(w)
  \/ OtherStatement
  \/ Crash

Spec == Init /\ [][Next]_vars
=============================================================================
