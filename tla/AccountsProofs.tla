--------------------------- MODULE AccountsProofs ---------------------------
(***************************************************************************)
(* Proofs about accounts and sessions, for any finite number of workers,   *)
(* and any users and logins: types, whose session a token opens, which     *)
(* account an audit row names, and in which order rows are written.        *)
(***************************************************************************)
EXTENDS AccountsProperties, FiniteSetTheorems, TLAPS

-----------------------------------------------------------------------------
(* Tokens are as many as logins. *)

LoggingIn == {v \in Workers : pc[v] \in {"select", "open"}}

LoginsBounded == Len(issued) + Cardinality(LoggingIn) <= MaxLogins

\* No step but a login's arrival adds to those that log in.
LEMMA FewerLogIn ==
  ASSUME TypeOK, LoginsBounded, issued' = issued, LoggingIn' \subseteq LoggingIn
  PROVE  LoginsBounded'
<1>1. IsFiniteSet(LoggingIn)
  BY WorkersAssumption, FS_Subset DEF LoggingIn
<1>2. Cardinality(LoggingIn') <= Cardinality(LoggingIn)
  BY <1>1, FS_Subset
<1>3. Cardinality(LoggingIn') \in Nat /\ Cardinality(LoggingIn) \in Nat /\ Len(issued) \in Nat
  BY <1>1, FS_Subset, FS_CardinalityType DEF TypeOK, DataOK
<1> QED
  BY <1>2, <1>3, BoundsAssumption DEF LoginsBounded

\* A worker that goes on to another label than those of a login.
LEMMA ContinueBound ==
  ASSUME TypeOK, LoginsBounded, issued' = issued, NEW w \in Workers, NEW label, NEW j,
         Continue(w, label, j), label \in {"select", "open"} => pc[w] \in {"select", "open"}
  PROVE  LoginsBounded'
<1>1. LoggingIn' \subseteq LoggingIn
  BY DEF Continue, LoggingIn, TypeOK, ControlOK
<1> QED
  BY <1>1, FewerLogIn

\* A worker that answers.
LEMMA RespondBound ==
  ASSUME TypeOK, LoginsBounded, issued' = issued, NEW w \in Workers, NEW status, NEW shown,
         Respond(w, status, shown)
  PROVE  LoginsBounded'
<1>1. LoggingIn' \subseteq LoggingIn
  BY DEF Respond, LoggingIn, TypeOK, ControlOK
<1> QED
  BY <1>1, FewerLogIn

\* A login that begins leaves room for its token, and one that opens its
\* session has it.
LEMMA LoginBound ==
  ASSUME TypeOK, LoginsBounded, NEW w \in Workers
  PROVE  /\ AcceptLogin(w) => LoginsBounded'
         /\ OpenSession(w) => LoginsBounded' /\ NewToken(job[w].name).time \in 1 .. MaxLogins
<1>1. IsFiniteSet(LoggingIn) /\ Cardinality(LoggingIn) \in Nat /\ Len(issued) \in Nat
  BY WorkersAssumption, FS_Subset, FS_CardinalityType DEF LoggingIn, TypeOK, DataOK
<1>2. ASSUME AcceptLogin(w) PROVE LoginsBounded'
  <2>1. pc' = [pc EXCEPT ![w] = "select"] /\ pc[w] = "idle" /\ issued' = issued
    BY <1>2 DEF AcceptLogin, Accept, Continue
  <2>2. LoggingIn' = LoggingIn \cup {w} /\ w \notin LoggingIn
    BY <2>1 DEF LoggingIn, TypeOK, ControlOK
  <2>3. Cardinality(LoggingIn') = Cardinality(LoggingIn) + 1
    BY <1>1, <2>2, FS_AddElement
  <2>4. Len(issued) + Cardinality(LoggingIn) < MaxLogins
    BY <1>2 DEF AcceptLogin, LoggingIn
  <2> QED
    BY <1>1, <2>1, <2>3, <2>4, BoundsAssumption DEF LoginsBounded
<1>3. ASSUME OpenSession(w) PROVE LoginsBounded' /\ NewToken(job[w].name).time \in 1 .. MaxLogins
  <2>1. /\ pc' = [pc EXCEPT ![w] = "audit"] /\ pc[w] = "open"
        /\ issued' = Append(issued, NewToken(job[w].name).name)
    BY <1>3 DEF OpenSession, Continue, Opened
  <2>2. LoggingIn' = LoggingIn \ {w} /\ w \in LoggingIn
    BY <2>1 DEF LoggingIn, TypeOK, ControlOK
  <2>3. Cardinality(LoggingIn') = Cardinality(LoggingIn) - 1
    BY <1>1, <2>2, FS_RemoveElement
  <2>4. Cardinality(LoggingIn') \in Nat
    BY <1>1, <2>2, FS_RemoveElement, FS_CardinalityType
  <2>5. Len(issued') = Len(issued) + 1
    BY <2>1 DEF TypeOK, DataOK
  <2>6. NewToken(job[w].name).time = Len(issued) + 1
    BY DEF NewToken
  <2> QED
    BY <1>1, <2>3, <2>4, <2>5, <2>6, BoundsAssumption DEF LoginsBounded
<1> QED
  BY <1>2, <1>3

-----------------------------------------------------------------------------
(* Types. *)

\* A worker that goes on with a request that fits the next label.
LEMMA ContinueType ==
  ASSUME ControlOK, NEW w \in Workers, NEW label \in Labels, NEW j,
         WellFormed(label, j), Continue(w, label, j)
  PROVE  ControlOK'
BY DEF ControlOK, Continue, WellFormed

\* A worker that answers and becomes idle.
LEMMA RespondType ==
  ASSUME ControlOK, NEW w \in Workers, NEW status, NEW shown, Respond(w, status, shown)
  PROVE  ControlOK'
BY DEF ControlOK, Respond, WellFormed, Labels

\* A request as a client sends it.
LEMMA RequestType ==
  ASSUME NEW o \in Requests
  PROVE  Request(o) \in Job /\ Request(o).op = o
BY DEF Request, Job

\* A token that is sent was given out, or is none.
LEMMA SentType ==
  ASSUME NEW t \in Sent
  PROVE  t \in Tokens \cup {Null}
BY DEF Sent

\* Taking a request keeps the types.
LEMMA ArrivalType ==
  ASSUME TypeOK, NEW w \in Workers, Arrival(w)
  PROVE  TypeOK'
<1> USE DEF Requests, Checked, Labels, WellFormed
<1>1. ASSUME NEW label \in Labels, NEW j, WellFormed(label, j), Accept(w, label, j)
      PROVE  TypeOK'
  <2>1. ControlOK'
    BY <1>1, ContinueType DEF Accept, TypeOK
  <2>2. DataOK'
    BY <1>1 DEF Accept, TypeOK, DataOK, database
  <2> QED
    BY <2>1, <2>2 DEF TypeOK
<1>2. CASE AcceptPlain(w)
  <2>1. PICK op \in {"me", "current_user", "list_users", "audit_users"}, t \in Sent :
          Accept(w, "find", [Request(op) EXCEPT !.token = t])
    BY <1>2 DEF AcceptPlain
  <2>2. WellFormed("find", [Request(op) EXCEPT !.token = t])
    BY SentType DEF Request, Job
  <2> QED
    BY <1>1, <2>1, <2>2
<1>3. CASE AcceptGetUsers(w)
  <2>1. PICK t \in Sent, q \in SUBSET Names :
          Accept(w, "find", [Request("get_users") EXCEPT !.token = t, !.query = q])
    BY <1>3 DEF AcceptGetUsers
  <2>2. WellFormed("find", [Request("get_users") EXCEPT !.token = t, !.query = q])
    BY SentType DEF Request, Job
  <2> QED
    BY <1>1, <2>1, <2>2
<1>4. CASE AcceptSubUser(w)
  <2>1. PICK t \in Sent, n \in Names, r \in Roles, fit \in BOOLEAN :
          Accept(w, "find", [Request("add_sub_user") EXCEPT !.token = t, !.new = n,
                                                            !.role = r, !.right = fit])
    BY <1>4 DEF AcceptSubUser
  <2> DEFINE j == [Request("add_sub_user") EXCEPT !.token = t, !.new = n,
                                                  !.role = r, !.right = fit]
  <2>2. j \in Job /\ j.new = n /\ j.role = r
    BY SentType DEF Request, Job
  <2>3. WellFormed("find", j)
    BY <2>2
  <2> QED
    BY <1>1, <2>1, <2>3
<1>5. CASE AcceptDeleteUser(w)
  <2>1. PICK t \in Sent, id \in 1 .. MaxUsers :
          Accept(w, "find", [Request("delete_user") EXCEPT !.token = t, !.user = id])
    BY <1>5 DEF AcceptDeleteUser
  <2>2. id \in Nat
    BY BoundsAssumption
  <2>3. WellFormed("find", [Request("delete_user") EXCEPT !.token = t, !.user = id])
    BY <2>2, SentType DEF Request, Job
  <2> QED
    BY <1>1, <2>1, <2>3
<1>6. CASE AcceptLogout(w)
  <2>1. PICK t \in Sent : Accept(w, "find", [Request("logout") EXCEPT !.token = t])
    BY <1>6 DEF AcceptLogout
  <2>2. WellFormed("find", [Request("logout") EXCEPT !.token = t])
    BY SentType DEF Request, Job
  <2> QED
    BY <1>1, <2>1, <2>2
<1>7. CASE AcceptLogin(w)
  <2>1. PICK n \in Names, right \in BOOLEAN :
          Accept(w, "select", [Request("login") EXCEPT !.name = n, !.right = right])
    BY <1>7 DEF AcceptLogin
  <2>2. WellFormed("select", [Request("login") EXCEPT !.name = n, !.right = right])
    BY DEF Request, Job
  <2> QED
    BY <1>1, <2>1, <2>2
<1>8. CASE AcceptUser(w)
  <2>1. PICK n \in Names, r \in Roles, fit \in BOOLEAN :
          Accept(w, "register", [Request("add_user") EXCEPT !.name = n, !.new = n,
                                                            !.role = r, !.right = fit])
    BY <1>8 DEF AcceptUser
  <2> DEFINE j == [Request("add_user") EXCEPT !.name = n, !.new = n, !.role = r, !.right = fit]
  <2>2. j \in Job /\ j.new = n /\ j.role = r
    BY DEF Request, Job
  <2>3. WellFormed("register", j)
    BY <2>2
  <2> QED
    BY <1>1, <2>1, <2>3
<1> QED
  BY <1>2, <1>3, <1>4, <1>5, <1>6, <1>7, <1>8 DEF Arrival

\* Whatever workers lose of the map, what is left is as it was.
LEMMA OutcomesAreLeft ==
  ASSUME NEW w, NEW T, NEW S, NEW map \in [T -> S], NEW left \in Outcomes(w, map)
  PROVE  /\ DOMAIN left \subseteq T
         /\ left \in [DOMAIN left -> S]
         /\ \A k \in T : k \in DOMAIN left => left[k] = map[k]
<1>1. CASE left = map
  BY <1>1
<1>2. CASE \E gone \in SUBSET DOMAIN map : left = Without(map, gone)
  BY <1>2 DEF Without
<1> QED
  BY <1>1, <1>2 DEF Outcomes

\* The map after an insertion, before anything of it is lost.
LEMMA InsertedType ==
  ASSUME DataOK, NEW t \in Tokens, NEW s \in Session
  PROVE  /\ DOMAIN sessions \cup {t} \subseteq Tokens
         /\ Inserted(t, s) \in [DOMAIN sessions \cup {t} -> Session]
         /\ \A k \in DOMAIN sessions \cup {t} : Inserted(t, s)[k] = IF k = t THEN s ELSE sessions[k]
<1>1. \A k \in DOMAIN sessions : sessions[k] \in Session
  BY DEF DataOK
<1>2. \A k \in DOMAIN sessions \cup {t} : (IF k = t THEN s ELSE sessions[k]) \in Session
  BY <1>1
<1> QED
  BY <1>2 DEF Inserted, DataOK

\* A session that operator[] inserts is one, and so is the one it reads.
LEMMA SubscriptedType ==
  ASSUME DataOK, NEW w, NEW t \in Tokens, NEW s \in Session, Subscripted(w, t, s)
  PROVE  /\ DOMAIN sessions' \subseteq Tokens
         /\ sessions' \in [DOMAIN sessions' -> Session]
<1>1. CASE UNCHANGED sessions
  BY <1>1 DEF DataOK
<1>2. CASE sessions' \in Outcomes(w, Inserted(t, Empty))
  <2>1. Empty \in Session
    BY DEF Empty, Session
  <2>2. Inserted(t, Empty) \in [DOMAIN sessions \cup {t} -> Session]
    BY <2>1, InsertedType
  <2> QED
    BY <1>2, <2>1, <2>2, InsertedType, OutcomesAreLeft
<1> QED
  BY <1>1, <1>2 DEF Subscripted

\* A worker's request, but for whether its iterator dangles.
Still(j, k) ==
  /\ k \in Job
  /\ k.op = j.op /\ k.token = j.token /\ k.name = j.name /\ k.role = j.role
  /\ k.new = j.new /\ k.user = j.user

\* The logout that erases ends; of the others only iterators change.
LEMMA ErasedJobs ==
  ASSUME TypeOK, NEW w \in Workers, EraseSession(w)
  PROVE  /\ pc' = [pc EXCEPT ![w] = "idle"] /\ pc'[w] = "idle" /\ job'[w] = Null
         /\ \A v \in Workers \ {w} : pc'[v] = pc[v]
         /\ \A v \in Workers \ {w} : pc[v] = "idle" => job'[v] = job[v]
         /\ \A v \in Workers \ {w} : pc[v] # "idle" => Still(job[v], job'[v])
         /\ job' = [v \in Workers |-> job'[v]]
<1>1. PICK gone : job' = [v \in Workers |-> IF v = w THEN Null
                                          ELSE IF Holds(v, gone) THEN [job[v] EXCEPT !.dangles = TRUE]
                                          ELSE job[v]]
  BY DEF EraseSession
<1>2. pc' = [pc EXCEPT ![w] = "idle"]
  BY DEF EraseSession
<1>3. pc'[w] = "idle" /\ \A v \in Workers \ {w} : pc'[v] = pc[v]
  BY <1>2 DEF TypeOK, ControlOK
<1>4. ASSUME NEW v \in Workers \ {w}, pc[v] # "idle" PROVE Still(job[v], job'[v])
  <2>1. PICK j : j = job[v]
    OBVIOUS
  <2>2. PICK k : k = [j EXCEPT !.dangles = TRUE]
    OBVIOUS
  <2>3. j \in Job
    BY <1>4, <2>1 DEF TypeOK, ControlOK, WellFormed
  <2>4. Still(j, k) /\ Still(j, j)
    BY <2>2, <2>3 DEF Job, Still
  <2>5. job'[v] \in {j, k}
    BY <1>1, <2>1, <2>2
  <2> QED
    BY <2>1, <2>4, <2>5
<1>5. \A v \in Workers \ {w} : pc[v] = "idle" => job'[v] = job[v]
  BY <1>1 DEF Holds
<1> QED
  BY <1>1, <1>2, <1>3, <1>4, <1>5

\* Every step of a handler keeps the types.
LEMMA StepType ==
  ASSUME TypeOK, LoginsBounded, NEW w \in Workers, Step(w)
  PROVE  TypeOK'
<1> USE DEF Labels
<1>1. ControlOK /\ DataOK /\ (pc[w] # "idle" => WellFormed(pc[w], job[w]))
  BY DEF TypeOK, ControlOK
<1>2. ASSUME NEW status, NEW shown, Respond(w, status, shown), DataOK' PROVE TypeOK'
  BY <1>1, <1>2, RespondType DEF TypeOK
<1>3. ASSUME NEW label \in Labels, NEW j, WellFormed(label, j), Continue(w, label, j), DataOK'
      PROVE  TypeOK'
  BY <1>1, <1>3, ContinueType DEF TypeOK
<1>4. UNCHANGED <<database, issued, sessions, changed>> => DataOK'
  BY <1>1 DEF DataOK, database
<1>5. CASE NotLoggedIn(w)
  BY <1>2, <1>4, <1>5 DEF NotLoggedIn, Reply
<1>6. CASE LoggedIn(w)
  <2>1. job[w] \in Job /\ job[w].token \in Tokens /\ sessions[job[w].token] \in Session
    BY <1>1, <1>6 DEF LoggedIn, Present, WellFormed, DataOK
  <2>2. DataOK'
    BY <1>4, <1>6 DEF LoggedIn
  <2>3. CASE Continue(w, "name", job[w])
    <3>1. WellFormed("name", job[w])
      BY <1>1, <1>6, <2>1 DEF LoggedIn, WellFormed
    <3> QED
      BY <1>3, <2>2, <2>3, <3>1
  <2>4. ASSUME NEW s \in Session, Continue(w, "lookup", [job[w] EXCEPT !.name = s.name]),
               job[w].op = "logout"
        PROVE  TypeOK'
    <3>1. PICK j : j = [job[w] EXCEPT !.name = s.name]
      OBVIOUS
    <3>2. j \in Job /\ j.token = job[w].token /\ j.op = job[w].op
      BY <2>1, <3>1 DEF Job, Session
    <3>3. WellFormed("lookup", j)
      BY <2>1, <2>4, <3>2 DEF WellFormed
    <3> QED
      BY <1>3, <2>2, <2>4, <3>1, <3>3
  <2>5. Read(w, job[w].token) \subseteq Session
    BY <2>1 DEF Read
  <2> QED
    BY <1>6, <2>3, <2>4, <2>5 DEF LoggedIn
<1>7. CASE ReadName(w)
  <2>1. PICK s \in Session : /\ Subscripted(w, job[w].token, s)
                             /\ Continue(w, AfterName(job[w].op), [job[w] EXCEPT !.name = s.name])
    BY <1>7 DEF ReadName
  <2>2. PICK j : j = [job[w] EXCEPT !.name = s.name]
    OBVIOUS
  <2>3. job[w] \in Job /\ job[w].token \in Tokens
    BY <1>1, <1>7 DEF ReadName, WellFormed
  <2>4. DOMAIN sessions' \subseteq Tokens /\ sessions' \in [DOMAIN sessions' -> Session]
    BY <1>1, <2>1, <2>3, SubscriptedType
  <2>5. DataOK'
    BY <1>1, <1>7, <2>4 DEF ReadName, DataOK, database
  <2>6. /\ j \in Job /\ j.op = job[w].op /\ j.new = job[w].new /\ j.role = job[w].role
        /\ j.token = job[w].token
    BY <2>2, <2>3 DEF Job, Session
  <2>7. WellFormed(AfterName(job[w].op), j) /\ AfterName(job[w].op) \in Labels
    BY <1>1, <1>7, <2>3, <2>6 DEF ReadName, WellFormed, AfterName
  <2> QED
    BY <1>3, <2>1, <2>2, <2>5, <2>7
<1>8. CASE ReadRole(w)
  <2>1. PICK s \in Session : /\ Subscripted(w, job[w].token, s)
                             /\ Continue(w, "work", [job[w] EXCEPT !.role = s.role])
    BY <1>8 DEF ReadRole
  <2>2. PICK j : j = [job[w] EXCEPT !.role = s.role]
    OBVIOUS
  <2>3. job[w] \in Job /\ job[w].token \in Tokens
    BY <1>1, <1>8 DEF ReadRole, WellFormed
  <2>4. DOMAIN sessions' \subseteq Tokens /\ sessions' \in [DOMAIN sessions' -> Session]
    BY <1>1, <2>1, <2>3, SubscriptedType
  <2>5. DataOK'
    BY <1>1, <1>8, <2>4 DEF ReadRole, DataOK, database
  <2>6. WellFormed("work", j)
    BY <2>2, <2>3 DEF Job, Session, WellFormed
  <2> QED
    BY <1>3, <2>1, <2>2, <2>5, <2>6
<1>9. CASE Refused(w)
  BY <1>2, <1>4, <1>9 DEF Refused, Reply
<1>10. CASE SelectUser(w)
  <2>1. PICK u \in users : Continue(w, "open", [job[w] EXCEPT !.user = u.id, !.owner = u.owner,
                                                             !.role = u.role])
    BY <1>10 DEF SelectUser, Accounts
  <2> DEFINE j == [job[w] EXCEPT !.user = u.id, !.owner = u.owner, !.role = u.role]
  <2>2. job[w] \in Job /\ job[w].op = "login" /\ job[w].name \in Names
    BY <1>1, <1>10 DEF SelectUser, WellFormed
  <2>3. u \in User
    BY <1>1 DEF DataOK
  <2>4. j \in Job /\ j.op = job[w].op /\ j.name = job[w].name /\ j.role \in Roles
    BY <2>2, <2>3 DEF Job, User
  <2>5. WellFormed("open", j) /\ DataOK'
    BY <1>4, <1>10, <2>2, <2>4 DEF SelectUser, WellFormed
  <2> HIDE DEF j
  <2> QED
    BY <1>3, <2>1, <2>5 DEF j
<1>11. CASE OpenSession(w)
  <2> DEFINE t == NewToken(job[w].name)
             s == [name |-> job[w].name, role |-> job[w].role]
             j == [job[w] EXCEPT !.token = t]
  <2>1. /\ job[w] \in Job /\ job[w].op = "login" /\ job[w].name \in Names /\ job[w].role \in Roles
    BY <1>1, <1>11 DEF OpenSession, WellFormed
  <2>2. t \in Tokens /\ t.name = job[w].name
    BY <1>11, <2>1, LoginBound DEF Tokens, NewToken
  <2>3. /\ issued' = Append(issued, t.name) /\ sessions' \in Outcomes(w, Inserted(t, s))
        /\ UNCHANGED <<database, changed>> /\ Continue(w, "audit", j)
    BY <1>11 DEF OpenSession, Opened
  <2>4. s \in Session
    BY <2>1 DEF Session
  <2> HIDE DEF s, t
  <2>5. DOMAIN sessions' \subseteq Tokens /\ sessions' \in [DOMAIN sessions' -> Session]
    BY <1>1, <2>2, <2>3, <2>4, InsertedType, OutcomesAreLeft
  <2>6. DataOK'
    <3>1. issued' \in Seq(Names)
      BY <1>1, <2>1, <2>2, <2>3 DEF DataOK
    <3> QED
      BY <1>1, <2>3, <2>5, <3>1 DEF DataOK, database
  <2>7. j \in Job /\ j.op = "login" /\ j.token = t
    BY <2>1, <2>2 DEF Job
  <2>8. WellFormed("audit", j)
    BY <2>2, <2>7 DEF WellFormed
  <2> HIDE DEF j
  <2> QED
    BY <1>3, <2>3, <2>6, <2>8
<1>12. CASE WriteAudit(w)
  <2>1. job[w] \in Job /\ job[w].token \in Tokens /\ job[w].op \in {"login", "logout"}
    BY <1>1, <1>12 DEF WriteAudit, WellFormed
  <2>2. AuditRow(job[w]) \in Audit /\ lastAudit + 1 \in Nat
    <3>1. lastAudit + 1 \in Nat
      BY <1>1 DEF DataOK
    <3>2. job[w].owner \in Names \cup {NoName} /\ job[w].user \in Nat /\ job[w].name \in Names \cup {NoName}
      BY <2>1 DEF Job
    <3> QED
      BY <2>1, <3>1, <3>2 DEF AuditRow, Audit
  <2>3. audit' \subseteq Audit /\ lastAudit' \in Nat /\ changed' \in BOOLEAN
    BY <1>1, <1>12, <2>2 DEF WriteAudit, DataOK
  <2>4. DataOK'
    BY <1>1, <1>12, <2>3 DEF WriteAudit, DataOK
  <2>5. WellFormed("erase", job[w])
    BY <2>1 DEF WellFormed
  <2> QED
    BY <1>2, <1>3, <1>12, <2>4, <2>5 DEF WriteAudit, Reply
<1>13. CASE LookUpUser(w)
  <2>1. job[w] \in Job /\ job[w].token \in Tokens /\ job[w].op = "logout"
    BY <1>1, <1>13 DEF LookUpUser, WellFormed
  <2>2. DataOK'
    BY <1>4, <1>13 DEF LookUpUser
  <2>3. WellFormed("erase", job[w])
    BY <2>1 DEF WellFormed
  <2>4. ASSUME NEW u \in users, Continue(w, "audit", [job[w] EXCEPT !.user = u.id, !.owner = u.owner])
        PROVE  TypeOK'
    <3> DEFINE j == [job[w] EXCEPT !.user = u.id, !.owner = u.owner]
    <3>1. u \in User
      BY <1>1 DEF DataOK
    <3>2. j \in Job /\ j.op = "logout" /\ j.token = job[w].token
      BY <2>1, <3>1 DEF Job, User
    <3>3. WellFormed("audit", j)
      BY <2>1, <3>2 DEF WellFormed
    <3>4. Continue(w, "audit", j)
      BY <2>4
    <3> HIDE DEF j
    <3> QED
      BY <1>3, <2>2, <3>3, <3>4
  <2> QED
    BY <1>3, <1>13, <2>2, <2>3, <2>4 DEF LookUpUser, Accounts
<1>14. CASE EraseSession(w)
  <2>1. PICK gone : sessions' \in Outcomes(w, Without(sessions, {gone}))
    BY <1>14 DEF EraseSession
  <2>2. PICK map : map = Without(sessions, {gone})
    OBVIOUS
  <2>8. map \in [DOMAIN sessions \ {gone} -> Session] /\ sessions' \in Outcomes(w, map)
    BY <1>1, <2>1, <2>2 DEF DataOK, Without
  <2>9. /\ DOMAIN sessions' \subseteq DOMAIN sessions \ {gone}
        /\ sessions' \in [DOMAIN sessions' -> Session]
    BY <2>8, OutcomesAreLeft
  <2>3. DOMAIN sessions' \subseteq Tokens /\ sessions' \in [DOMAIN sessions' -> Session]
    BY <1>1, <2>9 DEF DataOK
  <2>4. DataOK'
    BY <1>1, <1>14, <2>3 DEF EraseSession, DataOK, database
  <2>5. ASSUME NEW v \in Workers
        PROVE  /\ job'[v] \in Job \cup {Null}
               /\ pc'[v] # "idle" => WellFormed(pc'[v], job'[v])
    <3>1. CASE v = w
      BY <1>14, <3>1, ErasedJobs
    <3>2. CASE v # w /\ pc[v] = "idle"
      BY <1>1, <1>14, <3>2, ErasedJobs DEF ControlOK
    <3>3. CASE v # w /\ pc[v] # "idle"
      <4>1. pc'[v] = pc[v] /\ Still(job[v], job'[v])
        BY <1>14, <3>3, ErasedJobs
      <4>2. WellFormed(pc[v], job[v])
        BY <1>1, <3>3 DEF ControlOK
      <4> QED
        BY <4>1, <4>2 DEF Still, WellFormed
    <3> QED
      BY <3>1, <3>2, <3>3
  <2>6. pc' \in [Workers -> Labels]
    BY <1>1, <1>14, ErasedJobs DEF ControlOK
  <2>7. job' \in [Workers -> Job \cup {Null}]
    BY <1>14, <2>5, ErasedJobs
  <2> QED
    BY <2>4, <2>5, <2>6, <2>7 DEF TypeOK, ControlOK
<1>20. CASE LogoutFails(w)
  BY <1>2, <1>4, <1>20 DEF LogoutFails, Reply
<1>15. CASE Register(w)
  <2> DEFINE u == [id |-> NextUser, owner |-> job[w].name, name |-> job[w].new, role |-> job[w].role]
  <2>1. u \in User /\ NextUser \in Nat
    <3>1. NextUser \in Nat
      BY <1>1 DEF NextUser, DataOK
    <3>2. job[w] \in Job /\ job[w].new \in Names /\ job[w].role \in Roles
      BY <1>1, <1>15 DEF Register, WellFormed
    <3>3. job[w].name \in Names \cup {NoName}
      BY <3>2 DEF Job
    <3> QED
      BY <3>1, <3>2, <3>3 DEF User
  <2>2. /\ users' \in {users, users \cup {u}} /\ lastUser' \in {lastUser, NextUser}
        /\ changed' = changed \/ changed' \in BOOLEAN
    BY <1>15 DEF Register
  <2>3. DataOK'
    BY <1>1, <1>15, <2>1, <2>2 DEF Register, DataOK
  <2> QED
    BY <1>2, <1>15, <2>3 DEF Register, Reply
<1>16. CASE DeleteUser(w)
  <2>1. DataOK'
    BY <1>1, <1>16 DEF DeleteUser, DataOK
  <2>2. WellFormed("changes", job[w])
    BY <1>1, <1>16 DEF DeleteUser, WellFormed
  <2> QED
    BY <1>3, <1>16, <2>1, <2>2 DEF DeleteUser
<1>17. CASE DeleteUserFails(w)
  <2>1. DataOK'
    BY <1>1, <1>17 DEF DeleteUserFails, DataOK, database
  <2> QED
    BY <1>2, <1>17, <2>1 DEF DeleteUserFails, Reply
<1>18. CASE CheckChanges(w)
  BY <1>2, <1>4, <1>18 DEF CheckChanges, Reply
<1>19. CASE AnswerFromSession(w)
  <2>1. \E status, shown : Respond(w, status, shown)
    BY <1>19 DEF AnswerFromSession, Reply
  <2> QED
    BY <1>2, <1>4, <1>19, <2>1 DEF AnswerFromSession
<1> QED
  BY <1>5, <1>6, <1>7, <1>8, <1>9, <1>10, <1>11, <1>12, <1>13, <1>14, <1>15, <1>16, <1>17,
     <1>18, <1>19, <1>20 DEF Step

\* No step of a handler, and no arrival, leaves less room than logins need.
LEMMA BoundStays ==
  ASSUME TypeOK, LoginsBounded, NEW w \in Workers, Step(w) \/ Arrival(w)
  PROVE  LoginsBounded'
<1>1. ASSUME NEW label, NEW j, Continue(w, label, j), issued' = issued,
             label \in {"select", "open"} => pc[w] \in {"select", "open"}
      PROVE  LoginsBounded'
  BY <1>1, ContinueBound
<1>2. ASSUME NEW status, NEW shown, Respond(w, status, shown), issued' = issued
      PROVE  LoginsBounded'
  BY <1>2, RespondBound
<1>3. CASE AcceptLogin(w) \/ OpenSession(w)
  BY <1>3, LoginBound
<1>4. ASSUME NEW label \in {"find", "register"}, NEW j, Accept(w, label, j)
      PROVE  LoginsBounded'
  BY <1>1, <1>4 DEF Accept
<1>5. CASE Arrival(w) /\ ~AcceptLogin(w)
  BY <1>4, <1>5 DEF Arrival, AcceptPlain, AcceptGetUsers, AcceptSubUser, AcceptDeleteUser,
     AcceptLogout, AcceptUser
<1>6. CASE NotLoggedIn(w) \/ LoggedIn(w)
  BY <1>1, <1>2, <1>6 DEF NotLoggedIn, LoggedIn, Reply
<1>7. CASE ReadName(w) \/ ReadRole(w)
  <2>1. \E label \in {"register", "work", "role"} : \E j : Continue(w, label, j)
    BY <1>7 DEF ReadName, ReadRole, AfterName
  <2> QED
    BY <1>1, <1>7, <2>1 DEF ReadName, ReadRole
<1>8. CASE WriteAudit(w) \/ LogoutFails(w)
  BY <1>1, <1>2, <1>8 DEF WriteAudit, LogoutFails, Reply
<1>14. CASE EraseSession(w)
  <2>1. issued' = issued
    BY <1>14 DEF EraseSession
  <2>2. LoggingIn' \subseteq LoggingIn
    BY <1>14, ErasedJobs DEF LoggingIn
  <2> QED
    BY <2>1, <2>2, FewerLogIn
<1>12. CASE Refused(w) \/ SelectUser(w)
  <2>1. \/ \E j : Continue(w, "open", j) /\ pc[w] = "select"
        \/ \E status : Respond(w, status, {})
    BY <1>12 DEF Refused, SelectUser, Reply
  <2> QED
    BY <1>1, <1>2, <1>12, <2>1 DEF Refused, SelectUser
<1>13. CASE LookUpUser(w)
  <2>1. \E label \in {"audit", "erase"} : \E j : Continue(w, label, j)
    BY <1>13 DEF LookUpUser
  <2> QED
    BY <1>1, <1>13, <2>1 DEF LookUpUser
<1>9. CASE Register(w)
  BY <1>2, <1>9 DEF Register, Reply
<1>10. CASE DeleteUser(w) \/ DeleteUserFails(w) \/ CheckChanges(w)
  BY <1>1, <1>2, <1>10 DEF DeleteUser, DeleteUserFails, CheckChanges, Reply
<1>11. CASE AnswerFromSession(w)
  <2>1. \E status, shown : Respond(w, status, shown)
    BY <1>11 DEF AnswerFromSession, Reply
  <2> QED
    BY <1>2, <1>11, <2>1 DEF AnswerFromSession
<1> QED
  BY <1>3, <1>5, <1>6, <1>7, <1>8, <1>9, <1>10, <1>11, <1>12, <1>13, <1>14 DEF Step

\* Every variable keeps its type, tokens included: there are as many as logins.
THEOREM TypeCorrect == Spec => [](TypeOK /\ LoginsBounded)
<1>1. Init => TypeOK /\ LoginsBounded
  <2> SUFFICES ASSUME Init PROVE TypeOK /\ LoginsBounded
    OBVIOUS
  <2>1. issued \in Seq(Names) /\ Len(issued) = 0
    BY DEF Init
  <2>2. DataOK
    BY <2>1 DEF Init, DataOK
  <2>3. ControlOK
    BY DEF Init, ControlOK, Labels
  <2>4. LoggingIn = {}
    BY DEF Init, LoggingIn
  <2>5. Cardinality(LoggingIn) = 0
    BY <2>4, FS_EmptySet
  <2> QED
    BY <2>1, <2>2, <2>3, <2>5, BoundsAssumption DEF TypeOK, LoginsBounded
<1>2. TypeOK /\ LoginsBounded /\ [Next]_vars => (TypeOK /\ LoginsBounded)'
  <2> SUFFICES ASSUME TypeOK, LoginsBounded, [Next]_vars PROVE TypeOK' /\ LoginsBounded'
    OBVIOUS
  <2>1. CASE \E w \in Workers : Step(w) \/ Arrival(w)
    BY <2>1, StepType, ArrivalType, BoundStays
  <2>2. CASE OtherStatement \/ UNCHANGED vars
    <3>1. TypeOK' /\ LoggingIn' = LoggingIn /\ issued' = issued
      BY <2>2 DEF OtherStatement, vars, TypeOK, DataOK, ControlOK, database, LoggingIn
    <3> QED
      BY <3>1, FewerLogIn
  <2>3. CASE Crash
    <3>1. DataOK' /\ issued' = issued
      BY <2>3 DEF Crash, TypeOK, DataOK, database
    <3>2. ControlOK'
      BY <2>3 DEF Crash, ControlOK, Labels
    <3>3. LoggingIn' \subseteq LoggingIn
      BY <2>3 DEF Crash, LoggingIn
    <3> QED
      BY <3>1, <3>2, <3>3, FewerLogIn DEF TypeOK
  <2> QED
    BY <2>1, <2>2, <2>3 DEF Next
<1> QED
  BY <1>1, <1>2, PTL DEF Spec

-----------------------------------------------------------------------------
(* Tokens, and the accounts audit rows name. What is said of a worker is   *)
(* said with the variables as arguments, so that it can be carried over a  *)
(* step in which they grow.                                                *)

\* Token t is of one of the logins `made`.
Of(t, made) == t.time \in DOMAIN made /\ made[t.time] = t.name

\* Among `rows`, and those to come after id `last`, id names n or nobody.
NamesOne(id, n, rows, last) == id <= last /\ \A u \in rows : u.id = id => u.name = n

\* A worker has tokens of logins; one that logs in or out has the user's id.
WorkerOK(label, j, rows, last, made) ==
  /\ j.token # Null => Of(j.token, made)
  /\ label \in {"open", "audit"} => NamesOne(j.user, j.name, rows, last)

WorkersOK ==
  \A w \in Workers : pc[w] # "idle" => WorkerOK(pc[w], job[w], users, lastUser, issued)

UsersOK ==
  \A u \in users : u.id <= lastUser /\ \A v \in users : u.id = v.id => u.name = v.name

RowsOK ==
  \A a \in audit : /\ a.id <= lastAudit /\ Of(a.token, issued)
                   /\ NamesOne(a.user, a.name, users, lastUser)

SessionsOK ==
  \A t \in DOMAIN sessions : Of(t, issued) /\ sessions[t].name \in {t.name, NoName}

\* Until a login has written its row nobody else has its token.
PendingLogin(v) == pc[v] = "audit" /\ job[v].op = "login"

LoginsFirst ==
  \A v \in Workers : PendingLogin(v) =>
    /\ \A w \in Workers \ {v} : pc[w] # "idle" => job[w].token # job[v].token
    /\ \A a \in audit : a.event = "logout" => a.token # job[v].token

TrailInv == UsersOK /\ RowsOK /\ SessionsOK /\ WorkersOK /\ LoginsFirst /\ LogoutsFollowLogins

\* Logins are added and none is lost, and users have new ids.
Later ==
  /\ lastUser <= lastUser' /\ \A u \in users' : u \in users \/ u.id > lastUser
  /\ \A k \in DOMAIN issued : k \in DOMAIN issued' /\ issued'[k] = issued[k]

\* An id that names one user, or nobody, goes on to: ids are given once.
LEMMA NamesStays ==
  ASSUME TypeOK, TypeOK', Later, NEW id \in Nat, NEW n, NamesOne(id, n, users, lastUser)
  PROVE  NamesOne(id, n, users', lastUser')
<1>1. lastUser \in Nat /\ lastUser' \in Nat /\ \A u \in users' : u.id \in Nat
  BY DEF TypeOK, DataOK, User
<1> QED
  BY <1>1 DEF Later, NamesOne

\* What is right of a worker stays right while it waits.
LEMMA WorkerStays ==
  ASSUME TypeOK, TypeOK', Later, NEW label, NEW j \in Job,
         WorkerOK(label, j, users, lastUser, issued)
  PROVE  WorkerOK(label, j, users', lastUser', issued')
<1>1. j.user \in Nat
  BY DEF Job
<1>2. j.token # Null => Of(j.token, issued')
  BY DEF WorkerOK, Of, Later
<1> QED
  BY <1>1, <1>2, NamesStays DEF WorkerOK

\* Workers are right when one of them goes on as it should.
LEMMA WorkersContinue ==
  ASSUME TypeOK, TypeOK', WorkersOK, Later, NEW w \in Workers, NEW label, NEW j,
         Continue(w, label, j), WorkerOK(label, j, users', lastUser', issued')
  PROVE  WorkersOK'
<1> SUFFICES ASSUME NEW v \in Workers, pc'[v] # "idle"
             PROVE  WorkerOK(pc'[v], job'[v], users', lastUser', issued')
  BY DEF WorkersOK
<1>1. CASE v = w
  BY <1>1 DEF Continue, TypeOK, ControlOK
<1>2. CASE v # w
  <2>1. pc'[v] = pc[v] /\ job'[v] = job[v]
    BY <1>2 DEF Continue, TypeOK, ControlOK
  <2>2. job[v] \in Job
    BY <2>1 DEF TypeOK, ControlOK, WellFormed
  <2>3. WorkerOK(pc[v], job[v], users, lastUser, issued)
    BY <2>1 DEF WorkersOK
  <2> QED
    BY <2>1, <2>2, <2>3, WorkerStays
<1> QED
  BY <1>1, <1>2

\* Or when one of them answers.
LEMMA WorkersRespond ==
  ASSUME TypeOK, TypeOK', WorkersOK, Later, NEW w \in Workers, NEW status, NEW shown,
         Respond(w, status, shown)
  PROVE  WorkersOK'
<1> SUFFICES ASSUME NEW v \in Workers, pc'[v] # "idle"
             PROVE  WorkerOK(pc'[v], job'[v], users', lastUser', issued')
  BY DEF WorkersOK
<1>1. pc'[v] = pc[v] /\ job'[v] = job[v]
  BY DEF Respond, TypeOK, ControlOK
<1>2. job[v] \in Job
  BY <1>1 DEF TypeOK, ControlOK, WellFormed
<1>3. WorkerOK(pc[v], job[v], users, lastUser, issued)
  BY <1>1 DEF WorkersOK
<1> QED
  BY <1>1, <1>2, <1>3, WorkerStays

\* Logins that are still to be audited keep their tokens to themselves when a
\* worker goes on, with a token that is none of theirs.
LEMMA FirstContinue ==
  ASSUME TypeOK, LoginsFirst, NEW w \in Workers, NEW label, NEW j, Continue(w, label, j),
         ~(label = "audit" /\ j.op = "login"),
         \A v \in Workers \ {w} : PendingLogin(v) =>
           /\ j.token # job[v].token
           /\ \A a \in audit' \ audit : a.event = "logout" => a.token # job[v].token
  PROVE  LoginsFirst'
<1>1. pc' = [pc EXCEPT ![w] = label] /\ job' = [job EXCEPT ![w] = j]
  BY DEF Continue
<1>2. pc'[w] = label /\ job'[w] = j
  BY <1>1 DEF TypeOK, ControlOK
<1>3. \A v \in Workers \ {w} : pc'[v] = pc[v] /\ job'[v] = job[v]
  BY <1>1 DEF TypeOK, ControlOK
<1> QED
  BY <1>2, <1>3 DEF LoginsFirst, PendingLogin

\* When a worker answers.
LEMMA FirstRespond ==
  ASSUME TypeOK, LoginsFirst, NEW w \in Workers, NEW status, NEW shown, Respond(w, status, shown),
         \A a \in audit' \ audit : a.event # "logout"
  PROVE  LoginsFirst'
<1>1. pc'[w] = "idle" /\ \A v \in Workers \ {w} : pc'[v] = pc[v] /\ job'[v] = job[v]
  BY DEF Respond, TypeOK, ControlOK
<1> QED
  BY <1>1 DEF LoginsFirst, PendingLogin

\* A pending login has a token, and others in their handlers have another.
LEMMA OthersDiffer ==
  ASSUME TypeOK, LoginsFirst, NEW w \in Workers, pc[w] # "idle", NEW v \in Workers \ {w},
         PendingLogin(v)
  PROVE  job[w].token # job[v].token /\ job[v].token \in Tokens
BY DEF LoginsFirst, PendingLogin, TypeOK, ControlOK, WellFormed

\* Taking a request changes nothing that is stored; the token it comes with
\* was given out.
LEMMA ArrivalTrail ==
  ASSUME TypeOK, TypeOK', TrailInv, NEW w \in Workers, Arrival(w)
  PROVE  TrailInv'
<1>1. ASSUME NEW label \in {"find", "select", "register"}, NEW j, Accept(w, label, j),
             j.token \in Sent
      PROVE  TrailInv'
  <2>1. UNCHANGED <<users, lastUser, audit, lastAudit, issued, sessions>> /\ Continue(w, label, j)
    BY <1>1 DEF Accept, database
  <2>2. UsersOK' /\ RowsOK' /\ SessionsOK' /\ LogoutsFollowLogins'
    BY <2>1 DEF TrailInv, UsersOK, RowsOK, SessionsOK, LogoutsFollowLogins
  <2>3. Later
    BY <2>1 DEF Later, TypeOK, DataOK
  <2>4. j.token # Null => Given(j.token)
    BY <1>1 DEF Sent
  <2>5. WorkerOK(label, j, users', lastUser', issued')
    BY <1>1, <2>1, <2>4 DEF WorkerOK, Given, Issued, Of
  <2>6. WorkersOK'
    BY <2>1, <2>3, <2>5, WorkersContinue DEF TrailInv
  <2>7. \A v \in Workers : PendingLogin(v) => j.token # job[v].token
    <3> SUFFICES ASSUME NEW v \in Workers, PendingLogin(v) PROVE j.token # job[v].token
      OBVIOUS
    <3>1. job[v].token \in Tokens
      BY DEF PendingLogin, TypeOK, ControlOK, WellFormed
    <3> QED
      BY <2>4, <3>1, NamesAssumption DEF Given, PendingLogin
  <2>8. LoginsFirst'
    BY <1>1, <2>1, <2>7, FirstContinue DEF TrailInv
  <2> QED
    BY <2>2, <2>6, <2>8 DEF TrailInv
<1>2. Null \in Sent
  BY DEF Sent
<1>3. CASE AcceptPlain(w) \/ AcceptGetUsers(w) \/ AcceptSubUser(w)
  BY <1>1, <1>3 DEF AcceptPlain, AcceptGetUsers, AcceptSubUser, Request
<1>4. CASE AcceptDeleteUser(w) \/ AcceptLogout(w)
  BY <1>1, <1>4 DEF AcceptDeleteUser, AcceptLogout, Request
<1>5. CASE AcceptLogin(w) \/ AcceptUser(w)
  BY <1>1, <1>2, <1>5 DEF AcceptLogin, AcceptUser, Request
<1> QED
  BY <1>3, <1>4, <1>5 DEF Arrival

\* A session that operator[] inserts is nobody's.
LEMMA SubscriptedTrail ==
  ASSUME DataOK, SessionsOK, NEW w, NEW t \in Tokens, NEW s, Of(t, issued), Subscripted(w, t, s),
         issued' = issued
  PROVE  SessionsOK'
<1>1. CASE UNCHANGED sessions
  BY <1>1 DEF SessionsOK
<1>2. CASE sessions' \in Outcomes(w, Inserted(t, Empty))
  <2>1. Empty \in Session /\ Empty.name = NoName
    BY DEF Empty, Session
  <2>2. /\ Inserted(t, Empty) \in [DOMAIN sessions \cup {t} -> Session]
        /\ \A k \in DOMAIN sessions \cup {t} :
             Inserted(t, Empty)[k] = IF k = t THEN Empty ELSE sessions[k]
    BY <2>1, InsertedType
  <2>3. /\ DOMAIN sessions' \subseteq DOMAIN sessions \cup {t}
        /\ \A k \in DOMAIN sessions' : sessions'[k] = Inserted(t, Empty)[k]
    BY <1>2, <2>2, OutcomesAreLeft
  <2>4. \A k \in DOMAIN sessions' : sessions'[k] = IF k = t THEN Empty ELSE sessions[k]
    BY <2>2, <2>3
  <2> QED
    BY <2>1, <2>3, <2>4 DEF SessionsOK
<1> QED
  BY <1>1, <1>2 DEF Subscripted

\* An audit row is written with the user of its token: after every row there
\* is, and for a login before any logout.
LEMMA WriteTrail ==
  ASSUME TypeOK, TypeOK', TrailInv, NEW w \in Workers, WriteAudit(w)
  PROVE  TrailInv'
<1> DEFINE row == AuditRow(job[w])
<1>1. UNCHANGED <<users, lastUser, issued, sessions>> /\ pc[w] = "audit"
  BY DEF WriteAudit
<1>2. /\ WellFormed("audit", job[w]) /\ job[w].token # Null /\ job[w].token \in Tokens
      /\ WorkerOK("audit", job[w], users, lastUser, issued)
  BY <1>1, NamesAssumption DEF TypeOK, ControlOK, TrailInv, WorkersOK, WellFormed
<1>3. \/ audit' = audit \cup {row} /\ lastAudit' = lastAudit + 1
      \/ UNCHANGED <<audit, lastAudit>>
  BY DEF WriteAudit
<1>4. /\ row.id = lastAudit + 1 /\ row.user = job[w].user /\ row.token = job[w].token
      /\ row.event = job[w].op /\ row.name = job[w].name
  BY DEF AuditRow
<1> HIDE DEF row
<1>5. lastAudit \in Nat /\ \A a \in audit : a.id \in Nat /\ a.id <= lastAudit
  BY DEF TypeOK, DataOK, Audit, TrailInv, RowsOK
<1>6. UsersOK' /\ SessionsOK' /\ Later
  BY <1>1 DEF TrailInv, UsersOK, SessionsOK, Later, TypeOK, DataOK
<1>7. RowsOK'
  <2>1. Of(row.token, issued) /\ NamesOne(row.user, row.name, users, lastUser)
    BY <1>2, <1>4 DEF WorkerOK
  <2>2. \A a \in audit : Of(a.token, issued) /\ NamesOne(a.user, a.name, users, lastUser)
    BY DEF TrailInv, RowsOK
  <2>3. \A a \in audit' : a.id <= lastAudit'
    BY <1>3, <1>4, <1>5
  <2> QED
    BY <1>1, <1>3, <2>1, <2>2, <2>3 DEF RowsOK
<1>8. LogoutsFollowLogins'
  <2>1. \A b \in audit : row.event = "login" /\ b.event = "logout" => b.token # row.token
    BY <1>1, <1>4 DEF TrailInv, LoginsFirst, PendingLogin
  <2>2. \A a \in audit : a.id < row.id
    BY <1>4, <1>5
  <2>3. LogoutsFollowLogins
    BY DEF TrailInv
  <2> QED
    BY <1>3, <2>1, <2>2, <2>3 DEF LogoutsFollowLogins
<1>9. CASE job[w].op = "login"
  <2>1. Respond(w, 200, {})
    BY <1>9 DEF WriteAudit, Reply
  <2>2. WorkersOK'
    BY <1>6, <2>1, WorkersRespond DEF TrailInv
  <2>3. LoginsFirst'
    BY <1>3, <1>4, <1>9, <2>1, FirstRespond DEF TrailInv
  <2> QED
    BY <1>6, <1>7, <1>8, <2>2, <2>3 DEF TrailInv
<1>10. CASE job[w].op # "login"
  <2>1. Continue(w, "erase", job[w])
    BY <1>10 DEF WriteAudit
  <2>2. WorkerOK("erase", job[w], users', lastUser', issued')
    BY <1>1, <1>2 DEF WorkerOK
  <2>3. WorkersOK'
    BY <1>6, <2>1, <2>2, WorkersContinue DEF TrailInv
  <2>4. \A v \in Workers \ {w} : PendingLogin(v) => job[w].token # job[v].token
    BY <1>1, OthersDiffer DEF TrailInv
  <2>5. LoginsFirst'
    BY <1>3, <1>4, <2>1, <2>4, FirstContinue DEF TrailInv
  <2> QED
    BY <1>6, <1>7, <1>8, <2>3, <2>5 DEF TrailInv
<1> QED
  BY <1>9, <1>10

\* A session is opened with a token that nobody had.
LEMMA OpenTrail ==
  ASSUME TypeOK, TypeOK', TrailInv, NEW w \in Workers, OpenSession(w)
  PROVE  TrailInv'
<1> DEFINE t == NewToken(job[w].name)
           s == [name |-> job[w].name, role |-> job[w].role]
           j == [job[w] EXCEPT !.token = t]
<1>1. /\ pc[w] = "open" /\ UNCHANGED <<users, lastUser, audit, lastAudit>>
      /\ issued' = Append(issued, t.name)
      /\ sessions' \in Outcomes(w, Inserted(t, s))
      /\ Continue(w, "audit", j)
  BY DEF OpenSession, Opened, database
<1>2. /\ WellFormed("open", job[w]) /\ job[w] \in Job
      /\ WorkerOK("open", job[w], users, lastUser, issued)
  BY <1>1 DEF TypeOK, ControlOK, TrailInv, WorkersOK, WellFormed
<1>3. t.name = job[w].name /\ t.time = Len(issued) + 1 /\ s.name = t.name
  BY DEF NewToken
<1>14. s \in Session
  BY <1>2 DEF WellFormed, Session
<1>4. /\ j.token = t /\ j.op = job[w].op /\ j.user = job[w].user /\ j.name = job[w].name
  BY <1>2 DEF Job
<1> HIDE DEF t, s, j
<1>15. t \in Tokens
  <2>1. pc'[w] = "audit" /\ job'[w] = j
    BY <1>1 DEF Continue, TypeOK, ControlOK
  <2>2. WellFormed("audit", j)
    BY <2>1 DEF TypeOK, ControlOK
  <2> QED
    BY <1>4, <2>2 DEF WellFormed
<1>5. issued \in Seq(Names) /\ t.name \in Names
  BY <1>2, <1>3 DEF TypeOK, DataOK, WellFormed
<1>6. Of(t, issued') /\ \A k \in DOMAIN issued : k \in DOMAIN issued' /\ issued'[k] = issued[k]
  BY <1>1, <1>3, <1>5 DEF Of
<1>7. ~Of(t, issued)
  BY <1>3, <1>5 DEF Of
<1>8. \A k : Of(k, issued) => Of(k, issued')
  BY <1>6 DEF Of
<1>9. Later
  BY <1>1, <1>6 DEF Later, TypeOK, DataOK
<1>10. UsersOK' /\ RowsOK' /\ LogoutsFollowLogins'
  <2>1. UsersOK' /\ LogoutsFollowLogins'
    BY <1>1 DEF TrailInv, UsersOK, LogoutsFollowLogins
  <2>2. RowsOK'
    BY <1>1, <1>8 DEF TrailInv, RowsOK
  <2> QED
    BY <2>1, <2>2
<1>11. SessionsOK'
  <2>1. t \in Tokens
    BY <1>15
  <2>2. /\ Inserted(t, s) \in [DOMAIN sessions \cup {t} -> Session]
        /\ \A k \in DOMAIN sessions \cup {t} :
             Inserted(t, s)[k] = IF k = t THEN s ELSE sessions[k]
    BY <1>14, <2>1, InsertedType DEF TypeOK
  <2>6. PICK map : map = Inserted(t, s)
    OBVIOUS
  <2>7. map \in [DOMAIN sessions \cup {t} -> Session] /\ sessions' \in Outcomes(w, map)
    BY <1>1, <2>2, <2>6
  <2>8. /\ DOMAIN sessions' \subseteq DOMAIN sessions \cup {t}
        /\ \A k \in DOMAIN sessions \cup {t} : k \in DOMAIN sessions' => sessions'[k] = map[k]
    BY <2>7, OutcomesAreLeft
  <2>3. /\ DOMAIN sessions' \subseteq DOMAIN sessions \cup {t}
        /\ \A k \in DOMAIN sessions' : sessions'[k] = Inserted(t, s)[k]
    BY <2>6, <2>8
  <2>4. \A k \in DOMAIN sessions' : sessions'[k] = IF k = t THEN s ELSE sessions[k]
    BY <2>2, <2>3
  <2>5. \A k \in DOMAIN sessions : Of(k, issued') /\ sessions[k].name \in {k.name, NoName}
    BY <1>8 DEF TrailInv, SessionsOK
  <2> QED
    BY <1>3, <1>6, <2>3, <2>4, <2>5 DEF SessionsOK
<1>12. WorkersOK'
  <2>1. NamesOne(j.user, j.name, users', lastUser')
    BY <1>1, <1>2, <1>4 DEF WorkerOK
  <2>2. WorkerOK("audit", j, users', lastUser', issued')
    BY <1>4, <1>6, <2>1 DEF WorkerOK
  <2> QED
    BY <1>1, <1>9, <2>2, WorkersContinue DEF TrailInv
<1>13. LoginsFirst'
  <2>1. pc' = [pc EXCEPT ![w] = "audit"] /\ job' = [job EXCEPT ![w] = j]
    BY <1>1 DEF Continue
  <2>2. job'[w] = j /\ \A v \in Workers \ {w} : pc'[v] = pc[v] /\ job'[v] = job[v]
    BY <2>1 DEF TypeOK, ControlOK
  <2>3. \A v \in Workers \ {w} : pc[v] # "idle" => job[v].token # t
    <3> SUFFICES ASSUME NEW v \in Workers \ {w}, pc[v] # "idle", job[v].token = t PROVE FALSE
      OBVIOUS
    <3>1. t # Null
      BY <1>15, NamesAssumption
    <3>2. Of(t, issued)
      BY <3>1 DEF TrailInv, WorkersOK, WorkerOK
    <3> QED
      BY <1>7, <3>2
  <2>4. \A a \in audit : a.token # t
    BY <1>7 DEF TrailInv, RowsOK
  <2> QED
    BY <1>1, <1>4, <2>2, <2>3, <2>4 DEF TrailInv, LoginsFirst, PendingLogin
<1> QED
  BY <1>10, <1>11, <1>12, <1>13 DEF TrailInv

\* Users come with a new id, or go.
LEMMA UsersTrail ==
  ASSUME TypeOK, TypeOK', TrailInv, NEW w \in Workers, Register(w) \/ DeleteUser(w)
  PROVE  TrailInv'
<1>1. UNCHANGED <<audit, lastAudit, issued, sessions>> /\ pc[w] # "idle"
  BY DEF Register, DeleteUser
<1>2. lastUser \in Nat /\ \A u \in users : u.id \in Nat /\ u.id <= lastUser
  BY DEF TypeOK, DataOK, User, TrailInv, UsersOK
<1>3. \/ users' \subseteq users /\ lastUser' = lastUser
      \/ \E u : users' = users \cup {u} /\ u.id = lastUser + 1 /\ lastUser' = lastUser + 1
  <2>1. CASE DeleteUser(w)
    BY <2>1 DEF DeleteUser
  <2>2. CASE Register(w)
    <3> DEFINE u == [id |-> NextUser, owner |-> job[w].name, name |-> job[w].new, role |-> job[w].role]
    <3>1. \/ UNCHANGED <<users, lastUser>>
          \/ users' = users \cup {u} /\ lastUser' = NextUser
      BY <2>2 DEF Register
    <3>2. u.id = lastUser + 1 /\ NextUser = lastUser + 1
      BY DEF NextUser
    <3> HIDE DEF u
    <3> QED
      BY <3>1, <3>2
  <2> QED
    BY <2>1, <2>2
<1>4. Later
  BY <1>1, <1>2, <1>3 DEF Later
<1>5. UsersOK'
  <2>1. CASE users' \subseteq users /\ lastUser' = lastUser
    BY <2>1 DEF TrailInv, UsersOK
  <2>2. ASSUME NEW u, users' = users \cup {u}, u.id = lastUser + 1, lastUser' = lastUser + 1
        PROVE  UsersOK'
    <3>1. \A v \in users : v.id < u.id
      BY <1>2, <2>2
    <3>2. \A v \in users' : v.id <= lastUser'
      BY <1>2, <2>2
    <3> QED
      BY <1>2, <2>2, <3>1, <3>2 DEF TrailInv, UsersOK
  <2> QED
    BY <1>3, <2>1, <2>2
<1>6. RowsOK'
  <2> SUFFICES ASSUME NEW a \in audit
               PROVE  /\ a.id <= lastAudit /\ Of(a.token, issued)
                      /\ NamesOne(a.user, a.name, users', lastUser')
    BY <1>1 DEF RowsOK
  <2>1. a.user \in Nat
    BY DEF TypeOK, DataOK, Audit
  <2> QED
    BY <1>4, <2>1, NamesStays DEF TrailInv, RowsOK
<1>7. SessionsOK' /\ LogoutsFollowLogins'
  BY <1>1 DEF TrailInv, SessionsOK, LogoutsFollowLogins
<1>8. CASE DeleteUser(w)
  <2>1. Continue(w, "changes", job[w])
    BY <1>8 DEF DeleteUser
  <2>2. WorkerOK("changes", job[w], users', lastUser', issued')
    BY <1>1 DEF TrailInv, WorkersOK, WorkerOK
  <2>3. WorkersOK'
    BY <1>4, <2>1, <2>2, WorkersContinue DEF TrailInv
  <2>4. \A v \in Workers \ {w} : PendingLogin(v) => job[w].token # job[v].token
    BY <1>1, OthersDiffer DEF TrailInv
  <2>5. LoginsFirst'
    BY <1>1, <2>1, <2>4, FirstContinue DEF TrailInv
  <2> QED
    BY <1>5, <1>6, <1>7, <2>3, <2>5 DEF TrailInv
<1>9. CASE Register(w)
  <2>1. PICK status : Respond(w, status, {})
    BY <1>9 DEF Register, Reply
  <2>2. WorkersOK'
    BY <1>4, <2>1, WorkersRespond DEF TrailInv
  <2>3. LoginsFirst'
    BY <1>1, <2>1, FirstRespond DEF TrailInv
  <2> QED
    BY <1>5, <1>6, <1>7, <2>2, <2>3 DEF TrailInv
<1> QED
  BY <1>8, <1>9

\* The steps that leave what is stored alone: of handlers that wait, read or
\* answer.
LEMMA QuietTrail ==
  ASSUME TypeOK, TypeOK', TrailInv, NEW w \in Workers, pc[w] # "idle", SessionsOK',
         UNCHANGED <<users, lastUser, audit, lastAudit, issued>>
  PROVE  /\ \A label, j :
              /\ Continue(w, label, j)
              /\ WorkerOK(label, j, users, lastUser, issued)
              /\ j.token = job[w].token
              /\ ~(label = "audit" /\ j.op = "login")
              => TrailInv'
         /\ \A status, shown : Respond(w, status, shown) => TrailInv'
<1>1. Later /\ UsersOK' /\ RowsOK' /\ LogoutsFollowLogins' /\ audit' = audit
  BY DEF TrailInv, UsersOK, RowsOK, LogoutsFollowLogins, Later, TypeOK, DataOK
<1>2. ASSUME NEW label, NEW j, Continue(w, label, j),
             WorkerOK(label, j, users, lastUser, issued), j.token = job[w].token,
             ~(label = "audit" /\ j.op = "login")
      PROVE  TrailInv'
  <2>1. WorkerOK(label, j, users', lastUser', issued')
    BY <1>2
  <2>2. WorkersOK'
    BY <1>1, <1>2, <2>1, WorkersContinue DEF TrailInv
  <2>3. \A v \in Workers \ {w} : PendingLogin(v) => j.token # job[v].token
    BY <1>2, OthersDiffer DEF TrailInv
  <2>4. LoginsFirst'
    BY <1>1, <1>2, <2>3, FirstContinue DEF TrailInv
  <2> QED
    BY <1>1, <2>2, <2>4 DEF TrailInv
<1>3. ASSUME NEW status, NEW shown, Respond(w, status, shown) PROVE TrailInv'
  BY <1>1, <1>3, WorkersRespond, FirstRespond DEF TrailInv
<1> QED
  BY <1>2, <1>3

\* A session goes; the logouts whose iterators dangle audit what they would.
LEMMA EraseTrail ==
  ASSUME TypeOK, TypeOK', TrailInv, NEW w \in Workers, EraseSession(w)
  PROVE  TrailInv'
<1>1. UNCHANGED <<users, lastUser, audit, lastAudit, issued>>
  BY DEF EraseSession, database
<1>2. UsersOK' /\ RowsOK' /\ LogoutsFollowLogins'
  BY <1>1 DEF TrailInv, UsersOK, RowsOK, LogoutsFollowLogins
<1>3. SessionsOK'
  <2>1. PICK gone : sessions' \in Outcomes(w, Without(sessions, {gone}))
    BY DEF EraseSession
  <2>2. PICK map : map = Without(sessions, {gone})
    OBVIOUS
  <2>4. map \in [DOMAIN sessions \ {gone} -> Session] /\ sessions' \in Outcomes(w, map)
    BY <2>1, <2>2 DEF TypeOK, DataOK, Without
  <2>6. \A k \in DOMAIN sessions \ {gone} : map[k] = sessions[k]
    BY <2>2 DEF Without
  <2>5. /\ DOMAIN sessions' \subseteq DOMAIN sessions \ {gone}
        /\ \A k \in DOMAIN sessions \ {gone} : k \in DOMAIN sessions' => sessions'[k] = map[k]
    BY <2>4, OutcomesAreLeft
  <2>3. /\ DOMAIN sessions' \subseteq DOMAIN sessions
        /\ \A k \in DOMAIN sessions' : sessions'[k] = sessions[k]
    BY <2>5, <2>6
  <2> QED
    BY <1>1, <2>3 DEF TrailInv, SessionsOK
<1>4. WorkersOK'
  <2> SUFFICES ASSUME NEW v \in Workers, pc'[v] # "idle"
               PROVE  WorkerOK(pc'[v], job'[v], users', lastUser', issued')
    BY DEF WorkersOK
  <2>1. v # w /\ pc'[v] = pc[v] /\ Still(job[v], job'[v])
    BY ErasedJobs
  <2>2. WorkerOK(pc[v], job[v], users, lastUser, issued)
    BY <2>1 DEF TrailInv, WorkersOK
  <2> QED
    BY <1>1, <2>1, <2>2 DEF Still, WorkerOK
<1>5. LoginsFirst'
  <2>1. \A v \in Workers : pc'[v] # "idle" => /\ pc[v] = pc'[v] /\ job'[v].op = job[v].op
                                             /\ job'[v].token = job[v].token
    BY ErasedJobs DEF Still
  <2> QED
    BY <1>1, <2>1 DEF TrailInv, LoginsFirst, PendingLogin
<1> QED
  BY <1>2, <1>3, <1>4, <1>5 DEF TrailInv

\* Every step of a handler keeps the trail.
LEMMA StepTrail ==
  ASSUME TypeOK, TypeOK', TrailInv, NEW w \in Workers, Step(w)
  PROVE  TrailInv'
<1>1. pc[w] # "idle" => /\ WellFormed(pc[w], job[w]) /\ job[w] \in Job
                        /\ WorkerOK(pc[w], job[w], users, lastUser, issued)
  BY DEF TypeOK, ControlOK, WellFormed, TrailInv, WorkersOK
<1>2. UNCHANGED <<issued, sessions>> => SessionsOK'
  BY DEF TrailInv, SessionsOK
<1>3. ASSUME pc[w] # "idle", SessionsOK', UNCHANGED <<users, lastUser, audit, lastAudit, issued>>,
             NEW status, NEW shown, Respond(w, status, shown)
      PROVE  TrailInv'
  BY <1>3, QuietTrail
<1>4. ASSUME pc[w] # "idle", SessionsOK', UNCHANGED <<users, lastUser, audit, lastAudit, issued>>,
             NEW label, NEW j, Continue(w, label, j),
             WorkerOK(label, j, users, lastUser, issued), j.token = job[w].token,
             ~(label = "audit" /\ j.op = "login")
      PROVE  TrailInv'
  BY <1>4, QuietTrail
<1>5. CASE NotLoggedIn(w) \/ Refused(w) \/ LogoutFails(w) \/ CheckChanges(w)
  BY <1>2, <1>3, <1>5 DEF NotLoggedIn, Refused, LogoutFails, CheckChanges, Reply, database
<1>6. CASE LoggedIn(w)
  <2>1. /\ pc[w] = "find"
        /\ UNCHANGED <<users, lastUser, audit, lastAudit, issued, sessions>>
        /\ \/ Continue(w, "name", job[w])
           \/ \E n : Continue(w, "lookup", [job[w] EXCEPT !.name = n])
    BY <1>6 DEF LoggedIn, database
  <2>2. CASE Continue(w, "name", job[w])
    <3>1. WorkerOK("name", job[w], users, lastUser, issued)
      BY <1>1, <2>1 DEF WorkerOK
    <3> QED
      BY <1>2, <1>4, <2>1, <2>2, <3>1
  <2>3. ASSUME NEW n, Continue(w, "lookup", [job[w] EXCEPT !.name = n]) PROVE TrailInv'
    <3>1. PICK j : j = [job[w] EXCEPT !.name = n]
      OBVIOUS
    <3>2. j.token = job[w].token
      BY <1>1, <2>1, <3>1 DEF Job
    <3>3. WorkerOK("lookup", j, users, lastUser, issued)
      BY <1>1, <2>1, <3>2 DEF WorkerOK
    <3> QED
      BY <1>2, <1>4, <2>1, <2>3, <3>1, <3>2, <3>3
  <2> QED
    BY <2>1, <2>2, <2>3
<1>7. CASE ReadName(w) \/ ReadRole(w)
  <2>1. /\ pc[w] \in {"name", "role"} /\ \E s \in Session : Subscripted(w, job[w].token, s)
        /\ UNCHANGED <<users, lastUser, audit, lastAudit, issued>>
    BY <1>7 DEF ReadName, ReadRole, database
  <2>2. job[w].token \in Tokens /\ Of(job[w].token, issued)
    BY <1>1, <2>1, NamesAssumption DEF WellFormed, WorkerOK
  <2>3. SessionsOK'
    BY <2>1, <2>2, SubscriptedTrail DEF TrailInv, TypeOK
  <2>4. PICK label, j : /\ label \in {"register", "work", "role"} /\ j.token = job[w].token
                        /\ Continue(w, label, j)
    <3>1. ASSUME NEW n PROVE [job[w] EXCEPT !.name = n].token = job[w].token
                             /\ [job[w] EXCEPT !.role = n].token = job[w].token
      BY <1>1, <2>1 DEF Job
    <3>2. CASE ReadName(w)
      <4>1. \E n : Continue(w, AfterName(job[w].op), [job[w] EXCEPT !.name = n])
        BY <3>2 DEF ReadName
      <4>2. AfterName(job[w].op) \in {"register", "work", "role"}
        BY DEF AfterName
      <4> QED
        BY <3>1, <4>1, <4>2
    <3>3. CASE ReadRole(w)
      <4>1. \E r : Continue(w, "work", [job[w] EXCEPT !.role = r])
        BY <3>3 DEF ReadRole
      <4> QED
        BY <3>1, <4>1
    <3> QED
      BY <1>7, <3>2, <3>3
  <2>5. WorkerOK(label, j, users, lastUser, issued)
    BY <2>2, <2>4 DEF WorkerOK
  <2> QED
    BY <1>4, <2>1, <2>3, <2>4, <2>5
<1>8. CASE SelectUser(w)
  <2>1. /\ pc[w] = "select" /\ UNCHANGED <<users, lastUser, audit, lastAudit, issued, sessions>>
    BY <1>8 DEF SelectUser, database
  <2>2. PICK u \in users : /\ u.name = job[w].name
                           /\ Continue(w, "open", [job[w] EXCEPT !.user = u.id, !.owner = u.owner,
                                                                 !.role = u.role])
    BY <1>8 DEF SelectUser, Accounts
  <2> DEFINE j == [job[w] EXCEPT !.user = u.id, !.owner = u.owner, !.role = u.role]
  <2>3. j.token = job[w].token /\ j.name = job[w].name /\ j.user = u.id
    BY <1>1, <2>1 DEF Job
  <2>4. Continue(w, "open", j)
    BY <2>2
  <2> HIDE DEF j
  <2>5. NamesOne(j.user, j.name, users, lastUser)
    BY <2>2, <2>3 DEF NamesOne, TrailInv, UsersOK
  <2>6. WorkerOK("open", j, users, lastUser, issued)
    BY <1>1, <2>1, <2>3, <2>5 DEF WorkerOK
  <2> QED
    BY <1>2, <1>4, <2>1, <2>3, <2>4, <2>6
<1>9. CASE LookUpUser(w)
  <2>1. /\ pc[w] = "lookup" /\ UNCHANGED <<users, lastUser, audit, lastAudit, issued, sessions>>
    BY <1>9 DEF LookUpUser, database
  <2>2. /\ job[w] \in Job /\ job[w].op = "logout" /\ job[w].token \in Tokens
        /\ Of(job[w].token, issued)
    BY <1>1, <2>1, NamesAssumption DEF WellFormed, WorkerOK
  <2>3. CASE Continue(w, "erase", job[w])
    <3>1. WorkerOK("erase", job[w], users, lastUser, issued)
      BY <2>2 DEF WorkerOK
    <3> QED
      BY <1>2, <1>4, <2>1, <2>3, <3>1
  <2>4. ASSUME NEW u \in users, u.name = job[w].name,
               Continue(w, "audit", [job[w] EXCEPT !.user = u.id, !.owner = u.owner])
        PROVE  TrailInv'
    <3>1. PICK j : j = [job[w] EXCEPT !.user = u.id, !.owner = u.owner]
      OBVIOUS
    <3>2. j.token = job[w].token /\ j.op = job[w].op /\ j.user = u.id /\ j.name = u.name
      BY <2>2, <2>4, <3>1 DEF Job
    <3>3. NamesOne(j.user, j.name, users, lastUser)
      BY <3>2 DEF NamesOne, TrailInv, UsersOK
    <3>4. WorkerOK("audit", j, users, lastUser, issued)
      BY <2>2, <3>2, <3>3 DEF WorkerOK
    <3> QED
      BY <1>2, <1>4, <2>1, <2>2, <2>4, <3>1, <3>2, <3>4
  <2> QED
    BY <1>9, <2>3, <2>4 DEF LookUpUser, Accounts
<1>10. CASE EraseSession(w)
  BY <1>10, EraseTrail
<1>11. CASE DeleteUserFails(w)
  BY <1>2, <1>3, <1>11 DEF DeleteUserFails, Reply, database
<1>12. CASE AnswerFromSession(w)
  <2>1. \E status, shown : Respond(w, status, shown)
    BY <1>12 DEF AnswerFromSession, Reply
  <2>2. /\ pc[w] = "work" /\ UNCHANGED <<users, lastUser, audit, lastAudit, issued, sessions>>
    BY <1>12 DEF AnswerFromSession, database
  <2> QED
    BY <1>2, <1>3, <2>1, <2>2
<1>13. CASE OpenSession(w)
  BY <1>13, OpenTrail
<1>14. CASE WriteAudit(w)
  BY <1>14, WriteTrail
<1>15. CASE Register(w) \/ DeleteUser(w)
  BY <1>15, UsersTrail
<1> QED
  BY <1>5, <1>6, <1>7, <1>8, <1>9, <1>10, <1>11, <1>12, <1>13, <1>14, <1>15 DEF Step

\* The trail is kept by every behaviour.
LEMMA TrailInvariant == Spec => []TrailInv
<1>1. Init => TrailInv
  BY DEF Init, TrailInv, UsersOK, RowsOK, SessionsOK, WorkersOK, LoginsFirst,
     LogoutsFollowLogins, PendingLogin
<1>2. TypeOK /\ TypeOK' /\ TrailInv /\ [Next]_vars => TrailInv'
  <2> SUFFICES ASSUME TypeOK, TypeOK', TrailInv, [Next]_vars PROVE TrailInv'
    OBVIOUS
  <2>1. CASE \E w \in Workers : Step(w) \/ Arrival(w)
    BY <2>1, StepTrail, ArrivalTrail
  <2>2. CASE OtherStatement \/ UNCHANGED vars
    <3>1. UNCHANGED <<users, lastUser, audit, lastAudit, issued, sessions, pc, job>>
      BY <2>2 DEF OtherStatement, vars, database
    <3> QED
      BY <3>1 DEF TrailInv, UsersOK, RowsOK, SessionsOK, WorkersOK, LoginsFirst,
         LogoutsFollowLogins, PendingLogin
  <2>3. CASE Crash
    BY <2>3 DEF Crash, database, TrailInv, UsersOK, RowsOK, SessionsOK, WorkersOK, LoginsFirst,
       LogoutsFollowLogins, PendingLogin
  <2> QED
    BY <2>1, <2>2, <2>3 DEF Next
<1> QED
  BY <1>1, <1>2, TypeCorrect, PTL DEF Spec

\* A session is of a login that was made, and of its user or nobody, however
\* checks, logins and logouts interleave on the map.
THEOREM TokensOpenTheirSession == Spec => []SessionsAreOfTheirLogin
<1>1. TrailInv => SessionsAreOfTheirLogin
  BY DEF TrailInv, SessionsOK, SessionsAreOfTheirLogin, Of, Issued
<1> QED
  BY <1>1, TrailInvariant, PTL

\* The user_id of an audit row names the account that was looked up, or nobody
\* any more, though users are deleted and registered between the SELECT that
\* found the id and the INSERT of the row, and ever after.
THEOREM AuditsNameTheirUser == Spec => []AuditsStayWithTheirUser
<1>1. TypeOK /\ TrailInv => AuditsStayWithTheirUser
  BY DEF TrailInv, RowsOK, NamesOne, AuditsStayWithTheirUser
<1> QED
  BY <1>1, TrailInvariant, TypeCorrect, PTL

\* The audit has the login before the logout of the same token, though the
\* token is in the map before its login is written.
THEOREM TrailIsInOrder == Spec => []LogoutsFollowLogins
<1>1. TrailInv => LogoutsFollowLogins
  BY DEF TrailInv
<1> QED
  BY <1>1, TrailInvariant, PTL

-----------------------------------------------------------------------------
(* One thread: the token a check found is still in the map when the handler *)
(* reads sessions[token].                                                   *)

AloneInv ==
  /\ \A w \in Workers :
       /\ pc[w] \in {"name", "role"} => Present(job[w].token)
       /\ pc[w] = "register" =>
            job[w].name = IF job[w].op = "add_user" THEN job[w].new ELSE job[w].token.name
  /\ \A t \in DOMAIN sessions : sessions[t].name = t.name

\* A token that enters the map is of no login before.
Fresh == \A t \in DOMAIN sessions' \ DOMAIN sessions : ~Issued(t)

\* A user who enters the table is of the person who registers him.
Owned ==
  \A u \in users' \ users :
    \E w \in Workers :
      /\ pc[w] = "register" /\ pc'[w] = "idle"
      /\ u.name = job[w].new
      /\ u.owner = IF job[w].op = "add_user" THEN u.name ELSE job[w].token.name

\* Nobody writes the map while the one thread uses it.
LEMMA NobodyRaces ==
  ASSUME NEW w, Workers = {w}
  PROVE  /\ ~Raced(w)
         /\ \A map : Outcomes(w, map) = {map}
         /\ \A t : Read(w, t) = {sessions[t]}
BY DEF Raced, Outcomes, Read

\* No step of the one thread leaves a check without its session, opens one for
\* another, brings a token back, or registers a user under another's name.
LEMMA AloneStep ==
  ASSUME TypeOK, TypeOK', AloneInv, NEW w, Workers = {w}, Step(w) \/ Arrival(w)
  PROVE  AloneInv' /\ Fresh /\ Owned
<1>1. /\ pc[w] # "idle" => WellFormed(pc[w], job[w]) /\ job[w] \in Job
      /\ w \in Workers /\ \A v \in Workers : v = w
  BY DEF TypeOK, ControlOK, WellFormed
<1>2. ASSUME sessions' = sessions, users' \subseteq users,
             NEW label, NEW j, Continue(w, label, j),
             label \in {"name", "role"} => Present(j.token),
             label = "register" =>
               j.name = IF j.op = "add_user" THEN j.new ELSE j.token.name
      PROVE  AloneInv' /\ Fresh /\ Owned
  <2>1. pc'[w] = label /\ job'[w] = j
    BY <1>1, <1>2 DEF Continue, TypeOK, ControlOK
  <2> QED
    BY <1>1, <1>2, <2>1 DEF AloneInv, Present, Fresh, Owned
<1>3. ASSUME NEW status, NEW shown, Respond(w, status, shown), Owned, sessions' = sessions
      PROVE  AloneInv' /\ Fresh /\ Owned
  <2>1. pc'[w] = "idle"
    BY <1>1, <1>3 DEF Respond, TypeOK, ControlOK
  <2> QED
    BY <1>1, <1>3, <2>1 DEF AloneInv, Fresh
<1>4. users' = users => Owned
  BY DEF Owned
<1>5. ASSUME NEW label \in {"find", "select"}, NEW j, Accept(w, label, j)
      PROVE  AloneInv' /\ Fresh /\ Owned
  BY <1>2, <1>5 DEF Accept, database
<1>6. CASE AcceptPlain(w) \/ AcceptGetUsers(w) \/ AcceptSubUser(w) \/ AcceptDeleteUser(w)
           \/ AcceptLogout(w) \/ AcceptLogin(w)
  BY <1>5, <1>6 DEF AcceptPlain, AcceptGetUsers, AcceptSubUser, AcceptDeleteUser,
     AcceptLogout, AcceptLogin
<1>7. CASE AcceptUser(w)
  <2>1. PICK n \in Names, r \in Roles, fit \in BOOLEAN :
          Accept(w, "register", [Request("add_user") EXCEPT !.name = n, !.new = n,
                                                            !.role = r, !.right = fit])
    BY <1>7 DEF AcceptUser
  <2>2. PICK j : j = [Request("add_user") EXCEPT !.name = n, !.new = n, !.role = r, !.right = fit]
    OBVIOUS
  <2>3. j.name = j.new /\ j.op = "add_user"
    BY <2>2 DEF Request
  <2>4. Continue(w, "register", j) /\ sessions' = sessions /\ users' = users
    BY <2>1, <2>2 DEF Accept, database
  <2> QED
    BY <1>2, <2>3, <2>4
<1>8. CASE NotLoggedIn(w) \/ Refused(w) \/ CheckChanges(w) \/ DeleteUserFails(w) \/ LogoutFails(w)
  BY <1>3, <1>4, <1>8 DEF NotLoggedIn, Refused, CheckChanges, DeleteUserFails, LogoutFails,
     Reply, database
<1>9. CASE LoggedIn(w)
  <2>1. /\ Present(job[w].token) /\ sessions' = sessions /\ users' = users
        /\ \/ Continue(w, "name", job[w])
           \/ \E j : Continue(w, "lookup", j)
    BY <1>9 DEF LoggedIn, database
  <2> QED
    BY <1>2, <2>1
<1>10. CASE ReadName(w)
  <2>1. PICK s : /\ Subscripted(w, job[w].token, s)
                 /\ Continue(w, AfterName(job[w].op), [job[w] EXCEPT !.name = s.name])
    BY <1>10 DEF ReadName
  <2>2. pc[w] = "name" /\ Present(job[w].token) /\ users' = users
    BY <1>1, <1>10 DEF ReadName, AloneInv, database
  <2>3. sessions' = sessions /\ s.name = job[w].token.name
    BY <2>1, <2>2, NobodyRaces DEF Subscripted, AloneInv, Present
  <2>4. PICK j : j = [job[w] EXCEPT !.name = s.name]
    OBVIOUS
  <2>5. j.name = s.name /\ j.token = job[w].token /\ j.op = job[w].op
    BY <1>1, <2>2, <2>4 DEF Job
  <2>6. AfterName(job[w].op) = "register" => job[w].op # "add_user"
    BY DEF AfterName
  <2> QED
    BY <1>2, <2>1, <2>2, <2>3, <2>4, <2>5, <2>6
<1>11. CASE ReadRole(w)
  <2>1. PICK s : /\ Subscripted(w, job[w].token, s)
                 /\ Continue(w, "work", [job[w] EXCEPT !.role = s.role])
    BY <1>11 DEF ReadRole
  <2>2. pc[w] = "role" /\ Present(job[w].token) /\ users' = users
    BY <1>1, <1>11 DEF ReadRole, AloneInv, database
  <2>3. sessions' = sessions
    BY <2>1, <2>2, NobodyRaces DEF Subscripted
  <2> QED
    BY <1>2, <2>1, <2>2, <2>3
<1>12. CASE SelectUser(w)
  <2>1. (\E j : Continue(w, "open", j)) /\ sessions' = sessions /\ users' = users
    BY <1>12 DEF SelectUser, database
  <2> QED
    BY <1>2, <2>1
<1>13. CASE OpenSession(w)
  <2> DEFINE t == NewToken(job[w].name)
             s == [name |-> job[w].name, role |-> job[w].role]
  <2>1. /\ pc[w] = "open" /\ users' = users /\ pc' = [pc EXCEPT ![w] = "audit"]
        /\ sessions' = Inserted(t, s)
    BY <1>13, NobodyRaces DEF OpenSession, Opened, Continue, database
  <2>2. s.name = t.name
    BY DEF NewToken
  <2>3. ~Issued(t)
    BY DEF TypeOK, DataOK, Issued, NewToken
  <2> HIDE DEF t, s
  <2>4. DOMAIN sessions' = DOMAIN sessions \cup {t}
    BY <2>1 DEF Inserted
  <2>5. \A k \in DOMAIN sessions' : sessions'[k] = IF k = t THEN s ELSE sessions[k]
    BY <2>1, <2>4 DEF Inserted
  <2>6. \A k \in DOMAIN sessions' : sessions'[k].name = k.name
    BY <2>2, <2>4, <2>5 DEF AloneInv
  <2>7. pc'[w] = "audit"
    BY <1>1, <2>1 DEF TypeOK, ControlOK
  <2> QED
    BY <1>1, <1>4, <2>1, <2>3, <2>4, <2>6, <2>7 DEF AloneInv, Fresh
<1>14. CASE WriteAudit(w)
  BY <1>2, <1>3, <1>4, <1>14 DEF WriteAudit, Reply
<1>15. CASE LookUpUser(w)
  <2>1. /\ \E label \in {"audit", "erase"} : \E j : Continue(w, label, j)
        /\ sessions' = sessions /\ users' = users
    BY <1>15 DEF LookUpUser, database
  <2> QED
    BY <1>2, <2>1
<1>16. CASE EraseSession(w)
  <2>1. PICK gone : sessions' \in Outcomes(w, Without(sessions, {gone}))
    BY <1>16 DEF EraseSession
  <2>2. sessions' = Without(sessions, {gone})
    BY <2>1, NobodyRaces
  <2>3. /\ DOMAIN sessions' \subseteq DOMAIN sessions
        /\ \A k \in DOMAIN sessions' : sessions'[k] = sessions[k]
    BY <2>2 DEF Without
  <2>4. pc'[w] = "idle" /\ users' = users
    BY <1>1, <1>16, ErasedJobs DEF EraseSession, database
  <2> QED
    BY <1>1, <1>4, <2>3, <2>4 DEF AloneInv, Fresh
<1>17. CASE Register(w)
  <2> DEFINE u == [id |-> NextUser, owner |-> job[w].name, name |-> job[w].new, role |-> job[w].role]
  <2>1. /\ pc[w] = "register" /\ sessions' = sessions /\ users' \in {users, users \cup {u}}
    BY <1>17 DEF Register
  <2>2. u.name = job[w].new /\ u.owner = IF job[w].op = "add_user" THEN u.name ELSE job[w].token.name
    BY <1>1, <2>1 DEF AloneInv
  <2>3. PICK status : Respond(w, status, {})
    BY <1>17 DEF Register, Reply
  <2>4. pc'[w] = "idle"
    BY <1>1, <2>3 DEF Respond, TypeOK, ControlOK
  <2> HIDE DEF u
  <2>5. Owned
    BY <1>1, <2>1, <2>2, <2>4 DEF Owned
  <2> QED
    BY <1>3, <2>1, <2>3, <2>5
<1>18. CASE DeleteUser(w)
  BY <1>2, <1>18 DEF DeleteUser
<1>19. CASE AnswerFromSession(w)
  <2>1. (\E status, shown : Respond(w, status, shown)) /\ sessions' = sessions /\ users' = users
    BY <1>19 DEF AnswerFromSession, Reply, database
  <2> QED
    BY <1>3, <1>4, <2>1
<1> QED
  BY <1>6, <1>7, <1>8, <1>9, <1>10, <1>11, <1>12, <1>13, <1>14, <1>15, <1>16, <1>17, <1>18,
     <1>19 DEF Step, Arrival

\* The one-thread invariant holds, every token that appears is new, and every
\* user who appears is of who registers him.
LEMMA AloneInvariant ==
  ASSUME NEW w, Workers = {w}
  PROVE  Spec => [][Fresh]_vars /\ [][Owned]_vars
<1>1. Init => AloneInv
  BY DEF Init, AloneInv
<1>2. TypeOK /\ TypeOK' /\ AloneInv /\ [Next]_vars =>
        AloneInv' /\ (Fresh \/ UNCHANGED vars) /\ (Owned \/ UNCHANGED vars)
  <2> SUFFICES ASSUME TypeOK, TypeOK', AloneInv, [Next]_vars PROVE AloneInv' /\ Fresh /\ Owned
    OBVIOUS
  <2>1. CASE \E v \in Workers : Step(v) \/ Arrival(v)
    BY <2>1, AloneStep
  <2>2. CASE OtherStatement \/ UNCHANGED vars
    <3>1. UNCHANGED <<users, sessions, pc, job>>
      BY <2>2 DEF OtherStatement, vars, database
    <3> QED
      BY <3>1 DEF AloneInv, Present, Fresh, Owned
  <2>3. CASE Crash
    BY <2>3 DEF Crash, database, AloneInv, Fresh, Owned
  <2> QED
    BY <2>1, <2>2, <2>3 DEF Next
<1> QED
  BY <1>1, <1>2, TypeCorrect, PTL DEF Spec

\* With one thread a session that has ended does not come back: with more,
\* operator[] after an erase brings its token back.
THEOREM AloneSessionsEnd ==
  ASSUME NEW w, Workers = {w}
  PROVE  Spec => SessionsStayEnded
<1>1. Spec => [][Fresh]_vars
  BY AloneInvariant
<1> QED
  BY <1>1, PTL DEF SessionsStayEnded, Fresh

\* With one thread a user's owner is the person who registered him, or himself:
\* with more, a manager who logs out between the two reads of her session
\* leaves the user without.
THEOREM AloneUsersHaveOwners ==
  ASSUME NEW w, Workers = {w}
  PROVE  Spec => OwnersRegisterTheirUsers
<1>1. Spec => [][Owned]_vars
  BY AloneInvariant
<1> QED
  BY <1>1, PTL DEF OwnersRegisterTheirUsers, Owned
=============================================================================
