--------------------------- MODULE CustomersProofs ---------------------------
(***************************************************************************)
(* Proofs about the customer handlers, for any number of workers, users    *)
(* and customers: types, who changes a stored customer, and that one       *)
(* worker's answers say what is stored.                                    *)
(***************************************************************************)
EXTENDS CustomersProperties, TLAPS

-----------------------------------------------------------------------------
(* Control: what Continue, Respond and Accept do to pc and job. *)

\* A worker that goes on with a request that fits the next label keeps the
\* types, if it leaves the vector alone.
LEMMA ContinueType ==
  ASSUME TypeOK, NEW w \in Workers, NEW label \in Labels, NEW j,
         WellFormed(label, j, Len(vec')), Continue(w, label, j), DataOK', vec' = vec
  PROVE  TypeOK'
<1>1. pc' = [pc EXCEPT ![w] = label] /\ job' = [job EXCEPT ![w] = j]
  BY DEF Continue
<1>2. pc' \in [Workers -> Labels] /\ job' \in [Workers -> Job \cup {Null}]
  BY <1>1 DEF TypeOK, ControlOK, WellFormed
<1>3. ASSUME NEW v \in Workers, pc'[v] # "idle" PROVE WellFormed(pc'[v], job'[v], Len(vec'))
  <2>1. CASE v = w
    BY <1>1, <2>1 DEF TypeOK, ControlOK, WellFormed, CustomerOf
  <2>2. CASE v # w
    <3>1. pc'[v] = pc[v] /\ job'[v] = job[v] /\ WellFormed(pc[v], job[v], Len(vec))
      BY <1>1, <1>3, <2>2 DEF TypeOK, ControlOK
    <3> QED
      BY <3>1
  <2> QED
    BY <2>1, <2>2
<1> QED
  BY <1>2, <1>3 DEF TypeOK, ControlOK

\* A worker that answers, and becomes idle, keeps the types.
LEMMA RespondType ==
  ASSUME TypeOK, NEW w \in Workers, NEW status, NEW shown, Respond(w, status, shown),
         DataOK', vec' = vec
  PROVE  TypeOK'
<1>1. pc' = [pc EXCEPT ![w] = "idle"] /\ job' = [job EXCEPT ![w] = Null]
  BY DEF Respond
<1>2. pc' \in [Workers -> Labels] /\ job' \in [Workers -> Job \cup {Null}]
  BY <1>1 DEF TypeOK, ControlOK, Labels
<1>3. ASSUME NEW v \in Workers, pc'[v] # "idle" PROVE WellFormed(pc'[v], job'[v], Len(vec'))
  BY <1>1, <1>3 DEF TypeOK, ControlOK, WellFormed, CustomerOf
<1> QED
  BY <1>2, <1>3 DEF TypeOK, ControlOK

\* A request as a client sends it has the type of one.
LEMMA RequestType ==
  ASSUME NEW o \in Requests, NEW u \in Users
  PROVE  Request(o, u) \in Job
  BY DEF Request, Job

-----------------------------------------------------------------------------
(* Types. *)

\* Taking a request keeps the types.
LEMMA ArrivalType ==
  ASSUME TypeOK, NEW w \in Workers, Arrival(w)
  PROVE  TypeOK'
<1> USE DEF Requests, Labels, WellFormed
<1>1. ASSUME NEW label \in {"check", "update", "delete", "read"}, NEW j \in Job,
             label = "check" => CustomerOf(j) \in CustomerData,
             label = "update" => j.contact \in Contacts /\ j.details \in Details,
             Accept(w, label, j)
      PROVE  TypeOK'
  <2>1. DataOK' /\ vec' = vec
    BY <1>1 DEF Accept, TypeOK, DataOK
  <2>2. WellFormed(label, j, Len(vec'))
    BY <1>1 DEF CustomerOf
  <2> QED
    BY <1>1, <2>1, <2>2, ContinueType DEF Accept
<1>2. CASE AcceptAdd(w)
  <2>1. PICK u \in Users, c \in Contacts, d \in Details :
          Accept(w, "check", [Request("add_customer", u) EXCEPT !.contact = c, !.details = d])
    BY <1>2 DEF AcceptAdd
  <2> DEFINE j == [Request("add_customer", u) EXCEPT !.contact = c, !.details = d]
  <2>2. j \in Job /\ CustomerOf(j) \in CustomerData
    BY DEF Request, Job, CustomerOf, CustomerData
  <2> QED
    BY <1>1, <2>1, <2>2
<1>3. CASE AcceptUpdate(w)
  <2>1. PICK u \in Users, c \in Contacts, d \in Details, id \in 1 .. MaxRows, own \in BOOLEAN :
          Accept(w, "update",
                 [Request("update_customer", u) EXCEPT !.contact = c, !.details = d,
                                                       !.id = id, !.claimed = own])
    BY <1>3 DEF AcceptUpdate
  <2> DEFINE j == [Request("update_customer", u) EXCEPT !.contact = c, !.details = d,
                                                        !.id = id, !.claimed = own]
  <2>2. j \in Job /\ j.contact = c /\ j.details = d
    <3>1. id \in Nat
      BY BoundsAssumption
    <3> QED
      BY <3>1 DEF Request, Job
  <2> QED
    BY <1>1, <2>1, <2>2
<1>4. CASE AcceptDelete(w)
  <2>1. PICK u \in Users, id \in 1 .. MaxRows :
          Accept(w, "delete", [Request("delete_customer", u) EXCEPT !.id = id])
    BY <1>4 DEF AcceptDelete
  <2>2. [Request("delete_customer", u) EXCEPT !.id = id] \in Job
    <3>1. id \in Nat
      BY BoundsAssumption
    <3> QED
      BY <3>1 DEF Request, Job
  <2> QED
    BY <1>1, <2>1, <2>2
<1>5. CASE AcceptList(w)
  BY <1>1, <1>5, RequestType DEF AcceptList
<1>6. CASE AcceptGet(w)
  <2>1. PICK u \in Users, q \in SUBSET Contacts :
          Accept(w, "read", [Request("get_customers", u) EXCEPT !.query = q])
    BY <1>6 DEF AcceptGet
  <2>2. [Request("get_customers", u) EXCEPT !.query = q] \in Job
    BY DEF Request, Job
  <2> QED
    BY <1>1, <2>1, <2>2
<1> QED
  BY <1>2, <1>3, <1>4, <1>5, <1>6 DEF Arrival

\* A push_back keeps the types: the loops that are running are marked, and the
\* vector does not get shorter.
LEMMA PushType ==
  ASSUME TypeOK, NEW w \in Workers, PushCustomer(w)
  PROVE  TypeOK'
<1>1. DataOK /\ WellFormed("push", job[w], Len(vec)) /\ pc[w] = "push"
  BY DEF TypeOK, ControlOK, PushCustomer
<1>2. CustomerOf(job[w]) \in CustomerData
  BY <1>1 DEF WellFormed
<1>3. DataOK'
  BY <1>1, <1>2 DEF PushCustomer, DataOK
<1>4. Len(vec) \in Nat /\ Len(vec') \in Nat /\ Len(vec) <= Len(vec')
  BY <1>1, <1>2, <1>3 DEF PushCustomer, DataOK
<1>5. ASSUME NEW v \in Workers
      PROVE  /\ job'[v] \in Job \cup {Null}
             /\ pc'[v] # "idle" => WellFormed(pc'[v], job'[v], Len(vec'))
  <2>1. CASE pc[v] = "insert"
    <3>1. pc'[v] = "insert" /\ job'[v] = [job[v] EXCEPT !.moved = TRUE]
      BY <1>1, <2>1 DEF PushCustomer, TypeOK, ControlOK
    <3>2. WellFormed("insert", job[v], Len(vec))
      BY <2>1 DEF TypeOK, ControlOK
    <3>3. PICK j : j = job[v]
      OBVIOUS
    <3>4. PICK k : k = [j EXCEPT !.moved = TRUE]
      OBVIOUS
    <3>5. j \in Job /\ j.cursor >= 1 /\ j.last <= Len(vec)
      BY <3>2, <3>3 DEF WellFormed
    <3>6. k \in Job /\ k.cursor = j.cursor /\ k.last = j.last /\ k.moved
      BY <3>4, <3>5 DEF Job
    <3>7. k.last \in Nat
      BY <3>6 DEF Job
    <3>8. WellFormed("insert", k, Len(vec'))
      BY <1>4, <3>5, <3>6, <3>7 DEF WellFormed
    <3> QED
      BY <3>1, <3>3, <3>4, <3>6, <3>8
  <2>2. CASE pc[v] # "insert"
    <3>1. job'[v] = job[v] /\ pc'[v] # "insert"
      BY <2>2 DEF PushCustomer, TypeOK, ControlOK
    <3>2. pc'[v] = pc[v] \/ pc'[v] = "save"
      BY DEF PushCustomer, TypeOK, ControlOK
    <3>3. job[v] \in Job \cup {Null} /\ (pc[v] # "idle" => WellFormed(pc[v], job[v], Len(vec)))
      BY DEF TypeOK, ControlOK
    <3>4. CASE v = w
      BY <1>1, <3>1, <3>4 DEF PushCustomer, TypeOK, ControlOK, WellFormed, CustomerOf
    <3>5. CASE v # w
      <4>1. pc'[v] = pc[v]
        BY <3>5 DEF PushCustomer, TypeOK, ControlOK
      <4> QED
        BY <2>2, <3>1, <3>3, <4>1 DEF WellFormed, CustomerOf
    <3> QED
      BY <3>4, <3>5
  <2> QED
    BY <2>1, <2>2
<1>6. pc' \in [Workers -> Labels] /\ job' \in [Workers -> Job \cup {Null}]
  <2>1. pc' = [pc EXCEPT ![w] = "save"]
    BY DEF PushCustomer
  <2>2. job' = [v \in Workers |-> job'[v]]
    BY DEF PushCustomer
  <2> QED
    BY <1>5, <2>1, <2>2 DEF TypeOK, ControlOK, Labels
<1> QED
  BY <1>3, <1>5, <1>6 DEF TypeOK, ControlOK

\* Every step of a handler keeps the types.
LEMMA StepType ==
  ASSUME TypeOK, NEW w \in Workers, Step(w)
  PROVE  TypeOK'
<1> USE DEF Labels
<1>1. DataOK /\ (pc[w] # "idle" => WellFormed(pc[w], job[w], Len(vec)))
  BY DEF TypeOK, ControlOK
<1>2. ASSUME NEW status, NEW shown, Respond(w, status, shown), vec' = vec, DataOK'
      PROVE  TypeOK'
  BY <1>2, RespondType
<1>3. ASSUME NEW label \in Labels, NEW j, WellFormed(label, j, Len(vec')), Continue(w, label, j),
             vec' = vec, DataOK'
      PROVE  TypeOK'
  BY <1>1, <1>3, ContinueType DEF DataOK
<1>4. CASE CheckCustomer(w)
  <2>1. vec' = vec /\ DataOK'
    BY <1>1, <1>4 DEF CheckCustomer, DataOK
  <2>2. WellFormed("push", job[w], Len(vec'))
    BY <1>1, <1>4 DEF CheckCustomer, WellFormed, CustomerOf
  <2> QED
    BY <1>2, <1>3, <1>4, <2>1, <2>2 DEF CheckCustomer, Reply
<1>5. CASE PushCustomer(w)
  BY <1>5, PushType
<1>6. CASE BeginSave(w)
  <2>1. PICK k : k = [job[w] EXCEPT !.cursor = 1, !.last = Len(vec), !.moved = Overlapped(w)]
    OBVIOUS
  <2>2. vec' = vec /\ DataOK' /\ Continue(w, "insert", k)
    BY <1>1, <1>6, <2>1 DEF BeginSave, DataOK
  <2>3. job[w] \in Job /\ Len(vec) \in Nat /\ Overlapped(w) \in BOOLEAN
    BY <1>1, <1>6 DEF BeginSave, WellFormed, DataOK, Overlapped
  <2>4. k \in Job /\ k.cursor = 1 /\ k.last = Len(vec)
    BY <2>1, <2>3 DEF Job
  <2>5. WellFormed("insert", k, Len(vec'))
    BY <2>2, <2>3, <2>4 DEF WellFormed
  <2> QED
    BY <1>3, <2>2, <2>5
<1>7. CASE InsertCustomer(w)
  <2>1. PICK k : k = [job[w] EXCEPT !.cursor = @ + 1]
    OBVIOUS
  <2>2. /\ job[w] \in Job /\ job[w].cursor \in 1 .. Len(vec)
        /\ job[w].last <= Len(vec) /\ (~job[w].moved => job[w].last = Len(vec))
    BY <1>1, <1>7 DEF InsertCustomer, WellFormed, Job, DataOK
  <2>3. \A c \in ReadAt(job[w]) : c \in CustomerData
    BY <1>1, <2>2 DEF DataOK, ReadAt
  <2>4. vec' = vec /\ Continue(w, "insert", k)
    BY <1>7, <2>1 DEF InsertCustomer
  <2>5. DataOK'
    <3>1. CASE InsertFails
      BY <1>1, <2>4, <3>1 DEF InsertFails, DataOK
    <3>2. ASSUME NEW c \in ReadAt(job[w]), Store(c) PROVE DataOK'
      <4>1. [id |-> lastCustomer + 1, owner |-> c.owner, contact |-> c.contact,
             details |-> c.details] \in Row
        BY <1>1, <2>3 DEF Row, CustomerData, DataOK
      <4> QED
        BY <1>1, <2>4, <3>2, <4>1 DEF Store, DataOK
    <3> QED
      BY <1>7, <3>1, <3>2 DEF InsertCustomer
  <2>6. /\ k \in Job /\ k.cursor >= 1 /\ k.last = job[w].last /\ k.moved = job[w].moved
    BY <2>1, <2>2 DEF Job
  <2>7. WellFormed("insert", k, Len(vec'))
    BY <2>2, <2>4, <2>6 DEF WellFormed
  <2> QED
    BY <1>3, <2>4, <2>5, <2>7
<1>8. CASE EndSave(w)
  <2>1. vec' = vec /\ DataOK'
    BY <1>1, <1>8 DEF EndSave, DataOK
  <2> QED
    BY <1>2, <1>8, <2>1 DEF EndSave, Reply
<1>9. CASE UpdateCustomer(w)
  <2> DEFINE hit == {r \in customers : Updates(r, job[w])}
             new(r) == [r EXCEPT !.contact = job[w].contact, !.details = job[w].details]
  <2>1. job[w] \in Job
    BY <1>1, <1>9 DEF UpdateCustomer, WellFormed
  <2>2. job[w].contact \in Contacts /\ job[w].details \in Details
    BY <1>1, <1>9 DEF UpdateCustomer, WellFormed
  <2>3. \A r \in hit : new(r) \in Row
    BY <1>1, <2>2 DEF DataOK, Row
  <2>4. customers' \subseteq Row /\ changed' \in BOOLEAN
    BY <1>1, <1>9, <2>3 DEF UpdateCustomer, DataOK
  <2>5. vec' = vec /\ DataOK'
    BY <1>1, <1>9, <2>4 DEF UpdateCustomer, DataOK
  <2>6. WellFormed("changes", job[w], Len(vec')) /\ Continue(w, "changes", job[w])
    BY <1>9, <2>1 DEF UpdateCustomer, WellFormed
  <2> QED
    BY <1>3, <2>5, <2>6
<1>10. CASE StatementFails(w)
  <2>1. vec' = vec /\ DataOK'
    BY <1>1, <1>10 DEF StatementFails, DataOK
  <2> QED
    BY <1>2, <1>10, <2>1 DEF StatementFails, Reply
<1>11. CASE CheckChanges(w)
  <2> DEFINE j == [job[w] EXCEPT !.updated = changed]
  <2>1. vec' = vec /\ DataOK'
    BY <1>1, <1>11 DEF CheckChanges, DataOK
  <2>2. j \in Job
    BY <1>1, <1>11 DEF CheckChanges, WellFormed, Job, DataOK
  <2>3. WellFormed("again", j, Len(vec'))
    BY <2>2 DEF WellFormed
  <2>4. \/ Continue(w, "again", j)
        \/ \E status : Respond(w, status, {})
    BY <1>11 DEF CheckChanges, Reply
  <2> QED
    BY <1>2, <1>3, <2>1, <2>3, <2>4
<1>12. CASE CheckChangesAgain(w)
  <2>1. vec' = vec /\ DataOK'
    BY <1>1, <1>12 DEF CheckChangesAgain, DataOK
  <2> QED
    BY <1>2, <1>12, <2>1 DEF CheckChangesAgain, Reply
<1>13. CASE DeleteCustomer(w)
  <2>1. vec' = vec /\ DataOK'
    BY <1>1, <1>13 DEF DeleteCustomer, DataOK
  <2>2. WellFormed("changes", job[w], Len(vec')) /\ Continue(w, "changes", job[w])
    BY <1>1, <1>13 DEF DeleteCustomer, WellFormed
  <2> QED
    BY <1>3, <2>1, <2>2
<1>14. CASE ReadCustomers(w)
  <2>1. vec' = vec /\ DataOK'
    BY <1>1, <1>14 DEF ReadCustomers, DataOK
  <2>2. \E status, shown : Respond(w, status, shown)
    BY <1>14 DEF ReadCustomers, Reply
  <2> QED
    BY <1>2, <2>1, <2>2
<1> QED
  BY <1>4, <1>5, <1>6, <1>7, <1>8, <1>9, <1>10, <1>11, <1>12, <1>13, <1>14 DEF Step

\* Every variable keeps its type in every step of the handlers, of others, and
\* of the machine.
THEOREM TypeCorrect == Spec => []TypeOK
<1>1. Init => TypeOK
  <2>1. Init => DataOK
    <3>1. Init => vec \in Seq(CustomerData)
      BY DEF Init
    <3>2. Init => customers \subseteq Row /\ lastCustomer \in Nat
      BY DEF Init
    <3>3. Init => changed \in BOOLEAN
      BY DEF Init
    <3> QED
      BY <3>1, <3>2, <3>3 DEF DataOK
  <2>2. Init => ControlOK
    BY DEF Init, ControlOK, Labels
  <2> QED
    BY <2>1, <2>2 DEF TypeOK
<1>2. TypeOK /\ [Next]_vars => TypeOK'
  <2> SUFFICES ASSUME TypeOK, [Next]_vars PROVE TypeOK'
    OBVIOUS
  <2>1. CASE \E w \in Workers : Step(w) \/ Arrival(w)
    BY <2>1, StepType, ArrivalType
  <2>2. CASE OtherStatement \/ UNCHANGED vars
    BY <2>2 DEF OtherStatement, vars, TypeOK, DataOK, ControlOK, WellFormed, CustomerOf
  <2>3. CASE Crash
    <3>1. <<>> \in Seq(CustomerData)
      OBVIOUS
    <3> QED
      BY <2>3, <3>1 DEF Crash, TypeOK, DataOK, ControlOK, Labels
  <2> QED
    BY <2>1, <2>2, <2>3 DEF Next
<1> QED
  BY <1>1, <1>2, PTL DEF Spec

-----------------------------------------------------------------------------
(* Owners. *)

\* A step that keeps a row that was stored.
LEMMA ArrivalKeeps ==
  ASSUME NEW w \in Workers, Arrival(w)
  PROVE  customers' = customers
BY DEF Arrival, AcceptAdd, AcceptUpdate, AcceptDelete, AcceptList, AcceptGet, Accept

\* A stored customer changes or goes only by a request of its owner to change
\* or delete it: not by an addition, which writes the customers of every owner
\* in the vector, nor by a restart, a failing statement or another handler.
THEOREM OwnersKeepTheirCustomers == Spec => RowsChangeByTheirOwner
<1>1. ASSUME TypeOK, Next, NEW r \in customers \ customers'
      PROVE  \E w \in Workers : /\ pc[w] \in {"update", "delete"}
                                /\ pc'[w] = "changes"
                                /\ Lower[job[w].user] = Lower[r.owner]
  <2>1. ~OtherStatement /\ ~Crash
    BY <1>1 DEF OtherStatement, Crash
  <2>2. PICK w \in Workers : Step(w)
    BY <1>1, <2>1, ArrivalKeeps DEF Next
  <2>3. ~(CheckCustomer(w) \/ PushCustomer(w) \/ BeginSave(w) \/ EndSave(w) \/ StatementFails(w)
            \/ CheckChanges(w) \/ CheckChangesAgain(w) \/ ReadCustomers(w))
    BY <1>1 DEF CheckCustomer, PushCustomer, BeginSave, EndSave, StatementFails, CheckChanges,
       CheckChangesAgain, ReadCustomers
  <2>4. ~InsertCustomer(w)
    BY <1>1 DEF InsertCustomer, Store, InsertFails
  <2>5. CASE UpdateCustomer(w)
    BY <1>1, <2>5 DEF UpdateCustomer, Updates, Continue, TypeOK, ControlOK
  <2>6. CASE DeleteCustomer(w)
    BY <1>1, <2>6 DEF DeleteCustomer, Deletes, Continue, TypeOK, ControlOK
  <2> QED
    BY <2>2, <2>3, <2>4, <2>5, <2>6 DEF Step
<1> DEFINE ByOwner == \A r \in customers \ customers' :
                        \E w \in Workers : /\ pc[w] \in {"update", "delete"}
                                           /\ pc'[w] = "changes"
                                           /\ Lower[job[w].user] = Lower[r.owner]
<1>2. TypeOK /\ [Next]_vars => [ByOwner]_vars
  BY <1>1
<1> QED
  BY <1>2, TypeCorrect, PTL DEF Spec, RowsChangeByTheirOwner

-----------------------------------------------------------------------------
(* One thread: what it answers is what the table holds. *)

\* The rows an update is for, and whether one has what was sent.
Own(j) == {r \in customers : Updates(r, j)}

AsSent(r, j) == r.contact = j.contact /\ r.details = j.details

\* An update on its way to its answer: sqlite3_changes tells whether the
\* statement found the customer, who then has what was sent.
Updated(label, j) ==
  /\ label = "update" => j.op = "update_customer"
  /\ label = "changes" => j.op \in {"update_customer", "delete_customer"}
  /\ label = "again" => j.op = "update_customer" /\ j.updated = changed
  /\ label \in {"changes", "again"} /\ j.op = "update_customer" =>
       (changed <=> Own(j) # {}) /\ \A r \in Own(j) : AsSent(r, j)

\* An addition on its way to its answer: the new customer is the last of the
\* vector, which nobody moves, and stored once the loop is past it.
Added(label, j) ==
  /\ label \in {"check", "push", "save", "insert"} => j.op = "add_customer"
  /\ label \in {"save", "insert"} => Len(vec) > 0 /\ vec[Len(vec)] = CustomerOf(j)
  /\ label = "insert" =>
       /\ j.last = Len(vec) /\ ~j.moved
       /\ j.cursor > j.last => \E r \in customers : r.owner = j.user /\ AsSent(r, j)

Elsewhere(label, j) ==
  /\ label = "delete" => j.op = "delete_customer"
  /\ label = "read" => j.op \in {"list", "get_customers"}

AloneInv ==
  \A w \in Workers : pc[w] # "idle" =>
    Updated(pc[w], job[w]) /\ Added(pc[w], job[w]) /\ Elsewhere(pc[w], job[w])

\* No other worker is in push_back.
LEMMA AloneOverlapsNobody ==
  ASSUME NEW w, Workers = {w}
  PROVE  ~Overlapped(w)
BY DEF Overlapped

\* Where one worker is after a step that keeps it in its handler, or ends it.
LEMMA AloneGoesOn ==
  ASSUME TypeOK, NEW w, Workers = {w}, NEW label, NEW j, Continue(w, label, j),
         Updated(label, j)', Added(label, j)', Elsewhere(label, j)
  PROVE  AloneInv'
<1>1. pc'[w] = label /\ job'[w] = j /\ \A v \in Workers : v = w
  BY DEF Continue, TypeOK, ControlOK
<1> QED
  BY <1>1 DEF AloneInv, Updated, Added, Elsewhere

LEMMA AloneEnds ==
  ASSUME TypeOK, NEW w, Workers = {w}, pc' = [pc EXCEPT ![w] = "idle"]
  PROVE  AloneInv'
BY DEF TypeOK, ControlOK, AloneInv

\* A request that is accepted has not done anything yet.
LEMMA AloneArrives ==
  ASSUME TypeOK, NEW w, Workers = {w}, Arrival(w)
  PROVE  AloneInv'
<1>1. CASE AcceptAdd(w)
  <2>1. PICK u \in Users, c \in Contacts, d \in Details :
          Accept(w, "check", [Request("add_customer", u) EXCEPT !.contact = c, !.details = d])
    BY <1>1 DEF AcceptAdd
  <2>2. PICK j : j = [Request("add_customer", u) EXCEPT !.contact = c, !.details = d]
    OBVIOUS
  <2>3. j.op = "add_customer"
    BY <2>2 DEF Request
  <2>4. Continue(w, "check", j)
    BY <2>1, <2>2 DEF Accept
  <2>5. Updated("check", j)' /\ Added("check", j)' /\ Elsewhere("check", j)
    BY <2>3 DEF Updated, Added, Elsewhere
  <2> QED
    BY <2>4, <2>5, AloneGoesOn
<1>2. CASE AcceptUpdate(w)
  <2>1. PICK u \in Users, c \in Contacts, d \in Details, id \in 1 .. MaxRows, own \in BOOLEAN :
          Accept(w, "update", [Request("update_customer", u) EXCEPT !.contact = c, !.details = d,
                                                                    !.id = id, !.claimed = own])
    BY <1>2 DEF AcceptUpdate
  <2>2. PICK j : j = [Request("update_customer", u) EXCEPT !.contact = c, !.details = d,
                                                           !.id = id, !.claimed = own]
    OBVIOUS
  <2>3. j.op = "update_customer"
    BY <2>2 DEF Request
  <2>4. Continue(w, "update", j)
    BY <2>1, <2>2 DEF Accept
  <2>5. Updated("update", j)' /\ Added("update", j)' /\ Elsewhere("update", j)
    BY <2>3 DEF Updated, Added, Elsewhere
  <2> QED
    BY <2>4, <2>5, AloneGoesOn
<1>3. CASE AcceptDelete(w)
  <2>1. PICK u \in Users, id \in 1 .. MaxRows :
          Accept(w, "delete", [Request("delete_customer", u) EXCEPT !.id = id])
    BY <1>3 DEF AcceptDelete
  <2>2. PICK j : j = [Request("delete_customer", u) EXCEPT !.id = id]
    OBVIOUS
  <2>3. j.op = "delete_customer"
    BY <2>2 DEF Request
  <2>4. Continue(w, "delete", j)
    BY <2>1, <2>2 DEF Accept
  <2>5. Updated("delete", j)' /\ Added("delete", j)' /\ Elsewhere("delete", j)
    BY <2>3 DEF Updated, Added, Elsewhere
  <2> QED
    BY <2>4, <2>5, AloneGoesOn
<1>4. CASE AcceptList(w) \/ AcceptGet(w)
  <2>1. PICK j : Accept(w, "read", j) /\ j.op \in {"list", "get_customers"}
    <3>1. \A u, q : /\ Request("list", u).op = "list"
                    /\ [Request("get_customers", u) EXCEPT !.query = q].op = "get_customers"
      BY DEF Request
    <3> QED
      BY <1>4, <3>1 DEF AcceptList, AcceptGet
  <2>4. Continue(w, "read", j)
    BY <2>1 DEF Accept
  <2>5. Updated("read", j)' /\ Added("read", j)' /\ Elsewhere("read", j)
    BY <2>1 DEF Updated, Added, Elsewhere
  <2> QED
    BY <2>4, <2>5, AloneGoesOn
<1> QED
  BY <1>1, <1>2, <1>3, <1>4 DEF Arrival

\* The UPDATE leaves the customer with what was sent.
LEMMA AloneUpdates ==
  ASSUME TypeOK, AloneInv, NEW w, Workers = {w}, UpdateCustomer(w)
  PROVE  AloneInv'
<1>1. w \in Workers /\ pc[w] = "update" /\ job[w] \in Job
  BY DEF UpdateCustomer, TypeOK, ControlOK, WellFormed
<1>2. PICK j : j = job[w]
  OBVIOUS
<1>3. j.op = "update_customer" /\ j \in Job
  BY <1>1, <1>2 DEF AloneInv, Updated
<1>4. /\ customers' = (customers \ Own(j)) \cup
             {[r EXCEPT !.contact = j.contact, !.details = j.details] : r \in Own(j)}
      /\ changed' = (Own(j) # {})
      /\ Continue(w, "changes", j)
  BY <1>2 DEF UpdateCustomer, Own
<1>5. ASSUME NEW r \in Own(j), NEW s, s = [r EXCEPT !.contact = j.contact, !.details = j.details]
      PROVE  Updates(s, j) /\ AsSent(s, j)
  <2>1. r \in Row /\ Updates(r, j)
    BY DEF Own, TypeOK, DataOK
  <2>2. s.id = r.id /\ s.owner = r.owner /\ s.contact = j.contact /\ s.details = j.details
    BY <1>5, <2>1 DEF Row
  <2> QED
    BY <2>1, <2>2 DEF Updates, AsSent
<1>6. \A s \in Own(j)' : AsSent(s, j)
  <2> SUFFICES ASSUME NEW s \in Own(j)' PROVE AsSent(s, j)
    OBVIOUS
  <2>1. s \in customers' /\ Updates(s, j)
    BY DEF Own
  <2>2. s \notin customers \ Own(j)
    BY <2>1 DEF Own
  <2>3. \E r \in Own(j) : s = [r EXCEPT !.contact = j.contact, !.details = j.details]
    BY <1>4, <2>1, <2>2
  <2> QED
    BY <1>5, <2>3
<1>7. Own(j)' # {} <=> Own(j) # {}
  <2>1. ASSUME Own(j) # {} PROVE Own(j)' # {}
    <3>1. PICK r \in Own(j) : TRUE
      BY <2>1
    <3>2. PICK s : s = [r EXCEPT !.contact = j.contact, !.details = j.details]
      OBVIOUS
    <3>3. s \in customers' /\ Updates(s, j)
      BY <1>4, <1>5, <3>2
    <3> QED
      BY <3>3 DEF Own
  <2>2. ASSUME Own(j) = {} PROVE Own(j)' = {}
    BY <1>4, <2>2 DEF Own
  <2> QED
    BY <2>1, <2>2
<1>8. Updated("changes", j)' /\ Added("changes", j)' /\ Elsewhere("changes", j)
  <2>1. (\A r \in Own(j) : AsSent(r, j))'
    BY <1>6
  <2>2. (changed <=> Own(j) # {})'
    BY <1>4, <1>7
  <2> QED
    BY <1>3, <2>1, <2>2 DEF Updated, Added, Elsewhere
<1> QED
  BY <1>4, <1>8, AloneGoesOn

\* The INSERT of the last element stores the new customer.
LEMMA AloneInserts ==
  ASSUME TypeOK, AloneInv, ~DiskFaults, NEW w, Workers = {w}, InsertCustomer(w)
  PROVE  AloneInv'
<1>1. PICK j : j = job[w]
  OBVIOUS
<1>2. /\ w \in Workers /\ pc[w] = "insert" /\ j \in Job
      /\ j.cursor <= j.last /\ j.cursor >= 1 /\ j.last <= Len(vec)
  BY <1>1 DEF InsertCustomer, TypeOK, ControlOK, WellFormed
<1>3. Added("insert", j)
  BY <1>1, <1>2 DEF AloneInv
<1>4. PICK k : k = [j EXCEPT !.cursor = @ + 1]
  OBVIOUS
<1>5. /\ k.op = j.op /\ k.user = j.user /\ k.contact = j.contact /\ k.details = j.details
      /\ k.last = j.last /\ k.cursor = j.cursor + 1 /\ k.moved = j.moved
  BY <1>2, <1>4 DEF Job
<1>6. PICK c : c = vec[j.cursor]
  OBVIOUS
<1>7. PICK row : row = [id |-> lastCustomer + 1, owner |-> c.owner, contact |-> c.contact,
                        details |-> c.details]
  OBVIOUS
<1>8. customers' = customers \cup {row} /\ Continue(w, "insert", k) /\ vec' = vec
  <2>1. ReadAt(j) = {c} /\ ~InsertFails
    BY <1>3, <1>6 DEF Added, ReadAt, InsertFails
  <2> QED
    BY <1>1, <1>4, <1>7, <2>1 DEF InsertCustomer, Store
<1>9. ASSUME k.cursor > k.last
      PROVE  row.owner = k.user /\ AsSent(row, k)
  <2>1. j.cursor = Len(vec)
    <3>1. j.cursor \in Int /\ j.last \in Int /\ Len(vec) \in Int
      BY <1>2 DEF Job, TypeOK, DataOK
    <3> QED
      BY <1>2, <1>3, <1>5, <1>9, <3>1 DEF Added
  <2>2. c = CustomerOf(j)
    BY <1>3, <1>6, <2>1 DEF Added
  <2> QED
    BY <1>5, <1>7, <2>2 DEF CustomerOf, AsSent
<1>10. Updated("insert", k)' /\ Added("insert", k)' /\ Elsewhere("insert", k)
  <2>1. k.op = "add_customer" /\ Len(vec) > 0 /\ vec[Len(vec)] = CustomerOf(k) /\ k.last = Len(vec)
        /\ ~k.moved
    BY <1>3, <1>5 DEF Added, CustomerOf
  <2>2. k.cursor > k.last => \E r \in customers' : r.owner = k.user /\ AsSent(r, k)
    BY <1>8, <1>9
  <2>3. Added("insert", k)'
    BY <1>8, <2>1, <2>2 DEF Added, CustomerOf, AsSent
  <2> QED
    BY <2>3 DEF Updated, Elsewhere
<1> QED
  BY <1>8, <1>10, AloneGoesOn

\* Every other step of the one thread.
LEMMA AloneStep ==
  ASSUME TypeOK, AloneInv, ~DiskFaults, NEW w, Workers = {w}, Step(w)
  PROVE  AloneInv'
<1>1. w \in Workers /\ pc[w] # "idle"
  BY DEF Step, CheckCustomer, PushCustomer, BeginSave, InsertCustomer, EndSave, UpdateCustomer,
     StatementFails, CheckChanges, CheckChangesAgain, DeleteCustomer, ReadCustomers
<1>2. PICK j : j = job[w]
  OBVIOUS
<1>3. j \in Job /\ Updated(pc[w], j) /\ Added(pc[w], j) /\ Elsewhere(pc[w], j)
  BY <1>1, <1>2 DEF AloneInv, TypeOK, ControlOK, WellFormed
<1>4. ASSUME NEW status, NEW shown, Respond(w, status, shown) PROVE AloneInv'
  BY <1>4, AloneEnds DEF Respond
<1> ~Overlapped(w)
  BY AloneOverlapsNobody
<1>5. CASE CheckCustomer(w)
  <2>1. CASE Exists(job[w])
    BY <1>4, <1>5, <2>1 DEF CheckCustomer, Reply
  <2>2. CASE ~Exists(job[w])
    <3>1. pc[w] = "check" /\ Continue(w, "push", j)
      BY <1>2, <1>5, <2>2 DEF CheckCustomer
    <3>2. Updated("push", j)' /\ Added("push", j)' /\ Elsewhere("push", j)
      BY <1>3, <3>1 DEF Updated, Added, Elsewhere
    <3> QED
      BY <3>1, <3>2, AloneGoesOn
  <2> QED
    BY <2>1, <2>2
<1>6. CASE PushCustomer(w)
  <2>1. /\ pc[w] = "push" /\ Continue(w, "save", j)
        /\ vec' = Append(vec, CustomerOf(j)) /\ vec \in Seq(CustomerData)
        /\ CustomerOf(j) \in CustomerData
    <3>1. \A v \in Workers : v = w
      OBVIOUS
    <3>2. job' = job
      BY <1>6, <3>1 DEF PushCustomer, TypeOK, ControlOK
    <3>3. job' = [job EXCEPT ![w] = j]
      BY <1>2, <3>2 DEF TypeOK, ControlOK
    <3> QED
      BY <1>2, <1>6, <3>3 DEF PushCustomer, Continue, TypeOK, DataOK, ControlOK, WellFormed
  <2>2. Len(vec') > 0 /\ vec'[Len(vec')] = CustomerOf(j)
    BY <2>1
  <2>3. Updated("save", j)' /\ Added("save", j)' /\ Elsewhere("save", j)
    BY <1>3, <2>1, <2>2 DEF Updated, Added, Elsewhere, CustomerOf
  <2> QED
    BY <2>1, <2>3, AloneGoesOn
<1>7. CASE BeginSave(w)
  <2>1. PICK k : k = [j EXCEPT !.cursor = 1, !.last = Len(vec), !.moved = FALSE]
    OBVIOUS
  <2>2. pc[w] = "save" /\ Continue(w, "insert", k) /\ vec' = vec
    <3>1. Overlapped(w) = FALSE
      BY DEF Overlapped
    <3> QED
      BY <1>2, <1>7, <2>1, <3>1 DEF BeginSave
  <2>3. /\ k.op = j.op /\ k.user = j.user /\ k.contact = j.contact /\ k.details = j.details
        /\ k.cursor = 1 /\ ~k.moved /\ k.last = Len(vec)
    BY <1>3, <2>1 DEF Job
  <2>4. Len(vec) \in Nat
    BY DEF TypeOK, DataOK
  <2>5. Added("insert", k)'
    BY <1>3, <2>2, <2>3, <2>4 DEF Added, CustomerOf
  <2>6. Updated("insert", k)' /\ Elsewhere("insert", k)
    BY DEF Updated, Elsewhere
  <2> QED
    BY <2>2, <2>5, <2>6, AloneGoesOn
<1>8. CASE InsertCustomer(w)
  BY <1>8, AloneInserts
<1>9. CASE UpdateCustomer(w)
  BY <1>9, AloneUpdates
<1>10. CASE CheckChanges(w)
  <2>1. CASE job[w].op = "update_customer"
    <3>1. PICK k : k = [j EXCEPT !.updated = changed]
      OBVIOUS
    <3>2. /\ pc[w] = "changes" /\ Continue(w, "again", k)
          /\ customers' = customers /\ changed' = changed
      BY <1>2, <1>10, <2>1, <3>1 DEF CheckChanges
    <3>3. /\ k.op = j.op /\ k.id = j.id /\ k.user = j.user /\ k.contact = j.contact
          /\ k.details = j.details /\ k.updated = changed
      BY <1>3, <3>1 DEF Job
    <3>4. Own(k)' = Own(j) /\ \A r : AsSent(r, k) <=> AsSent(r, j)
      BY <3>2, <3>3 DEF Own, Updates, AsSent
    <3>5. Updated("again", k)'
      BY <1>2, <1>3, <2>1, <3>2, <3>3, <3>4 DEF Updated
    <3>6. Added("again", k)' /\ Elsewhere("again", k)
      BY DEF Added, Elsewhere
    <3> QED
      BY <3>2, <3>5, <3>6, AloneGoesOn
  <2>2. CASE job[w].op # "update_customer"
    BY <1>4, <1>10, <2>2 DEF CheckChanges, Reply
  <2> QED
    BY <2>1, <2>2
<1>11. CASE DeleteCustomer(w)
  <2>1. pc[w] = "delete" /\ Continue(w, "changes", j)
    BY <1>2, <1>11 DEF DeleteCustomer
  <2>2. j.op = "delete_customer"
    BY <1>3, <2>1 DEF Elsewhere
  <2>3. Updated("changes", j)' /\ Added("changes", j)' /\ Elsewhere("changes", j)
    BY <2>2 DEF Updated, Added, Elsewhere
  <2> QED
    BY <2>1, <2>3, AloneGoesOn
<1>12. CASE EndSave(w) \/ CheckChangesAgain(w) \/ ReadCustomers(w)
  BY <1>4, <1>12 DEF EndSave, CheckChangesAgain, ReadCustomers, Reply
<1>13. ~StatementFails(w)
  BY DEF StatementFails
<1> QED
  BY <1>5, <1>6, <1>7, <1>8, <1>9, <1>10, <1>11, <1>12, <1>13 DEF Step

\* No other handler's statement comes before the thread's two reads of
\* sqlite3_changes: there is no other thread to run it.
LEMMA AloneInvariant ==
  ASSUME NEW w, Workers = {w}, ~DiskFaults
  PROVE  Spec => []AloneInv
<1>1. Init => AloneInv
  BY DEF Init, AloneInv
<1>2. TypeOK /\ AloneInv /\ [Next]_vars => AloneInv'
  <2> SUFFICES ASSUME TypeOK, AloneInv, [Next]_vars PROVE AloneInv'
    OBVIOUS
  <2>1. CASE \E v \in Workers : Step(v) \/ Arrival(v)
    BY <2>1, AloneStep, AloneArrives
  <2>2. CASE OtherStatement
    BY <2>2 DEF OtherStatement
  <2>3. CASE Crash
    BY <2>3 DEF Crash, AloneInv
  <2>4. CASE UNCHANGED vars
    BY <2>4 DEF vars, AloneInv, Updated, Added, Elsewhere, Own, AsSent
  <2> QED
    BY <2>1, <2>2, <2>3, <2>4 DEF Next
<1> QED
  BY <1>1, <1>2, TypeCorrect, PTL DEF Spec

\* With one thread and no failing statement, an answer to a manager or an
\* employee says what the table holds: an update is confirmed of a customer who
\* has what was sent and refused when there is none, and a customer whose
\* addition is confirmed is stored under the name of the user who added it, in
\* the list of a manager who did.
THEOREM OneThreadTellsTheTable ==
  ASSUME NEW one, Workers = {one}, ~DiskFaults
  PROVE  Spec => [][SaysWhatIsStored]_vars
<1>1. Spec => []AloneInv
  BY AloneInvariant
<1>2. TypeOK /\ AloneInv /\ Next => SaysWhatIsStored
  <2> SUFFICES ASSUME TypeOK, AloneInv, Next, NEW w \in Workers, NEW op, NEW status,
                      Answers(w, op, status)
               PROVE  /\ op = "update_customer" /\ status = 200 =>
                           \E r \in Own(job[w]) : AsSent(r, job[w])
                      /\ op = "update_customer" /\ status \in {403, 404} => Own(job[w]) = {}
                      /\ op = "add_customer" /\ status = 200 =>
                           \E r \in customers :
                             /\ r.owner = job[w].user /\ AsSent(r, job[w])
                             /\ job[w].user \in Managers => r \in Seen(job[w].user)
    BY DEF SaysWhatIsStored, Own, AsSent
  <2>1. PICK j : j = job[w]
    OBVIOUS
  <2>2. /\ pc[w] # "idle" /\ pc'[w] = "idle" /\ j.op = op /\ j \in Job
        /\ answer' # Null /\ answer'.status = status /\ \A v \in Workers : v = w
    BY <2>1 DEF Answers, TypeOK, ControlOK, WellFormed
  <2>3. Updated(pc[w], j) /\ Added(pc[w], j) /\ Elsewhere(pc[w], j)
    BY <2>1, <2>2 DEF AloneInv
  <2>4. Step(w)
    <3>1. ~OtherStatement /\ ~Crash
      BY <2>2 DEF OtherStatement, Crash
    <3>2. ~Arrival(w)
      BY <2>2 DEF Arrival, AcceptAdd, AcceptUpdate, AcceptDelete, AcceptList, AcceptGet, Accept
    <3> QED
      BY <2>2, <3>1, <3>2 DEF Next
  <2>5. CASE op = "add_customer"
    <3>1. CheckCustomer(w) \/ EndSave(w)
      BY <2>2, <2>3, <2>4, <2>5 DEF Step, PushCustomer, BeginSave, InsertCustomer, UpdateCustomer,
         StatementFails, CheckChanges, CheckChangesAgain, DeleteCustomer, ReadCustomers, Continue,
         Updated, Added, Elsewhere
    <3>2. CASE CheckCustomer(w)
      BY <2>2, <2>5, <3>2 DEF CheckCustomer, Reply, Respond, Continue
    <3>3. CASE EndSave(w)
      <4>1. pc[w] = "insert" /\ j.cursor > j.last
        BY <2>1, <3>3 DEF EndSave
      <4>2. PICK r \in customers : r.owner = j.user /\ AsSent(r, j)
        BY <2>3, <4>1 DEF Added
      <4>3. j.user \in Managers => r \in Seen(j.user)
        <5>1. j.user # Null
          BY <2>2, NamesAssumption DEF Job
        <5> QED
          BY <4>2, <5>1 DEF Seen, Scope
      <4> QED
        BY <2>1, <2>5, <4>2, <4>3
    <3> QED
      BY <3>1, <3>2, <3>3
  <2>6. CASE op = "update_customer"
    <3>1. CheckChangesAgain(w)
      BY <2>1, <2>2, <2>3, <2>4, <2>6 DEF Step, CheckCustomer, PushCustomer, BeginSave,
         InsertCustomer, EndSave, UpdateCustomer, StatementFails, CheckChanges, DeleteCustomer,
         ReadCustomers, Continue, Updated, Added, Elsewhere
    <3>2. /\ pc[w] = "again"
          /\ answer'.status = IF changed /\ j.updated THEN 200 ELSE Refusal(j)
      BY <2>1, <3>1 DEF CheckChangesAgain, Reply, Respond
    <3>3. (changed <=> Own(j) # {}) /\ (\A r \in Own(j) : AsSent(r, j)) /\ j.updated = changed
      BY <2>2, <2>3, <2>6, <3>2 DEF Updated
    <3>4. Refusal(j) \in {403, 404}
      BY DEF Refusal
    <3>5. status = 200 => changed
      <4>1. CASE changed /\ j.updated
        BY <4>1
      <4>2. CASE ~(changed /\ j.updated)
        <5>1. answer'.status = Refusal(j)
          BY <3>2, <4>2
        <5>2. answer'.status = status
          BY <2>2
        <5> QED
          BY <3>4, <5>1, <5>2
      <4> QED
        BY <4>1, <4>2
    <3>6. status \in {403, 404} => ~changed
      BY <2>2, <3>2, <3>3
    <3> QED
      BY <2>1, <2>6, <3>3, <3>5, <3>6
  <2> QED
    BY <2>5, <2>6
<1> QED
  BY <1>1, <1>2, TypeCorrect, PTL DEF Spec
=============================================================================
