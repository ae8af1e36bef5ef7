------------------------------ MODULE Customers ------------------------------
(***************************************************************************)
(* The customer handlers. The worker threads share the table customers,    *)
(* sqlite3_changes() of its connection, and main's vector `Customers`,     *)
(* which /add_customer alone uses: it is searched for duplicates, gets the *)
(* new customer, and is then inserted into the table, all of it. No code   *)
(* fills it from the table and no code removes from it. Lists read the     *)
(* table into a vector of their own.                                       *)
(*                                                                         *)
(* A customer's name and email, which the search compares, are one value,  *)
(* the contact; type, phone, address and post code are another.            *)
(***************************************************************************)
EXTENDS Integers, Sequences, FiniteSets

CONSTANTS
  Workers,       \* the server's threads
  Names,         \* usernames
  Users,         \* those with a session
  Managers,      \* those whose session has the role "Manager"
  Lower,         \* [Names -> Names], SQL's LOWER
  OwnerOf,       \* [Users -> Names \cup {Null}], users.owner by username
  Contacts,      \* name and email of a customer
  Details,       \* the other columns
  Null,          \* the NULL of SQL, and an unused variable
  Offered,       \* the requests clients make
  MaxSlots,      \* elements the vector may grow to
  MaxRows,       \* no add begins once so many rows were inserted
  DiskFaults,    \* whether a statement may fail
  Crashes        \* whether the machine may stop

Requests == {"add_customer", "update_customer", "delete_customer", "list", "get_customers"}

ASSUME NamesAssumption ==
  /\ Users \subseteq Names
  /\ Managers \subseteq Users
  /\ Lower \in [Names -> Names]
  /\ OwnerOf \in [Users -> Names \cup {Null}]
  /\ Null \notin Names \cup Contacts \cup Details

ASSUME BoundsAssumption ==
  /\ Offered \subseteq Requests
  /\ MaxSlots \in Nat /\ MaxRows \in Nat
  /\ DiskFaults \in BOOLEAN
  /\ Crashes \in BOOLEAN

VARIABLES
  customers,     \* the rows of table customers
  lastCustomer,  \* its AUTOINCREMENT counter
  vec,           \* main's vector<CustomerData> Customers
  changed,       \* sqlite3_changes(db_prodexa) > 0
  pc,            \* where each worker is in its handler
  job,           \* its request and local variables
  answer         \* the response sent in the last step, if one was

vars == <<customers, lastCustomer, vec, changed, pc, job, answer>>

CustomerData == [owner: Users, contact: Contacts, details: Details]

Row == [id: Nat, owner: Users, contact: Contacts, details: Details]

\* `claimed` is whether the body's "owner" is the session's username; `moved`,
\* whether the vector may have been moved since the loop took its iterators.
Job == [op: Requests, user: Users, contact: Contacts \cup {Null},
        details: Details \cup {Null}, id: Nat, claimed: BOOLEAN,
        query: SUBSET Contacts, cursor: Nat, last: Nat, moved: BOOLEAN, updated: BOOLEAN]

Request(o, u) == [op |-> o, user |-> u, contact |-> Null, details |-> Null,
                  id |-> 0, claimed |-> TRUE, query |-> {}, cursor |-> 0,
                  last |-> 0, moved |-> FALSE, updated |-> FALSE]

Labels == {"idle", "check", "push", "save", "insert", "update", "changes",
           "again", "delete", "read"}

Init ==
  /\ customers = {} /\ lastCustomer = 0
  /\ vec = <<>>
  /\ changed = FALSE
  /\ pc = [w \in Workers |-> "idle"]
  /\ job = [w \in Workers |-> Null]
  /\ answer = Null

-----------------------------------------------------------------------------
(* Control of one worker. *)

Continue(w, label, j) ==
  /\ pc' = [pc EXCEPT ![w] = label]
  /\ job' = [job EXCEPT ![w] = j]
  /\ answer' = Null

Respond(w, status, shown) ==
  /\ pc' = [pc EXCEPT ![w] = "idle"]
  /\ job' = [job EXCEPT ![w] = Null]
  /\ answer' = [status |-> status, shown |-> shown]

Reply(w, status) == Respond(w, status, {})

Accept(w, label, j) ==
  /\ pc[w] = "idle"
  /\ j.op \in Offered
  /\ Continue(w, label, j)
  /\ UNCHANGED <<customers, lastCustomer, vec, changed>>

-----------------------------------------------------------------------------
(* /add_customer *)

Adding == {w \in Workers : pc[w] # "idle" /\ job[w].op = "add_customer"}

AcceptAdd(w) ==
  /\ Len(vec) + Cardinality(Adding) < MaxSlots
  /\ lastCustomer < MaxRows
  /\ \E u \in Users, c \in Contacts, d \in Details :
       Accept(w, "check", [Request("add_customer", u) EXCEPT !.contact = c, !.details = d])

Exists(j) == \E i \in DOMAIN vec : vec[i].contact = j.contact /\ vec[i].owner = j.user

\* Another worker is in push_back: a step of w on the vector overlaps it.
Overlapped(w) == \E v \in Workers \ {w} : pc[v] = "push"

\* A search that overlaps a push_back may read memory that was freed.
CheckCustomer(w) ==
  /\ pc[w] = "check"
  /\ \/ (Exists(job[w]) \/ Overlapped(w)) /\ Reply(w, 409)
     \/ (~Exists(job[w]) \/ Overlapped(w)) /\ Continue(w, "push", job[w])
  /\ UNCHANGED <<customers, lastCustomer, vec, changed>>

CustomerOf(j) == [owner |-> j.user, contact |-> j.contact, details |-> j.details]

\* Fault: no account is taken of the loops that are running.
PushUnderLoops(w) ==
  /\ pc[w] = "push"
  /\ \/ vec' = Append(vec, CustomerOf(job[w]))
     \/ Overlapped(w) /\ vec' = vec
  /\ Continue(w, "save", job[w])
  /\ UNCHANGED <<customers, lastCustomer, changed>>

\* push_back. It may move the elements: the iterators of the loops that are
\* running are then of memory that was freed. Of two that overlap, one element
\* may be lost.
PushCustomer(w) ==
  /\ pc[w] = "push"
  /\ \/ vec' = Append(vec, CustomerOf(job[w]))
     \/ Overlapped(w) /\ vec' = vec
  /\ pc' = [pc EXCEPT ![w] = "save"]
  /\ job' = [v \in Workers |-> IF pc[v] = "insert" THEN [job[v] EXCEPT !.moved = TRUE]
                                                   ELSE job[v]]
  /\ answer' = Null
  /\ UNCHANGED <<customers, lastCustomer, changed>>

\* saveCustomers: the loop's range is fixed when it begins, by two iterators.
BeginSave(w) ==
  /\ pc[w] = "save"
  /\ Continue(w, "insert", [job[w] EXCEPT !.cursor = 1, !.last = Len(vec),
                                          !.moved = Overlapped(w)])
  /\ UNCHANGED <<customers, lastCustomer, vec, changed>>

\* What the loop finds at its iterator. In memory that was freed it finds what
\* is there by then: an element as it was, or another; Crash has the loop that
\* such a read ends. The count of its rounds is the distance of two pointers
\* that it keeps, and no push_back changes them.
ReadAt(j) == IF j.moved THEN CustomerData ELSE {vec[j.cursor]}

Store(c) ==
  /\ customers' = customers \cup {[id |-> lastCustomer + 1, owner |-> c.owner,
                                   contact |-> c.contact, details |-> c.details]}
  /\ lastCustomer' = lastCustomer + 1
  /\ changed' = TRUE

InsertFails ==
  /\ DiskFaults
  /\ changed' \in BOOLEAN
  /\ UNCHANGED <<customers, lastCustomer>>

\* Fault: an INSERT that fails is tried again.
InsertOrRetry(w) ==
  /\ pc[w] = "insert"
  /\ job[w].cursor <= job[w].last
  /\ \/ /\ \E c \in ReadAt(job[w]) : Store(c)
        /\ Continue(w, "insert", [job[w] EXCEPT !.cursor = @ + 1])
     \/ InsertFails /\ Continue(w, "insert", job[w])
  /\ UNCHANGED vec

\* One INSERT for each element; one that fails is logged and passed over.
InsertCustomer(w) ==
  /\ pc[w] = "insert"
  /\ job[w].cursor <= job[w].last
  /\ (\E c \in ReadAt(job[w]) : Store(c)) \/ InsertFails
  /\ Continue(w, "insert", [job[w] EXCEPT !.cursor = @ + 1])
  /\ UNCHANGED vec

EndSave(w) ==
  /\ pc[w] = "insert"
  /\ job[w].cursor > job[w].last
  /\ Reply(w, 200)
  /\ UNCHANGED <<customers, lastCustomer, vec, changed>>

-----------------------------------------------------------------------------
(* /update_customer and /delete_customer *)

AcceptUpdate(w) ==
  \E u \in Users, c \in Contacts, d \in Details, id \in 1 .. MaxRows, own \in BOOLEAN :
    Accept(w, "update",
           [Request("update_customer", u) EXCEPT !.contact = c, !.details = d,
                                                 !.id = id, !.claimed = own])

\* WHERE customer_id=? AND owner=?
Updates(r, j) == r.id = j.id /\ r.owner = j.user

\* Fault: one column is left out of the UPDATE.
UpdateContact(w) ==
  /\ pc[w] = "update"
  /\ LET j == job[w]
         hit == {r \in customers : Updates(r, j)}
     IN /\ customers' = (customers \ hit) \cup {[r EXCEPT !.contact = j.contact] : r \in hit}
        /\ changed' = (hit # {})
  /\ Continue(w, "changes", job[w])
  /\ UNCHANGED <<lastCustomer, vec>>

UpdateCustomer(w) ==
  /\ pc[w] = "update"
  /\ LET j == job[w]
         hit == {r \in customers : Updates(r, j)}
     IN /\ customers' = (customers \ hit) \cup
             {[r EXCEPT !.contact = j.contact, !.details = j.details] : r \in hit}
        /\ changed' = (hit # {})
  /\ Continue(w, "changes", job[w])
  /\ UNCHANGED <<lastCustomer, vec>>

Refusal(j) == IF j.op = "update_customer" /\ ~j.claimed THEN 403 ELSE 404

StatementFails(w) ==
  /\ DiskFaults
  /\ pc[w] \in {"update", "delete"}
  /\ changed' \in BOOLEAN
  /\ Reply(w, Refusal(job[w]))
  /\ UNCHANGED <<customers, lastCustomer, vec>>

\* updateCustomer reads sqlite3_changes twice: both must say that a row was
\* changed. deleteCustomer reads it once.
CheckChanges(w) ==
  /\ pc[w] = "changes"
  /\ IF job[w].op = "update_customer"
     THEN Continue(w, "again", [job[w] EXCEPT !.updated = changed])
     ELSE Reply(w, IF changed THEN 200 ELSE 404)
  /\ UNCHANGED <<customers, lastCustomer, vec, changed>>

CheckChangesAgain(w) ==
  /\ pc[w] = "again"
  /\ Reply(w, IF changed /\ job[w].updated THEN 200 ELSE Refusal(job[w]))
  /\ UNCHANGED <<customers, lastCustomer, vec, changed>>

AcceptDelete(w) ==
  \E u \in Users, id \in 1 .. MaxRows :
    Accept(w, "delete", [Request("delete_customer", u) EXCEPT !.id = id])

\* Fault: the DELETE has no owner in its WHERE clause.
DeletesOfAnyOwner(r, j) == r.id = j.id

\* WHERE customer_id = ? AND LOWER(owner) = LOWER(?)
Deletes(r, j) == r.id = j.id /\ Lower[r.owner] = Lower[j.user]

DeleteCustomer(w) ==
  /\ pc[w] = "delete"
  /\ LET hit == {r \in customers : Deletes(r, job[w])}
     IN customers' = customers \ hit /\ changed' = (hit # {})
  /\ Continue(w, "changes", job[w])
  /\ UNCHANGED <<lastCustomer, vec>>

-----------------------------------------------------------------------------
(* /api/customers and /get_customers: loadCustomers into a local vector.   *)

AcceptList(w) ==
  \E u \in Users : Accept(w, "read", Request("list", u))

AcceptGet(w) ==
  \E u \in Users, q \in SUBSET Contacts :
    Accept(w, "read", [Request("get_customers", u) EXCEPT !.query = q])

\* Whose customers a user sees: a manager her own, an employee the manager's.
Scope(u) == IF u \in Managers THEN u ELSE OwnerOf[u]

Seen(u) == {r \in customers : Scope(u) # Null /\ Lower[r.owner] = Lower[Scope(u)]}

\* What loadCustomers may return, by a scan in id order: all of them, or
\* those before a row whose reading fails.
Loads(u) ==
  {Seen(u)} \cup
  {{r \in Seen(u) : r.id < q.id} : q \in IF DiskFaults THEN Seen(u) ELSE {}}

\* The first of the rows.
FirstOf(rows) == {r \in rows : \A q \in rows : r.id <= q.id}

ReadCustomers(w) ==
  /\ pc[w] = "read"
  /\ \E rows \in Loads(job[w].user) :
       LET found == {r \in rows : r.contact \in job[w].query} IN
         \/ job[w].op = "list" /\ Respond(w, 200, rows)
         \/ job[w].op = "get_customers" /\ found # {} /\ Respond(w, 200, FirstOf(found))
         \/ job[w].op = "get_customers" /\ found = {} /\ Reply(w, 404)
  /\ UNCHANGED <<customers, lastCustomer, vec, changed>>

-----------------------------------------------------------------------------
\* A handler of another component runs a statement on the same connection;
\* it matters only while a worker is about to read sqlite3_changes.
OtherStatement ==
  /\ \E w \in Workers : pc[w] = "idle"
  /\ \E v \in Workers : pc[v] \in {"changes", "again"}
  /\ changed' \in BOOLEAN
  /\ answer' = Null
  /\ UNCHANGED <<customers, lastCustomer, vec, pc, job>>

\* The machine stops between any two steps and starts again. A race on the
\* vector that ends the process is among these steps.
Crash ==
  /\ Crashes
  /\ vec' = <<>>
  /\ changed' = FALSE
  /\ pc' = [w \in Workers |-> "idle"]
  /\ job' = [w \in Workers |-> Null]
  /\ answer' = Null
  /\ UNCHANGED <<customers, lastCustomer>>

Step(w) ==
  \/ CheckCustomer(w) \/ PushCustomer(w) \/ BeginSave(w) \/ InsertCustomer(w)
  \/ EndSave(w) \/ UpdateCustomer(w) \/ StatementFails(w) \/ CheckChanges(w)
  \/ CheckChangesAgain(w) \/ DeleteCustomer(w) \/ ReadCustomers(w)

Arrival(w) ==
  \/ AcceptAdd(w) \/ AcceptUpdate(w) \/ AcceptDelete(w) \/ AcceptList(w) \/ AcceptGet(w)

Next ==
  \/ \E w \in Workers : Step(w) \/ Arrival(w)
  \/ OtherStatement
  \/ Crash

Spec == Init /\ [][Next]_vars
=============================================================================
