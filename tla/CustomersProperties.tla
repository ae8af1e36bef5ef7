------------------------- MODULE CustomersProperties -------------------------
(***************************************************************************)
(* What is asked of the customer handlers. Not every property holds of     *)
(* every configuration: each is named by the runs that check it.           *)
(***************************************************************************)
EXTENDS Customers

\* The request and locals of a worker at a label: what its next step uses,
\* when the vector has that length. A loop whose iterators hold walks what the
\* vector has now, no more and no less.
WellFormed(label, j, length) ==
  /\ j \in Job
  /\ label \in {"check", "push"} => CustomerOf(j) \in CustomerData
  /\ label = "update" => j.contact \in Contacts /\ j.details \in Details
  /\ label = "insert" => /\ j.cursor >= 1 /\ j.last <= length
                         /\ ~j.moved => j.last = length

DataOK ==
  /\ customers \subseteq Row /\ lastCustomer \in Nat
  /\ vec \in Seq(CustomerData)
  /\ changed \in BOOLEAN

ControlOK ==
  /\ pc \in [Workers -> Labels]
  /\ job \in [Workers -> Job \cup {Null}]
  /\ \A w \in Workers : pc[w] # "idle" => WellFormed(pc[w], job[w], Len(vec))

\* Every variable has its type. Nothing is said of what saveCustomers reads
\* after another worker's push_back moved the vector: that is undefined.
TypeOK == DataOK /\ ControlOK

\* A stored customer changes or goes only by a request of its owner, though
\* /add_customer writes the customers of every owner in the vector, and whatever
\* it reads there after the vector was moved: it adds rows and touches none.
RowsChangeByTheirOwner ==
  [][\A r \in customers \ customers' :
       \E w \in Workers : /\ pc[w] \in {"update", "delete"}
                          /\ pc'[w] = "changes"
                          /\ Lower[job[w].user] = Lower[r.owner]]_vars

\* A handler that was entered is left: every request is answered, or the
\* server restarts. The loop of saveCustomers ends though others append.
RequestsAreAnswered == \A w \in Workers : (pc[w] # "idle") ~> (pc[w] = "idle")

\* Worker w answers in a step when it leaves its handler in it.
Answers(w, op, status) ==
  /\ pc[w] # "idle" /\ pc'[w] = "idle"
  /\ job[w].op = op
  /\ answer' # Null /\ answer'.status = status

\* What a step of a worker alone may answer, to a manager or an employee.
\* "Customer updated successfully" is answered of a customer that now has what
\* was sent, and is the user's own; "Customer not found" and "Forbidden" when she
\* has no such customer. "Customer added": it is stored, under the name of the
\* user who added it, and a manager finds it in her list. An employee does not:
\* the list she is shown is her manager's.
SaysWhatIsStored ==
  \A w \in Workers :
    LET own == {r \in customers : Updates(r, job[w])}
        asSent(r) == r.contact = job[w].contact /\ r.details = job[w].details
    IN /\ Answers(w, "update_customer", 200) => \E r \in own : asSent(r)
       /\ \A status \in {403, 404} : Answers(w, "update_customer", status) => own = {}
       /\ Answers(w, "add_customer", 200) =>
            \E r \in customers :
              /\ r.owner = job[w].user /\ asSent(r)
              /\ job[w].user \in Managers => r \in Seen(job[w].user)
=============================================================================
