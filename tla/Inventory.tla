------------------------------ MODULE Inventory ------------------------------
(***************************************************************************)
(* The product and sale handlers of product_manager.cpp, run by the worker *)
(* threads of app.multithreaded().                                         *)
(*                                                                         *)
(* What the threads share, without a lock of the program's own:            *)
(*   - the tables products and sales of one SQLite database;               *)
(*   - its single connection db_prodexa, and with it sqlite3_changes();    *)
(*   - main's vector `products`, cleared and refilled by loadProducts and  *)
(*     captured by reference in every handler.                             *)
(* A handler is a sequence of steps, cut where another thread can be seen: *)
(* each SQL statement and each sqlite3_step of a scan (SQLite serializes   *)
(* them), sqlite3_changes, and each use of the vector. A handler begins    *)
(* here after its session check, which belongs to another component.       *)
(*                                                                         *)
(* Brand, name, cost, price, discount and VAT rate of a product are one    *)
(* value, its details; numbers are those a handler has taken from the body *)
(* into its ints. A sale keeps who, to whom, what, how many and the month. *)
(***************************************************************************)
EXTENDS Integers, Sequences, FiniteSets

CONSTANTS
  Workers,       \* the server's threads
  Names,         \* the strings met as username, as owner or as a code's text
  Users,         \* the usernames with a session
  Managers,      \* those whose session has the role "Manager"
  Lower,         \* [Names -> Names], tolower
  OwnerOf,       \* [Names -> Names \cup {Null}], users.owner by username
  Codes,         \* product codes
  CodeText,      \* [Codes -> Names], a code as SQLite's column text
  Details,       \* a product's descriptive and price fields, as the struct has them
  Negative,      \* those with a field below zero
  OverDiscount,  \* those with a discount above 100
  Customers,     \* customer ids a sale may name
  Months,        \* the months of one year the clock is in, and reports are of
  IntMax,        \* the largest int
  Null           \* the NULL of SQL, and an unused variable

\* What clients send, and the bounds of the state space.
CONSTANTS
  Offered,       \* the requests clients make
  AddQuantities, EditQuantities, SaleQuantities, Alerts,
  Queries,       \* a search text, as the set of codes it is found in
  MaxProducts,   \* rows ever inserted into products
  MaxSales,      \* rows ever inserted into sales
  DiskFaults,    \* whether a statement may fail (disk full, I/O error)
  Crashes        \* whether the machine may stop (fly.toml: auto_stop_machines)

Ints == -(IntMax + 1) .. IntMax

Requests == {"add_product", "update_product", "delete_product", "add_sale",
             "delete_sale", "list", "get_product", "list_sales", "get_sale",
             "report"}

ASSUME NamesAssumption ==
  /\ Users \subseteq Names
  /\ Managers \subseteq Users
  /\ Null \notin Names
  /\ Lower \in [Names -> Names]
  /\ OwnerOf \in [Names -> Names \cup {Null}]
  /\ CodeText \in [Codes -> Names]

ASSUME DetailsAssumption ==
  /\ Negative \subseteq Details
  /\ OverDiscount \subseteq Details

ASSUME NumbersAssumption ==
  /\ IntMax \in Nat
  /\ AddQuantities \subseteq Ints
  /\ EditQuantities \subseteq Ints
  /\ SaleQuantities \subseteq Ints
  /\ Alerts \subseteq Ints
  /\ Customers \subseteq Int

\* No number is an unused variable, and no sale.
ASSUME NullAssumption ==
  /\ Null \notin Ints
  /\ Null \notin [owner: Names, code: Codes, units: Ints]

ASSUME MonthsAssumption == Months \subseteq 1 .. 12

ASSUME BoundsAssumption ==
  /\ Offered \subseteq Requests
  /\ Queries \subseteq SUBSET Codes
  /\ MaxProducts \in Nat
  /\ MaxSales \in Nat
  /\ DiskFaults \in BOOLEAN
  /\ Crashes \in BOOLEAN

VARIABLES
  products,      \* the rows of table products
  lastProduct,   \* its AUTOINCREMENT counter
  sales,         \* the rows of table sales
  lastSale,      \* its AUTOINCREMENT counter
  vec,           \* main's vector<Product> products
  changed,       \* sqlite3_changes(db_prodexa) > 0
  pc,            \* where each worker is in its handler
  job,           \* its request and local variables
  answer         \* the response sent in the last step, if one was

database == <<products, lastProduct, sales, lastSale>>
vars == <<products, lastProduct, sales, lastSale, vec, changed, pc, job, answer>>

-----------------------------------------------------------------------------
(* Records. *)

ProductRow == [id: Nat, owner: Names, code: Codes, details: Details,
               quantity: Ints, alert: Ints]

\* struct Product. `from` is not in the code: the owner column of the row the
\* slot was read from, kept to say whose data a response shows.
Product == [owner: Names, code: Codes, details: Details, quantity: Ints,
            alert: Ints, from: Names]

Sale == [id: Nat, owner: Names, customer: Customers, code: Codes,
         quantity: Ints, month: Months]

Job == [op: Requests, user: Users, code: Codes \cup {Null},
        item: Product \cup {Null}, units: Ints, customer: Customers \cup {0},
        month: Months \cup {0}, query: SUBSET Codes, sale: Nat, cursor: Nat, at: Nat,
        left: Ints]

\* The request each kind of handler starts from; the other fields are unused.
Request(o, u, c) ==
  [op |-> o, user |-> u, code |-> c, item |-> Null, units |-> 0,
   customer |-> 0, month |-> 0, query |-> {}, sale |-> 0, cursor |-> 0, at |-> 0,
   left |-> 0]

\* `shown` has products; `sold` the sales that are listed, or that a report
\* counts and sums.
Answer == [status: {200, 400, 403, 404, 409, 500}, shown: Seq(Product), sold: SUBSET Sale]

\* Where updateProduct binds the fields of the product it is given.
Binding == {"bind details", "bind quantity", "bind alert", "bind code"}

Labels == {"idle", "clear", "load", "find", "update", "changes", "record", "warn",
           "check", "push", "insert", "delete", "void", "read", "look"} \cup Binding

Init ==
  /\ products = {} /\ lastProduct = 0
  /\ sales = {} /\ lastSale = 0
  /\ vec = <<>>
  /\ changed = FALSE
  /\ pc = [w \in Workers |-> "idle"]
  /\ job = [w \in Workers |-> Null]
  /\ answer = Null

-----------------------------------------------------------------------------
(* Control of one worker. *)

Continue(w, label, j) ==
  /\ pc' = [pc EXCEPT ![w] = label]
  /\ job' = [job EXCEPT ![w] = j]
  /\ answer' = Null

Respond(w, status, shown) ==
  /\ pc' = [pc EXCEPT ![w] = "idle"]
  /\ job' = [job EXCEPT ![w] = Null]
  /\ answer' = [status |-> status, shown |-> shown, sold |-> {}]

Reply(w, status) == Respond(w, status, <<>>)

ShowSales(w, rows) ==
  /\ pc' = [pc EXCEPT ![w] = "idle"]
  /\ job' = [job EXCEPT ![w] = Null]
  /\ answer' = [status |-> 200, shown |-> <<>>, sold |-> rows]

\* An idle worker takes request j from a client.
Accept(w, label, j) ==
  /\ pc[w] = "idle"
  /\ j.op \in Offered
  /\ Continue(w, label, j)
  /\ UNCHANGED <<database, vec, changed>>

Working(op) == {w \in Workers : pc[w] # "idle" /\ job[w].op = op}

-----------------------------------------------------------------------------
(* loadProducts: the vector is emptied, then filled row by row by a scan   *)
(* in id order that other workers' statements may interleave.              *)

\* Some handlers lowercase the session's username.
Lowercasing == {"add_sale", "list_sales", "report"}

ActingAs(j) == IF j.op \in Lowercasing THEN Lower[j.user] ELSE j.user

\* The owner whose rows the SELECT asks for.
Scope(j) == IF j.user \in Managers THEN ActingAs(j) ELSE OwnerOf[ActingAs(j)]

\* The rows the scan has still to return.
Ahead(j) == {r \in products : r.owner = Scope(j) /\ r.id > j.cursor}

\* Column 0 of the SELECT is the code: it becomes the slot's owner.
ReadRow(r) ==
  [owner |-> CodeText[r.code], code |-> r.code, details |-> r.details,
   quantity |-> r.quantity, alert |-> r.alert, from |-> r.owner]

\* Another thread is moving the end of the vector.
Contended(w) == \E v \in Workers \ {w} : pc[v] \in {"clear", "load", "push"}

\* push_back; of two that overlap, one element may be lost.
PushBack(w, slot) ==
  \/ vec' = Append(vec, slot)
  \/ Contended(w) /\ vec' = vec

\* Fault: the vector is not cleared.
KeepVector(w) ==
  /\ pc[w] = "clear"
  /\ Continue(w, "load", job[w])
  /\ UNCHANGED <<database, vec, changed>>

ClearVector(w) ==
  /\ pc[w] = "clear"
  /\ vec' = <<>>
  /\ Continue(w, "load", job[w])
  /\ UNCHANGED <<database, changed>>

LoadRow(w) ==
  /\ pc[w] = "load"
  /\ \E r \in Ahead(job[w]) :
       /\ \A q \in Ahead(job[w]) : r.id <= q.id
       /\ PushBack(w, ReadRow(r))
       /\ Continue(w, "load", [job[w] EXCEPT !.cursor = r.id])
  /\ UNCHANGED <<database, changed>>

\* The loop ends at any answer of sqlite3_step but a row: an error ends it too.
EndOfRows(w) ==
  /\ pc[w] = "load"
  /\ Ahead(job[w]) = {} \/ DiskFaults
  /\ Continue(w, IF job[w].op = "add_sale" THEN "find" ELSE "read",
              [job[w] EXCEPT !.cursor = 0])
  /\ UNCHANGED <<database, vec, changed>>

-----------------------------------------------------------------------------
(* updateProduct, of /update_product and of /add_sale.                     *)

\* /update_product gives updateProduct a Product of its own; /add_sale gives it
\* a slot of the shared vector. What that reference refers to when it is read:
\* what this worker has of it, or, the vector refilled since, what another
\* worker put there.
Referred(w) ==
  {job[w].item} \cup (IF job[w].at \in DOMAIN vec THEN {vec[job[w].at]} ELSE {})

\* Each sqlite3_bind reads its field then: a row may be written from several
\* contents of the slot.
BindField(w) ==
  /\ pc[w] \in Binding
  /\ \E p \in Referred(w), item \in {job[w].item} :
       \/ /\ pc[w] = "bind details"
          /\ Continue(w, "bind quantity",
                      [job[w] EXCEPT !.item = [item EXCEPT !.details = p.details]])
       \/ /\ pc[w] = "bind quantity"
          /\ Continue(w, "bind alert",
                      [job[w] EXCEPT !.item = [item EXCEPT !.quantity = p.quantity]])
       \/ /\ pc[w] = "bind alert"
          /\ Continue(w, "bind code",
                      [job[w] EXCEPT !.item = [item EXCEPT !.alert = p.alert]])
       \/ /\ pc[w] = "bind code"
          /\ Continue(w, "update",
                      [job[w] EXCEPT !.item = [item EXCEPT !.code = p.code]])
  /\ UNCHANGED <<database, vec, changed>>

\* Fault: the UPDATE has no owner in its WHERE clause.
UpdatesOfAnyOwner(r, code, owner) == r.code = code

\* UPDATE products SET ... WHERE code=? AND owner=?: every matching row.
Updates(r, code, owner) == r.code = code /\ r.owner = owner

Updated(r, p) ==
  [r EXCEPT !.details = p.details, !.quantity = p.quantity, !.alert = p.alert]

UpdateProduct(w) ==
  /\ pc[w] = "update"
  /\ LET p == job[w].item
         hit == {r \in products : Updates(r, p.code, ActingAs(job[w]))}
     IN /\ products' = (products \ hit) \cup {Updated(r, p) : r \in hit}
        /\ changed' = (hit # {})
  /\ Continue(w, "changes", job[w])
  /\ UNCHANGED <<lastProduct, sales, lastSale, vec>>

\* What the handler answers when updateProduct or deleteSale returns false.
Failure(op) == IF op = "add_sale" THEN 500 ELSE 404

UpdateFails(w) ==
  /\ DiskFaults
  /\ pc[w] = "update"
  /\ changed' \in BOOLEAN
  /\ Reply(w, Failure(job[w].op))
  /\ UNCHANGED <<database, vec>>

\* sqlite3_changes(db) > 0, read in a call of its own after the statement.
CheckChanges(w) ==
  /\ pc[w] = "changes"
  /\ \/ ~changed /\ Reply(w, Failure(job[w].op))
     \/ changed /\ job[w].op # "add_sale" /\ Reply(w, 200)
     \/ changed /\ job[w].op = "add_sale" /\ Continue(w, "record", job[w])
  /\ UNCHANGED <<database, vec, changed>>

-----------------------------------------------------------------------------
(* /add_sale *)

AcceptSale(w) ==
  /\ Cardinality({v \in Working("add_sale") : pc[v] # "warn"}) + lastSale < MaxSales
  /\ \E u \in Users, c \in Codes, n \in SaleQuantities, k \in Customers, m \in Months :
       /\ k > 0
       /\ Accept(w, "clear", [Request("add_sale", u, c) EXCEPT
                                !.units = n, !.customer = k, !.month = m])

\* "Customer required", before anything is read.
RefuseSale(w) ==
  /\ pc[w] = "idle"
  /\ "add_sale" \in Offered
  /\ \E k \in Customers : k <= 0
  /\ answer' = [status |-> 400, shown |-> <<>>, sold |-> {}]
  /\ UNCHANGED <<database, vec, changed, pc, job>>

\* int arithmetic: the difference of two ints, in two's complement.
Wrap(n) == IF n > IntMax THEN n - 2 * (IntMax + 1)
           ELSE IF n < -(IntMax + 1) THEN n + 2 * (IntMax + 1)
           ELSE n

\* Where a loop over the vector stops: the first slot with one of the codes.
FirstHit(codes) ==
  {i \in DOMAIN vec : /\ vec[i].code \in codes
                      /\ \A k \in 1 .. i - 1 : vec[k].code \notin codes}

NewQuantity(p, units) == Wrap(p.quantity - units)

\* Faults: one unit more may be sold, and one unit less.
InsufficientBelow(quantity) == quantity < -1
InsufficientAtZero(quantity) == quantity <= 0

Insufficient(quantity) == quantity < 0

SaleFindsNothing(w) ==
  /\ pc[w] = "find"
  /\ FirstHit({job[w].code}) = {}
  /\ Reply(w, 404)
  /\ UNCHANGED <<database, vec, changed>>

SaleIsShort(w) ==
  /\ pc[w] = "find"
  /\ \E i \in FirstHit({job[w].code}) :
       Insufficient(NewQuantity(vec[i], job[w].units))
  /\ Reply(w, 400)
  /\ UNCHANGED <<database, vec, changed>>

TakeUnits(w) ==
  /\ pc[w] = "find"
  /\ \E i \in FirstHit({job[w].code}) :
       LET left == NewQuantity(vec[i], job[w].units)
           slot == [vec[i] EXCEPT !.quantity = left]
       IN /\ ~Insufficient(left)
          /\ vec' = [vec EXCEPT ![i] = slot]
          /\ Continue(w, "bind details",
                      [job[w] EXCEPT !.at = i, !.item = slot, !.left = left])
  /\ UNCHANGED <<database, changed>>

\* Fault: a sale records what is left, for the units sold.
SaleOfRest(j) == [id |-> lastSale + 1, owner |-> ActingAs(j), customer |-> j.customer,
                  code |-> j.code, quantity |-> j.left, month |-> j.month]

\* The row saveSales inserts: its code and units are the request's, its date
\* is that of the request's arrival.
SaleOf(j) == [id |-> lastSale + 1, owner |-> ActingAs(j), customer |-> j.customer,
              code |-> j.code, quantity |-> j.units, month |-> j.month]

\* Fault: "Warning, low stock" is answered before the sale is saved.
InsertUnlessLow(w) ==
  /\ pc[w] = "record"
  /\ IF job[w].left < job[w].item.alert
     THEN Reply(w, 403) /\ UNCHANGED <<sales, lastSale, changed>>
     ELSE /\ Continue(w, "warn", job[w])
          /\ sales' = sales \cup {SaleOf(job[w])}
          /\ lastSale' = lastSale + 1
          /\ changed' = TRUE
  /\ UNCHANGED <<products, lastProduct, vec>>

\* saveSales: a failed INSERT is logged and passed over.
InsertSale(w) ==
  /\ pc[w] = "record"
  /\ \/ /\ sales' = sales \cup {SaleOf(job[w])}
        /\ lastSale' = lastSale + 1
        /\ changed' = TRUE
     \/ /\ DiskFaults
        /\ changed' \in BOOLEAN
        /\ UNCHANGED <<sales, lastSale>>
  /\ Continue(w, "warn", job[w])
  /\ UNCHANGED <<products, lastProduct, vec>>

\* The alert level is read from the shared slot, after the sale is stored.
ConfirmSale(w) ==
  /\ pc[w] = "warn"
  /\ \E p \in Referred(w) : Reply(w, IF job[w].left < p.alert THEN 403 ELSE 200)
  /\ UNCHANGED <<database, vec, changed>>

-----------------------------------------------------------------------------
(* /add_product and /update_product *)

Entered(u, c, d, n, a) ==
  [owner |-> u, code |-> c, details |-> d, quantity |-> n, alert |-> a, from |-> u]

AcceptProduct(w) ==
  /\ Cardinality(Working("add_product")) + lastProduct < MaxProducts
  /\ \E u \in Users, c \in Codes, d \in Details, n \in AddQuantities, a \in Alerts :
       Accept(w, "check",
              [Request("add_product", u, c) EXCEPT !.item = Entered(u, c, d, n, a)])

\* Fault: the body is not read into the product.
AcceptUnreadUpdate(w) ==
  \E u \in Users, c \in Codes : Accept(w, "update", Request("update_product", u, c))

AcceptUpdate(w) ==
  \E u \in Users, c \in Codes, d \in Details, n \in EditQuantities, a \in Alerts :
    Accept(w, "update",
           [Request("update_product", u, c) EXCEPT !.item = Entered(u, c, d, n, a)])

\* "Product exists" looks in the vector, not in the table.
Exists(p) == \E i \in DOMAIN vec : vec[i].code = p.code /\ vec[i].owner = p.owner

HasNegative(p) == p.quantity < 0 \/ p.alert < 0 \/ p.details \in Negative

CheckProduct(w) ==
  /\ pc[w] = "check"
  /\ LET p == job[w].item IN
       \/ Exists(p) /\ Reply(w, 409)
       \/ ~Exists(p) /\ HasNegative(p) /\ Reply(w, 400)
       \/ ~Exists(p) /\ ~HasNegative(p) /\ p.details \in OverDiscount /\ Reply(w, 403)
       \/ /\ ~Exists(p) /\ ~HasNegative(p) /\ p.details \notin OverDiscount
          /\ Continue(w, "push", job[w])
  /\ UNCHANGED <<database, vec, changed>>

PushProduct(w) ==
  /\ pc[w] = "push"
  /\ PushBack(w, job[w].item)
  /\ Continue(w, "insert", job[w])
  /\ UNCHANGED <<database, changed>>

\* A failed INSERT is logged and the answer is 200 all the same.
InsertProduct(w) ==
  /\ pc[w] = "insert"
  /\ LET p == job[w].item IN
       \/ /\ products' = products \cup
                {[id |-> lastProduct + 1, owner |-> p.owner, code |-> p.code,
                  details |-> p.details, quantity |-> p.quantity, alert |-> p.alert]}
          /\ lastProduct' = lastProduct + 1
          /\ changed' = TRUE
       \/ /\ DiskFaults
          /\ changed' \in BOOLEAN
          /\ UNCHANGED <<products, lastProduct>>
  /\ Reply(w, 200)
  /\ UNCHANGED <<sales, lastSale, vec>>

-----------------------------------------------------------------------------
(* /delete_product and /delete_sale *)

AcceptDelete(w) ==
  \E u \in Users, c \in Codes : Accept(w, "delete", Request("delete_product", u, c))

\* Answers 200 whether or not a row was deleted; the vector keeps its slot.
DeleteProduct(w) ==
  /\ pc[w] = "delete"
  /\ \/ LET hit == {r \in products : Updates(r, job[w].code, job[w].user)}
        IN /\ products' = products \ hit
           /\ changed' = (hit # {})
           /\ Reply(w, 200)
     \/ /\ DiskFaults
        /\ changed' \in BOOLEAN
        /\ Reply(w, 404)
        /\ UNCHANGED products
  /\ UNCHANGED <<lastProduct, sales, lastSale, vec>>

AcceptVoid(w) ==
  \E u \in Users, s \in 1 .. MaxSales :
    Accept(w, "void", [Request("delete_sale", u, Null) EXCEPT !.sale = s])

\* WHERE sale_code = ? AND LOWER(owner) = LOWER(?)
Voids(s, j) == s.id = j.sale /\ Lower[s.owner] = Lower[j.user]

\* The units of a deleted sale are not returned to the product.
DeleteSale(w) ==
  /\ pc[w] = "void"
  /\ \/ LET hit == {s \in sales : Voids(s, job[w])}
        IN /\ sales' = sales \ hit
           /\ changed' = (hit # {})
           /\ Continue(w, "changes", job[w])
     \/ /\ DiskFaults
        /\ changed' \in BOOLEAN
        /\ Reply(w, 404)
        /\ UNCHANGED sales
  /\ UNCHANGED <<products, lastProduct, lastSale, vec>>

-----------------------------------------------------------------------------
(* /api/products and /get_product: loadProducts, then the vector is read. *)

AcceptList(w) ==
  \E u \in Users : Accept(w, "clear", Request("list", u, Null))

AcceptGet(w) ==
  \E u \in Users, q \in Queries :
    Accept(w, "clear", [Request("get_product", u, Null) EXCEPT !.query = q])

ReadVector(w) ==
  /\ pc[w] = "read"
  /\ \/ job[w].op = "list" /\ Respond(w, 200, vec)
     \/ /\ job[w].op = "get_product"
        /\ \E i \in FirstHit(job[w].query) : Respond(w, 200, <<vec[i]>>)
     \/ /\ job[w].op = "get_product"
        /\ FirstHit(job[w].query) = {}
        /\ Reply(w, 404)
  /\ UNCHANGED <<database, vec, changed>>

-----------------------------------------------------------------------------
(* /api/sales, /get_sale and /api/sales_report read the table sales into   *)
(* variables of their own.                                                 *)

AcceptLook(w) ==
  \E u \in Users :
    \/ Accept(w, "look", Request("list_sales", u, Null))
    \/ \E s \in 1 .. MaxSales :
         Accept(w, "look", [Request("get_sale", u, Null) EXCEPT !.sale = s])
    \/ \E m \in Months :
         Accept(w, "look", [Request("report", u, Null) EXCEPT !.month = m])

\* WHERE LOWER(owner) = LOWER(?), of NULL for a user without a row.
SalesOf(o) == {s \in sales : o # Null /\ Lower[s.owner] = Lower[o]}

\* A manager's list has her own sales, an employee's those of the manager.
Listed(j) == SalesOf(Scope(j))

\* The report asks for the user's own, whatever the role.
Reported(j) == {s \in SalesOf(ActingAs(j)) : s.month = j.month}

Found(j) == {s \in sales : Voids(s, j)}

\* A scan in id order, which a row whose reading fails ends.
Scanned(rows) ==
  {rows} \cup {{s \in rows : s.id < q.id} : q \in IF DiskFaults THEN rows ELSE {}}

\* A report has its one row though there be no sales; none if it fails.
ReadSales(w) ==
  /\ pc[w] = "look"
  /\ LET j == job[w] IN
       \/ j.op = "list_sales" /\ \E rows \in Scanned(Listed(j)) : ShowSales(w, rows)
       \/ j.op = "report" /\ ShowSales(w, Reported(j))
       \/ j.op = "report" /\ DiskFaults /\ ShowSales(w, {})
       \/ j.op = "get_sale" /\ Found(j) # {} /\ ShowSales(w, Found(j))
       \/ j.op = "get_sale" /\ (Found(j) = {} \/ DiskFaults) /\ Reply(w, 404)
  /\ UNCHANGED <<database, vec, changed>>

-----------------------------------------------------------------------------
\* A handler of another component (login, users, customers) runs a statement
\* on the same connection; it needs a worker that is in no handler here, and
\* matters only while another is about to read sqlite3_changes.
OtherStatement ==
  /\ \E w \in Workers : pc[w] = "idle"
  /\ \E v \in Workers : pc[v] = "changes"
  /\ changed' \in BOOLEAN
  /\ answer' = Null
  /\ UNCHANGED <<database, vec, pc, job>>

\* The machine stops between any two steps and starts again: the committed
\* rows are what is left. The outcomes of a data race that end the process
\* are among these steps.
Crash ==
  /\ Crashes
  /\ vec' = <<>>
  /\ changed' = FALSE
  /\ pc' = [w \in Workers |-> "idle"]
  /\ job' = [w \in Workers |-> Null]
  /\ answer' = Null
  /\ UNCHANGED database

\* A step of the handler a worker is in, and of a request it takes.
Step(w) ==
  \/ ClearVector(w) \/ LoadRow(w) \/ EndOfRows(w)
  \/ SaleFindsNothing(w) \/ SaleIsShort(w) \/ TakeUnits(w)
  \/ BindField(w) \/ UpdateProduct(w) \/ UpdateFails(w) \/ CheckChanges(w)
  \/ InsertSale(w) \/ ConfirmSale(w)
  \/ CheckProduct(w) \/ PushProduct(w) \/ InsertProduct(w)
  \/ DeleteProduct(w) \/ DeleteSale(w) \/ ReadVector(w) \/ ReadSales(w)

Arrival(w) ==
  \/ AcceptSale(w) \/ RefuseSale(w) \/ AcceptProduct(w) \/ AcceptUpdate(w)
  \/ AcceptDelete(w) \/ AcceptVoid(w) \/ AcceptList(w) \/ AcceptGet(w)
  \/ AcceptLook(w)

Next ==
  \/ \E w \in Workers : Step(w) \/ Arrival(w)
  \/ OtherStatement
  \/ Crash

Spec == Init /\ [][Next]_vars
=============================================================================
