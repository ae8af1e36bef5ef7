------------------------ MODULE InventoryProperties ------------------------
(***************************************************************************)
(* What is asked of the product and sale handlers. Not every property      *)
(* holds of every configuration: each is named by the runs that check it.  *)
(***************************************************************************)
EXTENDS Inventory

\* The request and locals of a worker at a label: what its next step uses.
WellFormed(label, j) ==
  /\ j \in Job
  /\ \/ label \in {"update", "check", "push", "insert", "record", "warn"} \cup Binding
     \/ label = "changes" /\ j.op = "add_sale"
     => j.item \in Product
  /\ label \in {"find", "record", "warn"} \cup Binding => j.op = "add_sale"
  /\ label = "void" => j.op = "delete_sale"
  /\ j.op = "add_sale" => j.code \in Codes /\ j.customer \in Customers /\ j.month \in Months

DataOK ==
  /\ products \subseteq ProductRow /\ lastProduct \in Nat
  /\ sales \subseteq Sale /\ lastSale \in Nat
  /\ vec \in Seq(Product)
  /\ changed \in BOOLEAN

ControlOK ==
  /\ pc \in [Workers -> Labels]
  /\ job \in [Workers -> Job \cup {Null}]
  /\ answer \in Answer \cup {Null}
  /\ \A w \in Workers : pc[w] # "idle" => WellFormed(pc[w], job[w])

\* Every variable has its type, and a worker in a handler has the request and
\* the product that its next step uses; the vector's slots, and what is
\* written from them by another worker, are products always.
TypeOK == DataOK /\ ControlOK

\* /update_product checks no number (line 1895), so a stored quantity may be
\* below zero; then it is one that an edit entered. Sales leave none there,
\* whatever units they ask for, however they overlap with edits and with each
\* other, int overflow, torn rows, failing statements and restarts included.
\* EditQuantities may be any set: take it to be what a behaviour's edits enter.
OnlyEditsGoBelowZero == \A r \in products : r.quantity >= 0 \/ r.quantity \in EditQuantities

RowsOf(table, o) == {r \in table : r.owner = o}

\* The rows of an owner change only by a step of a worker acting under that
\* name, even where the shared vector holds another owner's products.
OwnerWrites ==
  \A o \in Names :
    RowsOf(products', o) # RowsOf(products, o) =>
      \E w \in Workers : /\ pc'[w] # pc[w]
                         /\ pc[w] \in {"update", "insert", "delete"}
                         /\ ActingAs(job[w]) = o
WritesStayWithOwner == [][OwnerWrites]_vars

-----------------------------------------------------------------------------
(* Answers. Worker w answers in a step when it leaves its handler in it. *)

Answers(w, op, status) ==
  /\ pc[w] # "idle" /\ pc'[w] = "idle"
  /\ job[w].op = op
  /\ answer' # Null /\ answer'.status = status

\* What a refused sale says of the rows `seen`: 404 "Product not found", that
\* there is none; 400 "Insufficient stock", that one of them has too few units
\* to take the sale's and leave a number of units that an int can hold.
RefusalIsTrueOf(w, seen) ==
  /\ Answers(w, "add_sale", 404) => seen = {}
  /\ Answers(w, "add_sale", 400) => \E r \in seen : r.quantity - job[w].units \notin 0 .. IntMax

\* A sale is refused for the reason it gives, of the products its own SELECT
\* asks for: those of the seller's lowercased name, or of an employee's manager.
RefusalsFitTheTable ==
  [][\A w \in Workers :
       RefusalIsTrueOf(w, {r \in RowsOf(products, Scope(job[w])) : r.code = job[w].code})]_vars

\* "Manager sees all products where owner = their username" (line 214): what a
\* sale is refused for is so of the products that lists show to its seller.
RefusalsFitTheList ==
  [][\A w \in Workers :
       LET shown == Scope(Request("list", job[w].user, Null))
       IN RefusalIsTrueOf(w, {r \in RowsOf(products, shown) : r.code = job[w].code})]_vars

\* A list shows the rows of its owner and no others, all of them, as stored.
ListsShowTheTable ==
  [][\A w \in Workers :
       Answers(w, "list", 200) =>
         /\ Len(answer'.shown) = Cardinality(RowsOf(products, Scope(job[w])))
         /\ \A r \in RowsOf(products, Scope(job[w])) :
              \E i \in DOMAIN answer'.shown : answer'.shown[i] = ReadRow(r)]_vars

-----------------------------------------------------------------------------
(* Sales. *)

Deducts(w) == /\ pc[w] = "update" /\ job[w].op = "add_sale"
              /\ pc'[w] = "changes"

\* "track stock" (README.md:2), of products entered once and never edited: the
\* UPDATE of a sale that comes after another sale's, which left a quantity that
\* nobody entered, leaves what it finds less its own units.
SaleDeductsFromCurrentStock ==
  [][\A w \in Workers :
       Deducts(w) =>
         \A r \in products, s \in products' :
           /\ r.id = s.id /\ Updates(r, job[w].code, ActingAs(job[w]))
           /\ r.quantity \notin AddQuantities
           => s.quantity = r.quantity - job[w].units]_vars

\* A sale answered "Sale added" is in the table, if no INSERT fails, and its
\* seller sees it: by its number, in the report of the month in which the sale
\* was asked for, and, if a manager, in the list of sales.
ConfirmedSalesAreSeen ==
  [][\A w \in Workers :
       Answers(w, "add_sale", 200) \/ Answers(w, "add_sale", 403) =>
         \E s \in sales' : \A u \in {job[w].user} :
           /\ s = [SaleOf(job[w]) EXCEPT !.id = s.id]
           /\ u \in Managers => s \in Listed(Request("list_sales", u, Null))'
           /\ s \in Found([Request("get_sale", u, Null) EXCEPT !.sale = s.id])'
           /\ s \in Reported([Request("report", u, Null) EXCEPT !.month = s.month])']_vars

\* "Product exists": an owner has a code once.
UniqueCodes ==
  \A r, s \in products : r.owner = s.owner /\ r.code = s.code => r = s

-----------------------------------------------------------------------------
(* One worker implements the shop. *)

FirstOf(rows) == CHOOSE r \in rows : \A q \in rows : r.id <= q.id

\* An owner's stock of a code is that of the oldest row: lists and sales find
\* it first, and an UPDATE makes the others equal to it.
StockOf(p) ==
  LET rows == {r \in products : Updates(r, p[2], p[1])}
  IN IF rows = {} THEN Null ELSE FirstOf(rows).quantity

\* The worker whose sale has taken its units and is not in the table.
Owing(w) ==
  \/ pc[w] = "changes" /\ job[w].op = "add_sale" /\ changed
  \/ pc[w] = "record"

Due ==
  IF \E w \in Workers : Owing(w)
  THEN LET j == job[CHOOSE w \in Workers : Owing(w)]
       IN [owner |-> ActingAs(j), code |-> j.code, units |-> j.units]
  ELSE Null

Ledger == {[id |-> s.id, owner |-> s.owner, code |-> s.code, units |-> s.quantity] :
             s \in sales}

AbstractShop == INSTANCE Shop WITH
  Owners <- Names, Quantities <- Ints, Ids <- 1 .. MaxSales, None <- Null,
  stock <- [p \in Names \X Codes |-> StockOf(p)],
  due <- Due, ledger <- Ledger

\* A server of one thread, whose clients are managers, is the shop, restarts
\* and failing statements included: a sale takes its units from the stock as
\* it is, and is entered once, before another sale takes any, or never.
ImplementsShop == AbstractShop!Spec
=============================================================================
