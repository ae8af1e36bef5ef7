--------------------------- MODULE InventoryProofs ---------------------------
(***************************************************************************)
(* Proofs about the product and sale handlers, for any number of workers,  *)
(* users, products and quantities: types, what no interleaving does to the *)
(* stock, and whose rows it writes. Run by one thread for managers they    *)
(* are the shop, a refinement for any owners, codes and quantities; for    *)
(* any users, the lists of one thread show the table, and its refusals are *)
(* true of it.                                                             *)
(***************************************************************************)
EXTENDS InventoryProperties, FiniteSetTheorems, Induction, TLAPS

-----------------------------------------------------------------------------
(* Operators. *)

\* int arithmetic on two ints gives an int: the subtraction of /add_sale
\* cannot leave the type, whatever a client asks for.
LEMMA WrapType ==
  ASSUME NEW a \in Ints, NEW b \in Ints
  PROVE  Wrap(a - b) \in Ints
  BY NumbersAssumption DEF Wrap, Ints

\* A row as loadProducts reads it is a product.
LEMMA ReadRowType ==
  ASSUME NEW r \in ProductRow
  PROVE  ReadRow(r) \in Product
  BY NamesAssumption DEF ReadRow, ProductRow, Product

\* The name a worker acts under is a name.
LEMMA ActingAsType ==
  ASSUME NEW j \in Job
  PROVE  ActingAs(j) \in Names
  BY NamesAssumption DEF ActingAs, Job

\* What a sale's reference to a slot may refer to is a product.
LEMMA ReferredType ==
  ASSUME TypeOK, NEW w \in Workers, pc[w] \in {"warn"} \cup Binding
  PROVE  Referred(w) \subseteq Product /\ job[w].item \in Product
<1>1. job[w].item \in Product
  BY DEF TypeOK, ControlOK, WellFormed, Binding
<1>2. \A i \in DOMAIN vec : vec[i] \in Product
  BY DEF TypeOK, DataOK
<1> QED
  BY <1>1, <1>2 DEF Referred

\* One field of a product bound from another leaves a product, for the next
\* field to be bound.
LEMMA BindIs ==
  ASSUME TypeOK, NEW w \in Workers, BindField(w)
  PROVE  \E p \in Referred(w) : \E label, item :
           /\ Continue(w, label, [job[w] EXCEPT !.item = item])
           /\ label \in {"bind quantity", "bind alert", "bind code", "update"}
           /\ item \in Product
           /\ item.quantity \in {p.quantity, job[w].item.quantity}
           /\ item.code \in {p.code, job[w].item.code}
<1>1. pc[w] \in Binding
  BY DEF BindField
<1>2. Referred(w) \subseteq Product /\ job[w].item \in Product
  BY <1>1, ReferredType
<1>3. PICK item \in {job[w].item}, p \in Referred(w) :
        \/ Continue(w, "bind quantity",
                    [job[w] EXCEPT !.item = [item EXCEPT !.details = p.details]])
        \/ Continue(w, "bind alert",
                    [job[w] EXCEPT !.item = [item EXCEPT !.quantity = p.quantity]])
        \/ Continue(w, "bind code",
                    [job[w] EXCEPT !.item = [item EXCEPT !.alert = p.alert]])
        \/ Continue(w, "update",
                    [job[w] EXCEPT !.item = [item EXCEPT !.code = p.code]])
  BY DEF BindField
<1>4. /\ [item EXCEPT !.details = p.details] \in Product
      /\ [item EXCEPT !.quantity = p.quantity] \in Product
      /\ [item EXCEPT !.alert = p.alert] \in Product
      /\ [item EXCEPT !.code = p.code] \in Product
  BY <1>2 DEF Product
<1> DEFINE Next4(label, k) == /\ Continue(w, label, [job[w] EXCEPT !.item = k])
                             /\ label \in {"bind quantity", "bind alert", "bind code", "update"}
                             /\ k \in Product
                             /\ k.quantity \in {p.quantity, job[w].item.quantity}
                             /\ k.code \in {p.code, job[w].item.code}
<1>5. CASE Continue(w, "bind quantity",
                    [job[w] EXCEPT !.item = [item EXCEPT !.details = p.details]])
  <2>1. Next4("bind quantity", [item EXCEPT !.details = p.details])
    BY <1>2, <1>4, <1>5 DEF Product
  <2> QED
    BY <2>1
<1>6. CASE Continue(w, "bind alert",
                    [job[w] EXCEPT !.item = [item EXCEPT !.quantity = p.quantity]])
  <2>1. Next4("bind alert", [item EXCEPT !.quantity = p.quantity])
    BY <1>2, <1>4, <1>6 DEF Product
  <2> QED
    BY <2>1
<1>7. CASE Continue(w, "bind code",
                    [job[w] EXCEPT !.item = [item EXCEPT !.alert = p.alert]])
  <2>1. Next4("bind code", [item EXCEPT !.alert = p.alert])
    BY <1>2, <1>4, <1>7 DEF Product
  <2> QED
    BY <2>1
<1>8. CASE Continue(w, "update",
                    [job[w] EXCEPT !.item = [item EXCEPT !.code = p.code]])
  <2>1. Next4("update", [item EXCEPT !.code = p.code])
    BY <1>2, <1>4, <1>8 DEF Product
  <2> QED
    BY <2>1
<1> QED
  BY <1>3, <1>5, <1>6, <1>7, <1>8

-----------------------------------------------------------------------------
(* Control: what Continue, Respond and Accept do to pc, job and answer. *)

\* A worker that goes on with a request that fits the next label keeps the
\* types.
LEMMA ContinueType ==
  ASSUME ControlOK, NEW w \in Workers, NEW label \in Labels, NEW j,
         WellFormed(label, j), Continue(w, label, j)
  PROVE  ControlOK'
  BY DEF ControlOK, Continue, WellFormed

\* A worker that answers with products and becomes idle keeps the types.
LEMMA RespondType ==
  ASSUME ControlOK, NEW w \in Workers, NEW shown \in Seq(Product),
         NEW status \in {200, 400, 403, 404, 409, 500},
         Respond(w, status, shown)
  PROVE  ControlOK'
<1>1. answer' \in Answer
  BY DEF Respond, Answer
<1>2. pc' = [pc EXCEPT ![w] = "idle"] /\ job' = [job EXCEPT ![w] = Null]
  BY DEF Respond
<1> QED
  BY <1>1, <1>2 DEF ControlOK, WellFormed, Labels

\* An answer that shows no product is such an answer.
LEMMA ReplyType ==
  ASSUME ControlOK, NEW w \in Workers,
         NEW status \in {200, 400, 403, 404, 409, 500}, Reply(w, status)
  PROVE  ControlOK'
<1>1. <<>> \in Seq(Product)
  OBVIOUS
<1>2. PICK shown \in Seq(Product) : Respond(w, status, shown)
  BY <1>1 DEF Reply
<1> QED
  BY <1>2, RespondType

\* A worker that answers with sales and becomes idle keeps the types.
LEMMA ShowSalesType ==
  ASSUME ControlOK, NEW w \in Workers, NEW rows \in SUBSET Sale, ShowSales(w, rows)
  PROVE  ControlOK'
<1>1. answer' \in Answer
  <2>1. <<>> \in Seq(Product)
    OBVIOUS
  <2> QED
    BY <2>1 DEF ShowSales, Answer
<1>2. pc' = [pc EXCEPT ![w] = "idle"] /\ job' = [job EXCEPT ![w] = Null]
  BY DEF ShowSales
<1> QED
  BY <1>1, <1>2 DEF ControlOK, WellFormed, Labels

\* A request as a client sends it has the type of one.
LEMMA RequestType ==
  ASSUME NEW o \in Requests, NEW u \in Users, NEW c \in Codes \cup {Null}
  PROVE  /\ Request(o, u, c) \in Job
         /\ Request(o, u, c).op = o /\ Request(o, u, c).code = c
  BY NumbersAssumption DEF Request, Job, Ints

\* The product a handler takes from a body is a product.
LEMMA EnteredType ==
  ASSUME NEW u \in Users, NEW c \in Codes, NEW d \in Details,
         NEW n \in AddQuantities \cup EditQuantities, NEW a \in Alerts
  PROVE  Entered(u, c, d, n, a) \in Product
  BY NamesAssumption, NumbersAssumption DEF Entered, Product

-----------------------------------------------------------------------------
(* Types. *)

\* A sale without a customer changes nothing.
LEMMA RefuseSaleType ==
  ASSUME TypeOK, NEW w \in Workers, RefuseSale(w)
  PROVE  TypeOK'
<1>1. answer' \in Answer
  BY DEF RefuseSale, Answer
<1>2. ControlOK'
  BY <1>1 DEF RefuseSale, TypeOK, ControlOK
<1>3. DataOK'
  BY DEF RefuseSale, TypeOK, DataOK, database
<1> QED
  BY <1>2, <1>3 DEF TypeOK

\* Taking a request keeps the types: nothing but the control changes.
LEMMA ArrivalType ==
  ASSUME TypeOK, NEW w \in Workers, Arrival(w)
  PROVE  TypeOK'
<1> USE DEF Requests, Labels, WellFormed, Binding
<1> DEFINE Kept == UNCHANGED <<database, vec, changed>>
<1>1. ASSUME NEW label \in Labels, NEW j, WellFormed(label, j), Accept(w, label, j)
      PROVE  TypeOK'
  <2>1. ControlOK'
    BY <1>1, ContinueType DEF Accept, TypeOK
  <2>2. DataOK'
    BY <1>1 DEF Accept, TypeOK, DataOK, database
  <2> QED
    BY <2>1, <2>2 DEF TypeOK
<1>2. CASE AcceptSale(w)
  <2>1. PICK u \in Users, c \in Codes, n \in SaleQuantities, k \in Customers, m \in Months :
          Accept(w, "clear", [Request("add_sale", u, c) EXCEPT
                                !.units = n, !.customer = k, !.month = m])
    BY <1>2 DEF AcceptSale
  <2> DEFINE r == Request("add_sale", u, c)
             j == [r EXCEPT !.units = n, !.customer = k, !.month = m]
  <2>2. r \in Job /\ r.op = "add_sale" /\ r.code = c
    BY RequestType
  <2> HIDE DEF r
  <2>3. j \in Job /\ j.op = r.op /\ j.code = r.code /\ j.customer = k /\ j.month = m
    BY <2>2, NumbersAssumption DEF Job
  <2>4. WellFormed("clear", j)
    BY <2>2, <2>3
  <2> QED
    BY <1>1, <2>1, <2>4 DEF r
<1>3. CASE RefuseSale(w)
  BY <1>3, RefuseSaleType
<1>4. CASE AcceptProduct(w)
  <2>1. PICK u \in Users, c \in Codes, d \in Details, n \in AddQuantities, a \in Alerts :
          Accept(w, "check",
                 [Request("add_product", u, c) EXCEPT !.item = Entered(u, c, d, n, a)])
    BY <1>4 DEF AcceptProduct
  <2>2. Entered(u, c, d, n, a) \in Product
    BY EnteredType
  <2>3. WellFormed("check",
          [Request("add_product", u, c) EXCEPT !.item = Entered(u, c, d, n, a)])
    BY <2>2, RequestType DEF Request, Job
  <2> QED
    BY <1>1, <2>1, <2>3
<1>5. CASE AcceptUpdate(w)
  <2>1. PICK u \in Users, c \in Codes, d \in Details, n \in EditQuantities, a \in Alerts :
          Accept(w, "update",
                 [Request("update_product", u, c) EXCEPT !.item = Entered(u, c, d, n, a)])
    BY <1>5 DEF AcceptUpdate
  <2>2. Entered(u, c, d, n, a) \in Product
    BY EnteredType
  <2>3. WellFormed("update",
          [Request("update_product", u, c) EXCEPT !.item = Entered(u, c, d, n, a)])
    BY <2>2, RequestType DEF Request, Job
  <2> QED
    BY <1>1, <2>1, <2>3
<1>6. CASE AcceptDelete(w)
  <2>1. PICK u \in Users, c \in Codes : Accept(w, "delete", Request("delete_product", u, c))
    BY <1>6 DEF AcceptDelete
  <2>2. WellFormed("delete", Request("delete_product", u, c))
    BY RequestType
  <2> QED
    BY <1>1, <2>1, <2>2
<1>7. CASE AcceptVoid(w)
  <2>1. PICK u \in Users, s \in 1 .. MaxSales :
          Accept(w, "void", [Request("delete_sale", u, Null) EXCEPT !.sale = s])
    BY <1>7 DEF AcceptVoid
  <2>2. WellFormed("void", [Request("delete_sale", u, Null) EXCEPT !.sale = s])
    BY RequestType, BoundsAssumption DEF Request, Job
  <2> QED
    BY <1>1, <2>1, <2>2
<1>8. CASE AcceptList(w)
  <2>1. PICK u \in Users : Accept(w, "clear", Request("list", u, Null))
    BY <1>8 DEF AcceptList
  <2>2. WellFormed("clear", Request("list", u, Null))
    BY RequestType
  <2> QED
    BY <1>1, <2>1, <2>2
<1>9. CASE AcceptGet(w)
  <2>1. PICK u \in Users, q \in Queries :
          Accept(w, "clear", [Request("get_product", u, Null) EXCEPT !.query = q])
    BY <1>9 DEF AcceptGet
  <2>2. WellFormed("clear", [Request("get_product", u, Null) EXCEPT !.query = q])
    BY RequestType, BoundsAssumption DEF Request, Job
  <2> QED
    BY <1>1, <2>1, <2>2
<1>10. CASE AcceptLook(w)
  <2>1. PICK u \in Users :
          \/ Accept(w, "look", Request("list_sales", u, Null))
          \/ \E s \in 1 .. MaxSales :
               Accept(w, "look", [Request("get_sale", u, Null) EXCEPT !.sale = s])
          \/ \E m \in Months :
               Accept(w, "look", [Request("report", u, Null) EXCEPT !.month = m])
    BY <1>10 DEF AcceptLook
  <2>2. WellFormed("look", Request("list_sales", u, Null))
    BY RequestType
  <2>3. \A s \in 1 .. MaxSales :
          WellFormed("look", [Request("get_sale", u, Null) EXCEPT !.sale = s])
    BY RequestType, BoundsAssumption DEF Request, Job
  <2>4. \A m \in Months :
          WellFormed("look", [Request("report", u, Null) EXCEPT !.month = m])
    BY RequestType DEF Request, Job
  <2> QED
    BY <1>1, <2>1, <2>2, <2>3, <2>4
<1> QED
  BY <1>2, <1>3, <1>4, <1>5, <1>6, <1>7, <1>8, <1>9, <1>10 DEF Arrival

\* Every step of a handler keeps the types.
LEMMA StepType ==
  ASSUME TypeOK, NEW w \in Workers, Step(w)
  PROVE  TypeOK'
<1> USE DEF Requests, Labels, Binding
<1>1. ControlOK /\ DataOK
  BY DEF TypeOK
<1>2. pc[w] # "idle" => WellFormed(pc[w], job[w])
  BY <1>1 DEF ControlOK
<1>3. ASSUME NEW r \in ProductRow, PushBack(w, ReadRow(r)) PROVE vec' \in Seq(Product)
  BY <1>1, <1>3, ReadRowType DEF PushBack, DataOK
<1>4. CASE ClearVector(w)
  <2>1. ControlOK'
    BY <1>1, <1>2, <1>4, ContinueType DEF ClearVector, WellFormed
  <2>2. DataOK'
    BY <1>1, <1>4 DEF ClearVector, DataOK, database
  <2> QED
    BY <2>1, <2>2 DEF TypeOK
<1>5. CASE LoadRow(w)
  <2>1. PICK r \in Ahead(job[w]) :
          /\ PushBack(w, ReadRow(r))
          /\ Continue(w, "load", [job[w] EXCEPT !.cursor = r.id])
    BY <1>5 DEF LoadRow
  <2>2. r \in ProductRow
    BY <1>1 DEF Ahead, DataOK
  <2>3. WellFormed("load", [job[w] EXCEPT !.cursor = r.id])
    BY <1>2, <1>5, <2>2 DEF LoadRow, WellFormed, Job, ProductRow
  <2>4. ControlOK'
    BY <1>1, <2>1, <2>3, ContinueType
  <2>5. DataOK'
    BY <1>1, <1>3, <1>5, <2>1, <2>2 DEF LoadRow, DataOK, database
  <2> QED
    BY <2>4, <2>5 DEF TypeOK
<1>6. CASE EndOfRows(w)
  <2> DEFINE label == IF job[w].op = "add_sale" THEN "find" ELSE "read"
  <2>1. WellFormed(label, [job[w] EXCEPT !.cursor = 0])
    BY <1>2, <1>6 DEF EndOfRows, WellFormed, Job
  <2>2. ControlOK'
    BY <1>1, <1>6, <2>1, ContinueType DEF EndOfRows
  <2>3. DataOK'
    BY <1>1, <1>6 DEF EndOfRows, DataOK, database
  <2> QED
    BY <2>2, <2>3 DEF TypeOK
<1>7. CASE SaleFindsNothing(w) \/ SaleIsShort(w)
  <2>1. ControlOK'
    BY <1>1, <1>7, ReplyType DEF SaleFindsNothing, SaleIsShort
  <2>2. DataOK'
    BY <1>1, <1>7 DEF SaleFindsNothing, SaleIsShort, DataOK, database
  <2> QED
    BY <2>1, <2>2 DEF TypeOK
<1>8. CASE TakeUnits(w)
  <2>1. PICK i \in FirstHit({job[w].code}) :
          LET left == NewQuantity(vec[i], job[w].units)
              slot == [vec[i] EXCEPT !.quantity = left]
          IN /\ vec' = [vec EXCEPT ![i] = slot]
             /\ Continue(w, "bind details",
                         [job[w] EXCEPT !.at = i, !.item = slot, !.left = left])
    BY <1>8 DEF TakeUnits
  <2> DEFINE left == NewQuantity(vec[i], job[w].units)
             slot == [vec[i] EXCEPT !.quantity = left]
  <2>2. i \in DOMAIN vec /\ vec[i] \in Product /\ i \in Nat
    BY <1>1 DEF FirstHit, DataOK
  <2>3. left \in Ints
    BY <1>2, <1>8, <2>2, WrapType DEF TakeUnits, WellFormed, Job, Product, NewQuantity
  <2>4. slot \in Product
    BY <2>2, <2>3 DEF Product
  <2>5. WellFormed("bind details", [job[w] EXCEPT !.at = i, !.item = slot, !.left = left])
    <3>1. job[w] \in Job /\ job[w].op = "add_sale" /\ WellFormed("find", job[w])
      BY <1>2, <1>8 DEF TakeUnits, WellFormed
    <3>2. PICK j : j = [job[w] EXCEPT !.at = i, !.item = slot, !.left = left]
      OBVIOUS
    <3> HIDE DEF left, slot
    <3>3. /\ j \in Job /\ j.item = slot /\ j.op = job[w].op /\ j.code = job[w].code
          /\ j.customer = job[w].customer /\ j.month = job[w].month
      BY <2>2, <2>3, <2>4, <3>1, <3>2 DEF Job
    <3>4. WellFormed("bind details", j)
      BY <2>4, <3>1, <3>3 DEF WellFormed
    <3> QED
      BY <3>2, <3>4 DEF slot, left
  <2>6. ControlOK'
    BY <1>1, <2>1, <2>5, ContinueType
  <2>7. vec' \in Seq(Product)
    <3>1. vec' = [vec EXCEPT ![i] = slot] /\ vec \in Seq(Product)
      BY <1>1, <2>1 DEF DataOK
    <3> HIDE DEF slot
    <3> QED
      BY <2>2, <2>4, <3>1
  <2>8. DataOK'
    BY <1>1, <1>8, <2>7 DEF TakeUnits, DataOK, database
  <2> QED
    BY <2>6, <2>8 DEF TypeOK
<1>20. CASE BindField(w)
  <2>1. PICK label, item :
          /\ Continue(w, label, [job[w] EXCEPT !.item = item])
          /\ label \in {"bind quantity", "bind alert", "bind code", "update"}
          /\ item \in Product
    BY <1>20, BindIs
  <2>2. WellFormed(label, [job[w] EXCEPT !.item = item])
    BY <1>2, <1>20, <2>1 DEF BindField, WellFormed, Job, Binding
  <2>3. ControlOK'
    BY <1>1, <2>1, <2>2, ContinueType DEF Binding
  <2>4. DataOK'
    BY <1>1, <1>20 DEF BindField, DataOK, database
  <2> QED
    BY <2>3, <2>4 DEF TypeOK
<1>9. CASE UpdateProduct(w)
  <2> DEFINE p == job[w].item
  <2>1. p \in Product
    BY <1>2, <1>9 DEF UpdateProduct, WellFormed
  <2>2. LET hit == {r \in products : Updates(r, p.code, ActingAs(job[w]))}
        IN /\ products' = (products \ hit) \cup {Updated(r, p) : r \in hit}
           /\ changed' = (hit # {})
    BY <1>9 DEF UpdateProduct
  <2>3. \A r \in products : Updated(r, p) \in ProductRow
    BY <1>1, <2>1 DEF Updated, DataOK, ProductRow, Product
  <2>4. products' \subseteq ProductRow /\ changed' \in BOOLEAN
    BY <1>1, <2>2, <2>3 DEF DataOK
  <2>5. ControlOK'
    BY <1>1, <1>2, <1>9, ContinueType DEF UpdateProduct, WellFormed, Binding
  <2>6. DataOK'
    BY <1>1, <1>9, <2>4 DEF UpdateProduct, DataOK
  <2> QED
    BY <2>5, <2>6 DEF TypeOK
<1>10. CASE UpdateFails(w)
  <2>1. ControlOK'
    BY <1>1, <1>10, ReplyType DEF UpdateFails, Failure
  <2>2. DataOK'
    BY <1>1, <1>10 DEF UpdateFails, DataOK, database
  <2> QED
    BY <2>1, <2>2 DEF TypeOK
<1>11. CASE CheckChanges(w)
  <2>1. job[w].op = "add_sale" => WellFormed("record", job[w])
    BY <1>2, <1>11 DEF CheckChanges, WellFormed
  <2>2. ControlOK'
    <3>1. CASE \E status \in {200, 404, 500} : Reply(w, status)
      BY <1>1, <3>1, ReplyType
    <3>2. CASE job[w].op = "add_sale" /\ Continue(w, "record", job[w])
      BY <1>1, <2>1, <3>2, ContinueType
    <3> QED
      BY <1>11, <3>1, <3>2 DEF CheckChanges, Failure
  <2>3. DataOK'
    BY <1>1, <1>11 DEF CheckChanges, DataOK, database
  <2> QED
    BY <2>2, <2>3 DEF TypeOK
<1>12. CASE InsertSale(w)
  <2>1. SaleOf(job[w]) \in Sale
    BY <1>1, <1>2, <1>12, ActingAsType DEF InsertSale, WellFormed, SaleOf, Sale, Job, DataOK
  <2>2. WellFormed("warn", job[w])
    BY <1>2, <1>12 DEF InsertSale, WellFormed
  <2>3. ControlOK'
    BY <1>1, <1>12, <2>2, ContinueType DEF InsertSale
  <2>4. sales' \subseteq Sale /\ lastSale' \in Nat
    BY <1>1, <1>12, <2>1 DEF InsertSale, DataOK
  <2>5. changed' \in BOOLEAN
    BY <1>12 DEF InsertSale
  <2>6. DataOK'
    BY <1>1, <1>12, <2>4, <2>5 DEF InsertSale, DataOK
  <2> QED
    BY <2>3, <2>6 DEF TypeOK
<1>21. CASE ConfirmSale(w)
  <2>1. ControlOK'
    BY <1>1, <1>21, ReplyType DEF ConfirmSale
  <2>2. DataOK'
    BY <1>1, <1>21 DEF ConfirmSale, DataOK, database
  <2> QED
    BY <2>1, <2>2 DEF TypeOK
<1>13. CASE CheckProduct(w)
  <2>1. WellFormed("push", job[w])
    BY <1>2, <1>13 DEF CheckProduct, WellFormed
  <2>2. ControlOK'
    <3>1. CASE \E status \in {400, 403, 409} : Reply(w, status)
      BY <1>1, <3>1, ReplyType
    <3>2. CASE Continue(w, "push", job[w])
      BY <1>1, <2>1, <3>2, ContinueType
    <3> QED
      BY <1>13, <3>1, <3>2 DEF CheckProduct
  <2>3. DataOK'
    BY <1>1, <1>13 DEF CheckProduct, DataOK, database
  <2> QED
    BY <2>2, <2>3 DEF TypeOK
<1>14. CASE PushProduct(w)
  <2>1. WellFormed("insert", job[w])
    BY <1>2, <1>14 DEF PushProduct, WellFormed
  <2>2. ControlOK'
    BY <1>1, <1>14, <2>1, ContinueType DEF PushProduct
  <2>3. vec' \in Seq(Product)
    BY <1>1, <1>14, <2>1 DEF PushProduct, PushBack, WellFormed, DataOK
  <2>4. DataOK'
    BY <1>1, <1>14, <2>3 DEF PushProduct, DataOK, database
  <2> QED
    BY <2>2, <2>4 DEF TypeOK
<1>15. CASE InsertProduct(w)
  <2> DEFINE p == job[w].item
             row == [id |-> lastProduct + 1, owner |-> p.owner, code |-> p.code,
                     details |-> p.details, quantity |-> p.quantity, alert |-> p.alert]
  <2>1. row \in ProductRow
    BY <1>1, <1>2, <1>15 DEF InsertProduct, WellFormed, Product, ProductRow, DataOK
  <2>2. ControlOK'
    BY <1>1, <1>15, ReplyType DEF InsertProduct
  <2>3. products' \subseteq ProductRow /\ lastProduct' \in Nat
    BY <1>1, <1>15, <2>1 DEF InsertProduct, DataOK
  <2>4. changed' \in BOOLEAN
    BY <1>15 DEF InsertProduct
  <2>5. DataOK'
    BY <1>1, <1>15, <2>3, <2>4 DEF InsertProduct, DataOK
  <2> QED
    BY <2>2, <2>5 DEF TypeOK
<1>16. CASE DeleteProduct(w)
  <2>1. ControlOK'
    BY <1>1, <1>16, ReplyType DEF DeleteProduct
  <2>2. DataOK'
    BY <1>1, <1>16 DEF DeleteProduct, DataOK
  <2> QED
    BY <2>1, <2>2 DEF TypeOK
<1>17. CASE DeleteSale(w)
  <2>1. WellFormed("changes", job[w])
    BY <1>2, <1>17 DEF DeleteSale, WellFormed
  <2>2. ControlOK'
    <3>1. CASE Reply(w, 404)
      BY <1>1, <3>1, ReplyType
    <3>2. CASE Continue(w, "changes", job[w])
      BY <1>1, <2>1, <3>2, ContinueType
    <3> QED
      BY <1>17, <3>1, <3>2 DEF DeleteSale
  <2>3. DataOK'
    BY <1>1, <1>17 DEF DeleteSale, DataOK
  <2> QED
    BY <2>2, <2>3 DEF TypeOK
<1>18. CASE ReadVector(w)
  <2>1. \A i \in DOMAIN vec : <<vec[i]>> \in Seq(Product)
    BY <1>1 DEF DataOK
  <2>2. PICK shown \in Seq(Product), status \in {200, 404} : Respond(w, status, shown)
    <3>1. CASE Respond(w, 200, vec)
      BY <1>1, <3>1 DEF DataOK
    <3>2. CASE \E i \in FirstHit(job[w].query) : Respond(w, 200, <<vec[i]>>)
      BY <2>1, <3>2 DEF FirstHit
    <3>3. CASE Reply(w, 404)
      <4>1. <<>> \in Seq(Product)
        OBVIOUS
      <4> QED
        BY <3>3, <4>1 DEF Reply
    <3> QED
      BY <1>18, <3>1, <3>2, <3>3 DEF ReadVector
  <2>3. ControlOK'
    BY <1>1, <2>2, RespondType
  <2>4. DataOK'
    BY <1>1, <1>18 DEF ReadVector, DataOK, database
  <2> QED
    BY <2>3, <2>4 DEF TypeOK
<1>19. CASE ReadSales(w)
  <2>1. sales \subseteq Sale
    BY <1>1 DEF DataOK
  <2>2. /\ Scanned(Listed(job[w])) \subseteq SUBSET Sale
        /\ Reported(job[w]) \subseteq Sale /\ Found(job[w]) \subseteq Sale
    BY <2>1 DEF Scanned, Listed, Reported, Found, SalesOf
  <2>3. PICK rows \in SUBSET Sale : ShowSales(w, rows) \/ Reply(w, 404)
    BY <1>19, <2>2 DEF ReadSales
  <2>4. ControlOK'
    BY <1>1, <2>3, ShowSalesType, ReplyType
  <2>5. DataOK'
    BY <1>1, <1>19 DEF ReadSales, DataOK, database
  <2> QED
    BY <2>4, <2>5 DEF TypeOK
<1> QED
  BY <1>4, <1>5, <1>6, <1>7, <1>8, <1>9, <1>10, <1>11, <1>12, <1>13, <1>14,
     <1>15, <1>16, <1>17, <1>18, <1>19, <1>20, <1>21 DEF Step

\* Types hold whatever the workers do, restarts included.
THEOREM TypeCorrect == Spec => []TypeOK
<1>1. Init => TypeOK
  <2> SUFFICES ASSUME Init PROVE TypeOK
    OBVIOUS
  <2>1. vec \in Seq(Product)
    BY DEF Init
  <2>2. DataOK
    BY <2>1 DEF Init, DataOK
  <2>3. ControlOK
    BY DEF Init, ControlOK, Labels
  <2> QED
    BY <2>2, <2>3 DEF TypeOK
<1>2. TypeOK /\ [Next]_vars => TypeOK'
  <2> SUFFICES ASSUME TypeOK, [Next]_vars PROVE TypeOK'
    OBVIOUS
  <2>1. CASE \E w \in Workers : Step(w) \/ Arrival(w)
    BY <2>1, StepType, ArrivalType
  <2>2. CASE OtherStatement
    BY <2>2 DEF OtherStatement, TypeOK, DataOK, ControlOK, database, WellFormed
  <2>3. CASE Crash
    <3>1. vec' \in Seq(Product)
      BY <2>3 DEF Crash
    <3>2. DataOK'
      BY <2>3, <3>1 DEF Crash, TypeOK, DataOK, database
    <3>3. ControlOK'
      BY <2>3 DEF Crash, ControlOK, Labels
    <3> QED
      BY <3>2, <3>3 DEF TypeOK
  <2>4. CASE UNCHANGED vars
    BY <2>4 DEF vars, TypeOK, DataOK, ControlOK, WellFormed
  <2> QED
    BY <2>1, <2>2, <2>3, <2>4 DEF Next
<1> QED
  BY <1>1, <1>2, PTL DEF Spec

-----------------------------------------------------------------------------
(* Stock. The quantities in the table are written from the vector and from *)
(* the workers' own products, so an invariant of the table speaks of all   *)
(* three: every quantity that is stored, shared or about to be written is  *)
(* in a set Q. Q must hold what clients enter, and the difference of two   *)
(* quantities when /add_sale does not refuse it.                           *)

Closed(Q) ==
  /\ Q \subseteq Ints
  /\ EditQuantities \subseteq Q
  /\ \A n \in AddQuantities : n >= 0 => n \in Q
  /\ \A q \in Q, n \in SaleQuantities : Wrap(q - n) >= 0 => Wrap(q - n) \in Q

WorkerIn(Q, label, j) ==
  /\ label \in {"update", "push", "insert"} \cup Binding => j.item.quantity \in Q
  /\ label = "check" => j.item.quantity \in AddQuantities
  /\ label = "find" => j.op = "add_sale"
  /\ label \in {"clear", "load", "find"} /\ j.op = "add_sale" => j.units \in SaleQuantities

TableIn(Q) == \A r \in products : r.quantity \in Q

VectorIn(Q) == \A i \in DOMAIN vec : vec[i].quantity \in Q

WorkersIn(Q) == \A w \in Workers : WorkerIn(Q, pc[w], job[w])

QuantitiesIn(Q) == TableIn(Q) /\ VectorIn(Q) /\ WorkersIn(Q)

\* A worker that goes on with a product in Q, or answers, keeps them all in Q.
LEMMA ContinueIn ==
  ASSUME NEW CONSTANT Q, TypeOK, WorkersIn(Q), NEW w \in Workers,
         NEW label, NEW j, WorkerIn(Q, label, j), Continue(w, label, j)
  PROVE  WorkersIn(Q)'
  BY DEF TypeOK, ControlOK, WorkersIn, WorkerIn, Binding, Continue

\* The same of a worker that answers and becomes idle.
LEMMA RespondIn ==
  ASSUME NEW CONSTANT Q, TypeOK, WorkersIn(Q), NEW w \in Workers,
         NEW status, NEW shown, Respond(w, status, shown)
  PROVE  WorkersIn(Q)'
  BY DEF TypeOK, ControlOK, WorkersIn, WorkerIn, Binding, Respond

\* The same of a worker that shows sales.
LEMMA ShowSalesIn ==
  ASSUME NEW CONSTANT Q, TypeOK, WorkersIn(Q), NEW w \in Workers,
         NEW rows, ShowSales(w, rows)
  PROVE  WorkersIn(Q)'
  BY DEF TypeOK, ControlOK, WorkersIn, WorkerIn, Binding, ShowSales

\* push_back of a product in Q, lost or not.
LEMMA PushBackIn ==
  ASSUME NEW CONSTANT Q, TypeOK, VectorIn(Q), NEW w \in Workers,
         NEW p \in Product, p.quantity \in Q, PushBack(w, p)
  PROVE  VectorIn(Q)'
  BY DEF TypeOK, DataOK, VectorIn, PushBack

\* A request brings its own quantities only.
LEMMA ArrivalIn ==
  ASSUME NEW CONSTANT Q, Closed(Q), TypeOK, QuantitiesIn(Q), NEW w \in Workers, Arrival(w)
  PROVE  QuantitiesIn(Q)'
<1> USE DEF WorkerIn, Binding
<1>1. ASSUME NEW label, NEW j, WorkerIn(Q, label, j), Accept(w, label, j)
      PROVE  QuantitiesIn(Q)'
  <2>1. WorkersIn(Q)'
    BY <1>1, ContinueIn DEF Accept, QuantitiesIn
  <2>2. TableIn(Q)' /\ VectorIn(Q)'
    BY <1>1 DEF Accept, QuantitiesIn, TableIn, VectorIn, database
  <2> QED
    BY <2>1, <2>2 DEF QuantitiesIn
<1>2. CASE AcceptSale(w)
  BY <1>1, <1>2 DEF AcceptSale, Request
<1>3. CASE RefuseSale(w)
  BY <1>3 DEF RefuseSale, QuantitiesIn, TableIn, VectorIn, WorkersIn, database
<1>4. CASE AcceptProduct(w)
  BY <1>1, <1>4 DEF AcceptProduct, Request, Entered
<1>5. CASE AcceptUpdate(w)
  BY <1>1, <1>5 DEF AcceptUpdate, Request, Entered, Closed
<1>6. CASE AcceptDelete(w) \/ AcceptVoid(w) \/ AcceptList(w) \/ AcceptGet(w)
  BY <1>1, <1>6 DEF AcceptDelete, AcceptVoid, AcceptList, AcceptGet, Request
<1>7. CASE AcceptLook(w)
  BY <1>1, <1>7 DEF AcceptLook, Request
<1> QED
  BY <1>2, <1>3, <1>4, <1>5, <1>6, <1>7 DEF Arrival

\* A step of a handler writes only quantities in Q: those it was entered
\* with, those it read from the table, and the difference it has checked.
LEMMA StepIn ==
  ASSUME NEW CONSTANT Q, Closed(Q), TypeOK, QuantitiesIn(Q), NEW w \in Workers, Step(w)
  PROVE  QuantitiesIn(Q)'
<1>1. TableIn(Q) /\ VectorIn(Q) /\ WorkersIn(Q)
  BY DEF QuantitiesIn
<1>2. WorkerIn(Q, pc[w], job[w])
  BY <1>1 DEF WorkersIn
<1>3. ASSUME NEW status, NEW shown, Respond(w, status, shown),
             TableIn(Q)', VectorIn(Q)'
      PROVE  QuantitiesIn(Q)'
  BY <1>1, <1>3, RespondIn DEF QuantitiesIn
<1>4. ASSUME NEW label, NEW j, WorkerIn(Q, label, j), Continue(w, label, j),
             TableIn(Q)', VectorIn(Q)'
      PROVE  QuantitiesIn(Q)'
  BY <1>1, <1>4, ContinueIn DEF QuantitiesIn
<1>5. UNCHANGED products => TableIn(Q)'
  BY <1>1 DEF TableIn
<1>6. UNCHANGED vec => VectorIn(Q)'
  BY <1>1 DEF VectorIn
<1>7. CASE ClearVector(w)
  <2>1. VectorIn(Q)'
    BY <1>7 DEF ClearVector, VectorIn
  <2>2. WorkerIn(Q, "load", job[w])
    BY <1>2, <1>7 DEF ClearVector, WorkerIn, Binding
  <2> QED
    BY <1>4, <1>5, <1>7, <2>1, <2>2 DEF ClearVector, database
<1>8. CASE LoadRow(w)
  <2>1. PICK r \in Ahead(job[w]) :
          /\ PushBack(w, ReadRow(r))
          /\ Continue(w, "load", [job[w] EXCEPT !.cursor = r.id])
    BY <1>8 DEF LoadRow
  <2>2. r \in ProductRow /\ r.quantity \in Q
    BY <1>1 DEF Ahead, TypeOK, DataOK, TableIn
  <2>3. ReadRow(r) \in Product /\ ReadRow(r).quantity \in Q
    BY <2>2, ReadRowType DEF ReadRow
  <2>4. VectorIn(Q)'
    BY <1>1, <2>1, <2>3, PushBackIn
  <2>5. job[w] \in Job
    BY <1>8 DEF LoadRow, TypeOK, ControlOK, WellFormed
  <2>6. WorkerIn(Q, "load", [job[w] EXCEPT !.cursor = r.id])
    BY <1>2, <1>8, <2>5 DEF LoadRow, WorkerIn, Job
  <2> QED
    BY <1>4, <1>5, <1>8, <2>1, <2>4, <2>6 DEF LoadRow, database
<1>9. CASE EndOfRows(w)
  <2> DEFINE label == IF job[w].op = "add_sale" THEN "find" ELSE "read"
  <2>1. job[w] \in Job
    BY <1>9 DEF EndOfRows, TypeOK, ControlOK, WellFormed
  <2>2. WorkerIn(Q, label, [job[w] EXCEPT !.cursor = 0])
    BY <1>2, <1>9, <2>1 DEF EndOfRows, WorkerIn, Job, Binding
  <2> QED
    BY <1>4, <1>5, <1>6, <1>9, <2>2 DEF EndOfRows, database
<1>10. CASE SaleFindsNothing(w) \/ SaleIsShort(w)
  BY <1>3, <1>5, <1>6, <1>10 DEF SaleFindsNothing, SaleIsShort, Reply, database
<1>11. CASE TakeUnits(w)
  <2>1. PICK i \in FirstHit({job[w].code}) :
          LET left == NewQuantity(vec[i], job[w].units)
              slot == [vec[i] EXCEPT !.quantity = left]
          IN /\ ~Insufficient(left)
             /\ vec' = [vec EXCEPT ![i] = slot]
             /\ Continue(w, "bind details",
                         [job[w] EXCEPT !.at = i, !.item = slot, !.left = left])
    BY <1>11 DEF TakeUnits
  <2> DEFINE left == NewQuantity(vec[i], job[w].units)
             slot == [vec[i] EXCEPT !.quantity = left]
  <2>2. i \in DOMAIN vec /\ vec[i] \in Product /\ vec[i].quantity \in Q
    BY <1>1 DEF FirstHit, TypeOK, DataOK, VectorIn
  <2>3. job[w] \in Job /\ job[w].units \in SaleQuantities
    BY <1>2, <1>11 DEF TakeUnits, TypeOK, ControlOK, WellFormed, WorkerIn
  <2>4. left \in Ints
    BY <2>2, <2>3, WrapType DEF Job, Product, NewQuantity
  <2>5. left \in Q
    <3>1. ~(left < 0) /\ left = Wrap(vec[i].quantity - job[w].units)
      BY <2>1 DEF Insufficient, NewQuantity
    <3>2. left >= 0
      <4> HIDE DEF left
      <4> QED
        BY <2>4, <3>1, NumbersAssumption DEF Ints
    <3> QED
      BY <2>2, <2>3, <3>1, <3>2 DEF Closed
  <2>6. slot.quantity = left
    BY <2>2 DEF Product
  <2>7. VectorIn(Q)'
    BY <1>1, <2>1, <2>2, <2>5, <2>6 DEF VectorIn, TypeOK, DataOK
  <2>8. WorkerIn(Q, "bind details", [job[w] EXCEPT !.at = i, !.item = slot, !.left = left])
    BY <2>3, <2>5, <2>6 DEF WorkerIn, Job
  <2> QED
    BY <1>4, <1>5, <1>11, <2>1, <2>7, <2>8 DEF TakeUnits, database
<1>23. CASE BindField(w)
  <2>1. job[w].item.quantity \in Q /\ job[w] \in Job
    BY <1>2, <1>23 DEF BindField, WorkerIn, TypeOK, ControlOK, WellFormed, Binding
  <2>2. \A p \in Referred(w) : p.quantity \in Q
    BY <1>1, <2>1 DEF Referred, VectorIn
  <2>3. PICK label, item :
          /\ Continue(w, label, [job[w] EXCEPT !.item = item])
          /\ label \in {"bind quantity", "bind alert", "bind code", "update"}
          /\ item.quantity \in Q
    BY <1>23, <2>1, <2>2, BindIs
  <2>4. WorkerIn(Q, label, [job[w] EXCEPT !.item = item])
    BY <2>1, <2>3 DEF WorkerIn, Job
  <2> QED
    BY <1>4, <1>5, <1>6, <1>23, <2>3, <2>4 DEF BindField, database
<1>12. CASE UpdateProduct(w)
  <2> DEFINE p == job[w].item
  <2>1. p.quantity \in Q
    BY <1>2, <1>12 DEF UpdateProduct, WorkerIn
  <2>2. LET hit == {r \in products : Updates(r, p.code, ActingAs(job[w]))}
        IN products' = (products \ hit) \cup {Updated(r, p) : r \in hit}
    BY <1>12 DEF UpdateProduct
  <2>3. \A r \in products : Updated(r, p).quantity \in Q
    BY <2>1 DEF Updated, TypeOK, DataOK, ProductRow
  <2>4. TableIn(Q)'
    BY <1>1, <2>2, <2>3 DEF TableIn
  <2>5. WorkerIn(Q, "changes", job[w])
    BY DEF WorkerIn, Binding
  <2> QED
    BY <1>4, <1>6, <1>12, <2>4, <2>5 DEF UpdateProduct
<1>13. CASE UpdateFails(w)
  BY <1>3, <1>5, <1>6, <1>13 DEF UpdateFails, Reply, database
<1>14. CASE CheckChanges(w)
  <2>1. WorkerIn(Q, "record", job[w])
    BY DEF WorkerIn, Binding
  <2> QED
    BY <1>3, <1>4, <1>5, <1>6, <1>14, <2>1 DEF CheckChanges, Reply, database
<1>15. CASE InsertSale(w)
  <2>1. WorkerIn(Q, "warn", job[w])
    BY DEF WorkerIn, Binding
  <2> QED
    BY <1>4, <1>5, <1>6, <1>15, <2>1 DEF InsertSale
<1>24. CASE ConfirmSale(w)
  BY <1>3, <1>5, <1>6, <1>24 DEF ConfirmSale, Reply, database
<1>16. CASE CheckProduct(w)
  <2>1. CASE Continue(w, "push", job[w]) /\ ~HasNegative(job[w].item)
    <3>1. job[w].item.quantity \in AddQuantities
      BY <1>2, <1>16 DEF CheckProduct, WorkerIn
    <3>2. job[w].item.quantity \in Int
      <4>1. AddQuantities \subseteq Int
        BY NumbersAssumption DEF Ints
      <4> QED
        BY <3>1, <4>1
    <3>3. job[w].item.quantity >= 0
      BY <2>1, <3>2 DEF HasNegative
    <3>4. WorkerIn(Q, "push", job[w])
      BY <3>1, <3>3 DEF WorkerIn, Closed
    <3> QED
      BY <1>4, <1>5, <1>6, <1>16, <2>1, <3>4 DEF CheckProduct, database
  <2>2. CASE \E status : Reply(w, status)
    BY <1>3, <1>5, <1>6, <1>16, <2>2 DEF CheckProduct, Reply, database
  <2> QED
    BY <1>16, <2>1, <2>2 DEF CheckProduct
<1>17. CASE PushProduct(w)
  <2>1. job[w].item \in Product /\ job[w].item.quantity \in Q
    BY <1>2, <1>17 DEF PushProduct, WorkerIn, TypeOK, ControlOK, WellFormed
  <2>2. VectorIn(Q)'
    BY <1>1, <1>17, <2>1, PushBackIn DEF PushProduct
  <2>3. WorkerIn(Q, "insert", job[w])
    BY <2>1 DEF WorkerIn
  <2> QED
    BY <1>4, <1>5, <1>17, <2>2, <2>3 DEF PushProduct, database
<1>18. CASE InsertProduct(w)
  <2>1. job[w].item.quantity \in Q
    BY <1>2, <1>18 DEF InsertProduct, WorkerIn
  <2>2. TableIn(Q)'
    BY <1>1, <1>18, <2>1 DEF InsertProduct, TableIn
  <2> QED
    BY <1>3, <1>6, <1>18, <2>2 DEF InsertProduct, Reply
<1>19. CASE DeleteProduct(w)
  <2>1. TableIn(Q)'
    BY <1>1, <1>19 DEF DeleteProduct, TableIn
  <2> QED
    BY <1>3, <1>6, <1>19, <2>1 DEF DeleteProduct, Reply
<1>20. CASE DeleteSale(w)
  <2>1. WorkerIn(Q, "changes", job[w])
    BY DEF WorkerIn, Binding
  <2> QED
    BY <1>3, <1>4, <1>5, <1>6, <1>20, <2>1 DEF DeleteSale, Reply
<1>21. CASE ReadVector(w)
  BY <1>3, <1>5, <1>6, <1>21 DEF ReadVector, Reply, database
<1>22. CASE ReadSales(w)
  <2>1. TableIn(Q)' /\ VectorIn(Q)'
    BY <1>5, <1>6, <1>22 DEF ReadSales, database
  <2>2. CASE \E rows : ShowSales(w, rows)
    BY <1>1, <2>1, <2>2, ShowSalesIn DEF QuantitiesIn
  <2>3. CASE Reply(w, 404)
    BY <1>3, <2>1, <2>3 DEF Reply
  <2> QED
    BY <1>22, <2>2, <2>3 DEF ReadSales
<1> QED
  BY <1>7, <1>8, <1>9, <1>10, <1>11, <1>12, <1>13, <1>14, <1>15, <1>16, <1>17,
     <1>18, <1>19, <1>20, <1>21, <1>22, <1>23, <1>24 DEF Step

\* For every set of quantities closed in that sense: behaviours start in it,
\* and no step leaves it.
LEMMA InitIn ==
  ASSUME NEW CONSTANT Q, Init
  PROVE  QuantitiesIn(Q)
  BY DEF Init, QuantitiesIn, TableIn, VectorIn, WorkersIn, WorkerIn, Binding

\* Every step, of a worker or not, keeps quantities in Q.
LEMMA NextIn ==
  ASSUME NEW CONSTANT Q, Closed(Q), TypeOK, QuantitiesIn(Q), [Next]_vars
  PROVE  QuantitiesIn(Q)'
<1>1. CASE \E w \in Workers : Step(w) \/ Arrival(w)
  BY <1>1, StepIn, ArrivalIn
<1>2. CASE OtherStatement
  BY <1>2 DEF OtherStatement, QuantitiesIn, TableIn, VectorIn, WorkersIn, database
<1>3. CASE Crash
  <2>1. WorkersIn(Q)'
    BY <1>3 DEF Crash, WorkersIn, WorkerIn, Binding
  <2>2. TableIn(Q)' /\ VectorIn(Q)'
    BY <1>3 DEF Crash, QuantitiesIn, TableIn, VectorIn, database
  <2> QED
    BY <2>1, <2>2 DEF QuantitiesIn
<1>4. CASE UNCHANGED vars
  BY <1>4 DEF vars, QuantitiesIn, TableIn, VectorIn, WorkersIn
<1> QED
  BY <1>1, <1>2, <1>3, <1>4 DEF Next

\* A stored quantity below zero is one that an edit entered: whatever numbers
\* clients enter and sell, signed or not, no race of sales and edits, no torn
\* row, no overflow of int, no failed statement and no restart makes another.
THEOREM OnlyEditsTakeStockBelowZero == Spec => []OnlyEditsGoBelowZero
<1> DEFINE Q == 0 .. IntMax \cup EditQuantities
<1>1. Closed(Q)
  <2>1. Q \subseteq Ints
    BY NumbersAssumption DEF Ints
  <2>2. \A q \in Q, n \in SaleQuantities : Wrap(q - n) \in Ints
    BY <2>1, WrapType, NumbersAssumption
  <2>3. \A q \in Q, n \in SaleQuantities : Wrap(q - n) >= 0 => Wrap(q - n) \in Q
    BY <2>2, NumbersAssumption DEF Ints
  <2>4. EditQuantities \subseteq Q /\ \A n \in AddQuantities : n >= 0 => n \in Q
    BY NumbersAssumption DEF Ints
  <2> QED
    BY <2>1, <2>3, <2>4 DEF Closed
<1>2. QuantitiesIn(Q) => OnlyEditsGoBelowZero
  BY NumbersAssumption DEF QuantitiesIn, TableIn, OnlyEditsGoBelowZero
<1>3. Init => QuantitiesIn(Q)
  BY InitIn
<1>4. TypeOK /\ QuantitiesIn(Q) /\ [Next]_vars => QuantitiesIn(Q)'
  BY <1>1, NextIn
<1> QED
  BY <1>2, <1>3, <1>4, TypeCorrect, PTL DEF Spec

-----------------------------------------------------------------------------
(* Owners. An INSERT writes the owner its request came with, so a request  *)
(* and the product it carries must agree until then.                       *)

OwnRequest(label, j) ==
  /\ label \in {"check", "push", "insert"} => j.op = "add_product" /\ j.item.owner = j.user
  /\ label = "delete" => j.op = "delete_product"

OwnRequests == \A w \in Workers : OwnRequest(pc[w], job[w])

\* A worker that goes on under the name it had keeps its product its own.
LEMMA ContinueOwn ==
  ASSUME TypeOK, OwnRequests, NEW w \in Workers, NEW label, NEW j,
         OwnRequest(label, j), Continue(w, label, j)
  PROVE  OwnRequests'
  BY DEF TypeOK, ControlOK, OwnRequests, OwnRequest, Continue

\* An idle worker has no product.
LEMMA RespondOwn ==
  ASSUME TypeOK, OwnRequests, NEW w \in Workers, NEW status, NEW shown,
         Respond(w, status, shown)
  PROVE  OwnRequests'
  BY DEF TypeOK, ControlOK, OwnRequests, OwnRequest, Respond

\* Nor has one that showed sales.
LEMMA ShowSalesOwn ==
  ASSUME TypeOK, OwnRequests, NEW w \in Workers, NEW rows, ShowSales(w, rows)
  PROVE  OwnRequests'
  BY DEF TypeOK, ControlOK, OwnRequests, OwnRequest, ShowSales

\* A request that is taken brings a product under its user's name.
LEMMA ArrivalOwn ==
  ASSUME TypeOK, OwnRequests, NEW w \in Workers, Arrival(w)
  PROVE  OwnRequests'
<1> USE DEF OwnRequest, Accept
<1>1. CASE AcceptSale(w)
  BY <1>1, ContinueOwn DEF AcceptSale
<1>2. CASE RefuseSale(w)
  BY <1>2 DEF RefuseSale, OwnRequests
<1>3. CASE AcceptProduct(w)
  BY <1>3, ContinueOwn DEF AcceptProduct, Request, Entered
<1>4. CASE AcceptUpdate(w)
  BY <1>4, ContinueOwn DEF AcceptUpdate
<1>5. CASE AcceptDelete(w)
  BY <1>5, ContinueOwn DEF AcceptDelete, Request
<1>6. CASE AcceptVoid(w) \/ AcceptList(w) \/ AcceptGet(w)
  BY <1>6, ContinueOwn DEF AcceptVoid, AcceptList, AcceptGet
<1>7. CASE AcceptLook(w)
  BY <1>7, ContinueOwn DEF AcceptLook
<1> QED
  BY <1>1, <1>2, <1>3, <1>4, <1>5, <1>6, <1>7 DEF Arrival

\* No step of a handler gives a worker a product under another name to add.
LEMMA StepOwn ==
  ASSUME TypeOK, OwnRequests, NEW w \in Workers, Step(w)
  PROVE  OwnRequests'
<1>1. OwnRequest(pc[w], job[w])
  BY DEF OwnRequests
<1>2. ASSUME NEW status, NEW shown, Respond(w, status, shown) PROVE OwnRequests'
  BY <1>2, RespondOwn
<1>3. ASSUME NEW label, NEW j, OwnRequest(label, j), Continue(w, label, j) PROVE OwnRequests'
  BY <1>3, ContinueOwn
<1> USE DEF OwnRequest, Reply
<1>4. CASE ClearVector(w) \/ LoadRow(w) \/ EndOfRows(w)
  BY <1>3, <1>4 DEF ClearVector, LoadRow, EndOfRows
<1>5. CASE SaleFindsNothing(w) \/ SaleIsShort(w)
  BY <1>2, <1>5 DEF SaleFindsNothing, SaleIsShort
<1>6. CASE TakeUnits(w)
  BY <1>3, <1>6 DEF TakeUnits
<1>13. CASE BindField(w)
  BY <1>3, <1>13 DEF BindField
<1>7. CASE UpdateProduct(w) \/ UpdateFails(w)
  BY <1>2, <1>3, <1>7 DEF UpdateProduct, UpdateFails
<1>8. CASE CheckChanges(w) \/ InsertSale(w) \/ ConfirmSale(w)
  BY <1>2, <1>3, <1>8 DEF CheckChanges, InsertSale, ConfirmSale
<1>9. CASE CheckProduct(w) \/ PushProduct(w)
  BY <1>1, <1>2, <1>3, <1>9 DEF CheckProduct, PushProduct
<1>10. CASE InsertProduct(w) \/ DeleteProduct(w) \/ DeleteSale(w)
  BY <1>2, <1>3, <1>10 DEF InsertProduct, DeleteProduct, DeleteSale
<1>11. CASE ReadVector(w)
  BY <1>2, <1>11 DEF ReadVector
<1>12. CASE ReadSales(w)
  BY <1>2, <1>12, ShowSalesOwn DEF ReadSales
<1> QED
  BY <1>4, <1>5, <1>6, <1>7, <1>8, <1>9, <1>10, <1>11, <1>12, <1>13 DEF Step

\* In every state.
LEMMA RequestsAreOwn == Spec => []OwnRequests
<1>1. Init => OwnRequests
  BY DEF Init, OwnRequests, OwnRequest
<1>2. TypeOK /\ OwnRequests /\ [Next]_vars => OwnRequests'
  <2> SUFFICES ASSUME TypeOK, OwnRequests, [Next]_vars PROVE OwnRequests'
    OBVIOUS
  <2>1. CASE \E w \in Workers : Step(w) \/ Arrival(w)
    BY <2>1, StepOwn, ArrivalOwn
  <2>2. CASE OtherStatement \/ UNCHANGED vars
    BY <2>2 DEF OtherStatement, vars, OwnRequests
  <2>3. CASE Crash
    BY <2>3 DEF Crash, OwnRequests, OwnRequest
  <2> QED
    BY <2>1, <2>2, <2>3 DEF Next
<1> QED
  BY <1>1, <1>2, TypeCorrect, PTL DEF Spec

\* The rows of an owner are written only under the owner's name, whatever
\* products of other owners the shared vector holds in between.
THEOREM OwnersKeepTheirRows == Spec => WritesStayWithOwner
<1>1. TypeOK /\ OwnRequests /\ [Next]_vars => [OwnerWrites]_vars
  <2> SUFFICES ASSUME TypeOK, OwnRequests, Next, products' # products
               PROVE  OwnerWrites
    BY DEF OwnerWrites, RowsOf
  <2>1. PICK w \in Workers : UpdateProduct(w) \/ InsertProduct(w) \/ DeleteProduct(w)
    <3>1. ASSUME NEW w \in Workers, Arrival(w) PROVE FALSE
      <4>1. \A label, j : ~Accept(w, label, j)
        BY DEF Accept, database
      <4>2. ~RefuseSale(w)
        BY DEF RefuseSale, database
      <4> QED
        BY <3>1, <4>1, <4>2 DEF Arrival, AcceptSale, AcceptProduct, AcceptUpdate,
           AcceptDelete, AcceptVoid, AcceptList, AcceptGet, AcceptLook
    <3>2. ~OtherStatement /\ ~Crash
      BY DEF OtherStatement, Crash, database
    <3>3. PICK w \in Workers : Step(w)
      BY <3>1, <3>2 DEF Next
    <3>4. ~(ClearVector(w) \/ LoadRow(w) \/ EndOfRows(w) \/ SaleFindsNothing(w)
             \/ SaleIsShort(w) \/ TakeUnits(w) \/ BindField(w) \/ UpdateFails(w))
      BY DEF ClearVector, LoadRow, EndOfRows, SaleFindsNothing, SaleIsShort,
         TakeUnits, BindField, UpdateFails, database
    <3>5. ~(CheckChanges(w) \/ InsertSale(w) \/ ConfirmSale(w) \/ CheckProduct(w)
             \/ PushProduct(w) \/ DeleteSale(w) \/ ReadVector(w) \/ ReadSales(w))
      BY DEF CheckChanges, InsertSale, ConfirmSale, CheckProduct, PushProduct, DeleteSale,
         ReadVector, ReadSales, database
    <3> QED
      BY <3>3, <3>4, <3>5 DEF Step
  <2>2. pc'[w] # pc[w] /\ pc[w] \in {"update", "insert", "delete"}
    BY <2>1 DEF UpdateProduct, InsertProduct, DeleteProduct, Continue, Reply, Respond,
       TypeOK, ControlOK
  <2>3. \A o \in Names : RowsOf(products', o) # RowsOf(products, o) => ActingAs(job[w]) = o
    <3>1. CASE UpdateProduct(w)
      <4>1. PICK p : LET hit == {r \in products : Updates(r, p.code, ActingAs(job[w]))}
                     IN products' = (products \ hit) \cup {Updated(r, p) : r \in hit}
        BY <3>1 DEF UpdateProduct
      <4>2. \A r \in products : Updated(r, p).owner = r.owner
        BY DEF Updated, TypeOK, DataOK, ProductRow
      <4> QED
        BY <4>1, <4>2 DEF RowsOf, Updates
    <3>2. CASE InsertProduct(w)
      BY <3>2 DEF InsertProduct, RowsOf, OwnRequests, OwnRequest, ActingAs,
         Lowercasing
    <3>3. CASE DeleteProduct(w)
      BY <3>3 DEF DeleteProduct, RowsOf, Updates, OwnRequests, OwnRequest, ActingAs,
         Lowercasing
    <3> QED
      BY <2>1, <3>1, <3>2, <3>3
  <2> QED
    BY <2>2, <2>3 DEF OwnerWrites
<1> QED
  BY <1>1, RequestsAreOwn, TypeCorrect, PTL DEF Spec, WritesStayWithOwner

-----------------------------------------------------------------------------
(* Answers. *)

\* A step of one worker does not move another.
LEMMA OthersStay ==
  ASSUME TypeOK, NEW v \in Workers, Step(v) \/ Arrival(v), NEW w \in Workers, w # v
  PROVE  pc'[w] = pc[w]
<1>1. \A label, j : Continue(v, label, j) => pc'[w] = pc[w]
  BY DEF Continue, TypeOK, ControlOK
<1>2. /\ \A status, shown : Respond(v, status, shown) => pc'[w] = pc[w]
      /\ \A status : Reply(v, status) => pc'[w] = pc[w]
      /\ \A rows : ShowSales(v, rows) => pc'[w] = pc[w]
  BY DEF Respond, Reply, ShowSales, TypeOK, ControlOK
<1>3. CASE Arrival(v)
  BY <1>1, <1>3 DEF Arrival, AcceptSale, RefuseSale, AcceptProduct, AcceptUpdate, AcceptDelete,
     AcceptVoid, AcceptList, AcceptGet, AcceptLook, Accept
<1>4. CASE ClearVector(v) \/ LoadRow(v) \/ EndOfRows(v) \/ SaleFindsNothing(v)
           \/ SaleIsShort(v) \/ TakeUnits(v) \/ UpdateProduct(v) \/ UpdateFails(v)
  BY <1>1, <1>2, <1>4 DEF ClearVector, LoadRow, EndOfRows, SaleFindsNothing,
     SaleIsShort, TakeUnits, UpdateProduct, UpdateFails
<1>5. CASE CheckChanges(v) \/ CheckProduct(v) \/ PushProduct(v) \/ InsertProduct(v)
  BY <1>1, <1>2, <1>5 DEF CheckChanges, CheckProduct, PushProduct, InsertProduct
<1>7. CASE BindField(v) \/ InsertSale(v) \/ ConfirmSale(v)
  BY <1>1, <1>2, <1>7 DEF BindField, InsertSale, ConfirmSale
<1>6. CASE DeleteProduct(v) \/ DeleteSale(v) \/ ReadVector(v) \/ ReadSales(v)
  BY <1>1, <1>2, <1>6 DEF DeleteProduct, DeleteSale, ReadVector, ReadSales
<1> QED
  BY <1>3, <1>4, <1>5, <1>6, <1>7 DEF Step

\* A worker answers in a step of its handler.
LEMMA AnswersInStep ==
  ASSUME TypeOK, [Next]_vars, NEW w \in Workers, NEW op, NEW status, Answers(w, op, status)
  PROVE  Step(w)
<1>1. pc[w] # "idle" /\ pc'[w] = "idle" /\ answer' # Null
  BY DEF Answers
<1>2. \A v \in Workers : Step(v) \/ Arrival(v) => v = w
  BY <1>1, OthersStay
<1>3. ~Arrival(w)
  BY <1>1 DEF Arrival, AcceptSale, RefuseSale, AcceptProduct, AcceptUpdate, AcceptDelete,
     AcceptVoid, AcceptList, AcceptGet, AcceptLook, Accept
<1>4. ~OtherStatement /\ ~Crash /\ ~UNCHANGED vars
  BY <1>1 DEF OtherStatement, Crash, vars
<1> QED
  BY <1>2, <1>3, <1>4 DEF Next

\* What a step of a handler that answers can be.
LEMMA AnsweringSteps ==
  ASSUME TypeOK, OwnRequests, NEW w \in Workers, Step(w), DiskFaults = FALSE, answer' # Null
  PROVE  \/ SaleFindsNothing(w) \/ SaleIsShort(w) \/ ConfirmSale(w)
         \/ ReadVector(w) \/ ReadSales(w) \/ CheckChanges(w)
         \/ pc[w] \in {"check", "insert"} /\ job[w].op = "add_product"
         \/ pc[w] = "delete" /\ job[w].op = "delete_product"
<1>1. \A label, j : ~Continue(w, label, j)
  BY DEF Continue
<1>2. OwnRequest(pc[w], job[w])
  BY DEF OwnRequests
<1>3. ~(ClearVector(w) \/ LoadRow(w) \/ EndOfRows(w) \/ TakeUnits(w) \/ UpdateProduct(w))
  BY <1>1 DEF ClearVector, LoadRow, EndOfRows, TakeUnits, UpdateProduct
<1>4. ~(UpdateFails(w) \/ PushProduct(w) \/ DeleteSale(w) \/ BindField(w) \/ InsertSale(w))
  BY <1>1 DEF UpdateFails, PushProduct, DeleteSale, BindField, InsertSale
<1>5. CASE CheckProduct(w) \/ InsertProduct(w) \/ DeleteProduct(w)
  BY <1>2, <1>5 DEF CheckProduct, InsertProduct, DeleteProduct, OwnRequest
<1> QED
  BY <1>3, <1>4, <1>5 DEF Step

-----------------------------------------------------------------------------
(* Rows of an owner and a code. *)

Group(rows, o, c) == {r \in rows : Updates(r, c, o)}

Oldest(rows, o, c) == {r \in Group(rows, o, c) : \A q \in Group(rows, o, c) : r.id <= q.id}

\* The rows after an UPDATE.
Rewritten(rows, o, c, p) ==
  (rows \ Group(rows, o, c)) \cup {Updated(r, p) : r \in Group(rows, o, c)}

StockIn(rows, p) ==
  IF Group(rows, p[1], p[2]) = {} THEN Null ELSE FirstOf(Group(rows, p[1], p[2])).quantity

\* Ids are given once, and every owner's rows of a code have a first one.
RowsOK(rows, last) ==
  /\ rows \subseteq ProductRow
  /\ \A r, s \in rows : r.id = s.id => r = s
  /\ \A r \in rows : 1 <= r.id /\ r.id <= last
  /\ \A o, c : Group(rows, o, c) # {} => Oldest(rows, o, c) # {}

\* The stock is that of the oldest row.
LEMMA StockIsOldest ==
  ASSUME NEW rows, NEW last, RowsOK(rows, last), NEW o, NEW c, NEW r \in Oldest(rows, o, c)
  PROVE  StockIn(rows, <<o, c>>) = r.quantity
<1> DEFINE S == Group(rows, o, c)
           P(q) == \A t \in S : q.id <= t.id
<1>1. r \in S /\ P(r) /\ \A q \in S : q.id \in Nat /\ \A t \in S : q.id = t.id => q = t
  BY DEF Oldest, Group, RowsOK, ProductRow
<1>2. FirstOf(S) = CHOOSE q \in S : P(q)
  BY DEF FirstOf
<1> HIDE DEF S
<1>3. FirstOf(S) \in S /\ P(FirstOf(S))
  BY <1>1, <1>2
<1>4. FirstOf(S) = r
  BY <1>1, <1>3
<1> QED
  BY <1>1, <1>4 DEF StockIn, S

\* Where no row is there is no stock; and a stock is a number or none.
LEMMA StockType ==
  ASSUME NEW rows, NEW last, RowsOK(rows, last), NEW o, NEW c
  PROVE  /\ Group(rows, o, c) = {} => StockIn(rows, <<o, c>>) = Null
         /\ StockIn(rows, <<o, c>>) \in Ints \cup {Null}
<1>1. Group(rows, o, c) = {} => StockIn(rows, <<o, c>>) = Null
  BY DEF StockIn
<1>2. ASSUME Group(rows, o, c) # {} PROVE StockIn(rows, <<o, c>>) \in Ints
  <2>1. PICK r : r \in Oldest(rows, o, c)
    BY <1>2 DEF RowsOK
  <2>2. r.quantity \in Ints
    BY <2>1 DEF Oldest, Group, RowsOK, ProductRow
  <2> QED
    BY <2>1, <2>2, StockIsOldest
<1> QED
  BY <1>1, <1>2

\* The fields of a row that is updated.
LEMMA UpdatedRow ==
  ASSUME NEW r \in ProductRow, NEW p \in Product
  PROVE  /\ Updated(r, p) \in ProductRow
         /\ Updated(r, p).id = r.id /\ Updated(r, p).owner = r.owner /\ Updated(r, p).code = r.code
         /\ Updated(r, p).quantity = p.quantity
BY DEF Updated, ProductRow, Product

\* An UPDATE of an owner's rows of a code makes their stock what it writes, if
\* there are any, and leaves other stocks alone.
LEMMA UpdateRows ==
  ASSUME NEW rows, NEW last, RowsOK(rows, last), NEW o, NEW c, NEW p \in Product, NEW next,
         next = Rewritten(rows, o, c, p)
  PROVE  /\ RowsOK(next, last)
         /\ \A a, b : <<a, b>> # <<o, c>> => Group(next, a, b) = Group(rows, a, b)
         /\ Group(rows, o, c) # {} => StockIn(next, <<o, c>>) = p.quantity
<1> USE DEF Rewritten
<1>1. \A r \in rows : r \in ProductRow
  BY DEF RowsOK
<1>2. \A r \in Group(rows, o, c) : /\ Updated(r, p) \in ProductRow /\ Updated(r, p).id = r.id
                                   /\ Updated(r, p).owner = o /\ Updated(r, p).code = c
                                   /\ Updated(r, p).quantity = p.quantity
  BY <1>1, UpdatedRow DEF Group, Updates
<1>3. Group(next, o, c) = {Updated(r, p) : r \in Group(rows, o, c)}
  BY <1>2 DEF Group, Updates
<1>4. ASSUME NEW a, NEW b, <<a, b>> # <<o, c>> PROVE Group(next, a, b) = Group(rows, a, b)
  <2>1. a # o \/ b # c
    BY <1>4
  <2> QED
    BY <1>2, <2>1 DEF Group, Updates
<1>5. \A r \in Oldest(rows, o, c) : Updated(r, p) \in Oldest(next, o, c)
  BY <1>2, <1>3 DEF Oldest
<1>6. RowsOK(next, last)
  <2>1. next \subseteq ProductRow /\ \A r \in next : 1 <= r.id /\ r.id <= last
    BY <1>1, <1>2 DEF RowsOK, Group
  <2>2. \A s \in next : \E r \in rows : /\ s.id = r.id
                                        /\ s = IF r \in Group(rows, o, c) THEN Updated(r, p) ELSE r
    BY <1>2 DEF Group
  <2>3. \A r, s \in next : r.id = s.id => r = s
    BY <2>2 DEF RowsOK
  <2>4. ASSUME NEW a, NEW b, Group(next, a, b) # {} PROVE Oldest(next, a, b) # {}
    <3>1. CASE <<a, b>> = <<o, c>>
      <4>1. a = o /\ b = c
        BY <3>1
      <4>2. Group(rows, o, c) # {}
        BY <1>3, <2>4, <4>1
      <4>3. Oldest(rows, o, c) # {}
        BY <4>2 DEF RowsOK
      <4> QED
        BY <1>5, <4>1, <4>3
    <3>2. CASE <<a, b>> # <<o, c>>
      <4>1. Group(next, a, b) = Group(rows, a, b)
        BY <1>4, <3>2
      <4>2. Oldest(next, a, b) = Oldest(rows, a, b)
        BY <4>1 DEF Oldest
      <4>3. Oldest(rows, a, b) # {}
        BY <2>4, <4>1 DEF RowsOK
      <4> QED
        BY <4>2, <4>3
    <3> QED
      BY <3>1, <3>2
  <2> QED
    BY <2>1, <2>3, <2>4 DEF RowsOK
<1>7. ASSUME Group(rows, o, c) # {} PROVE StockIn(next, <<o, c>>) = p.quantity
  <2>1. PICK r : r \in Oldest(rows, o, c)
    BY <1>7 DEF RowsOK
  <2>2. Updated(r, p) \in Oldest(next, o, c) /\ Updated(r, p).quantity = p.quantity
    BY <1>2, <1>5, <2>1 DEF Oldest
  <2> QED
    BY <1>6, <2>2, StockIsOldest
<1> QED
  BY <1>4, <1>6, <1>7

\* A row that is inserted comes last.
LEMMA InsertRow ==
  ASSUME NEW rows, NEW last \in Nat, RowsOK(rows, last), NEW n \in ProductRow, n.id = last + 1
  PROVE  /\ RowsOK(rows \cup {n}, last + 1)
         /\ \A a, b : <<a, b>> # <<n.owner, n.code>> =>
              Group(rows \cup {n}, a, b) = Group(rows, a, b)
<1> DEFINE next == rows \cup {n}
<1>1. \A r \in rows : r \in ProductRow /\ r.id \in Nat /\ 1 <= r.id /\ r.id <= last
  BY DEF RowsOK, ProductRow
<1>2. ASSUME NEW a, NEW b, <<a, b>> # <<n.owner, n.code>> PROVE Group(next, a, b) = Group(rows, a, b)
  <2>1. a # n.owner \/ b # n.code
    BY <1>2
  <2> QED
    BY <2>1 DEF Group, Updates
<1>3. next \subseteq ProductRow /\ \A r \in next : 1 <= r.id /\ r.id <= last + 1
  BY <1>1 DEF RowsOK
<1>4. \A r, s \in next : r.id = s.id => r = s
  BY <1>1 DEF RowsOK
<1>5. ASSUME NEW a, NEW b, Group(next, a, b) # {} PROVE Oldest(next, a, b) # {}
  <2>1. CASE Group(rows, a, b) = {}
    <3>1. Group(next, a, b) = {n}
      BY <1>5, <2>1 DEF Group
    <3> QED
      BY <1>3, <3>1 DEF Oldest, ProductRow
  <2>2. CASE Group(rows, a, b) # {}
    <3>1. PICK r : r \in Oldest(rows, a, b)
      BY <2>2 DEF RowsOK
    <3>2. r \in Oldest(next, a, b)
      BY <1>1, <3>1 DEF Oldest, Group
    <3> QED
      BY <3>2
  <2> QED
    BY <2>1, <2>2
<1> QED
  BY <1>2, <1>3, <1>4, <1>5 DEF RowsOK

\* A DELETE takes all of an owner's rows of a code.
LEMMA DeleteRows ==
  ASSUME NEW rows, NEW last, RowsOK(rows, last), NEW o, NEW c
  PROVE  /\ RowsOK(rows \ Group(rows, o, c), last)
         /\ \A a, b : <<a, b>> # <<o, c>> =>
              Group(rows \ Group(rows, o, c), a, b) = Group(rows, a, b)
<1> DEFINE next == rows \ Group(rows, o, c)
<1>1. ASSUME NEW a, NEW b, <<a, b>> # <<o, c>> PROVE Group(next, a, b) = Group(rows, a, b)
  <2>1. a # o \/ b # c
    BY <1>1
  <2> QED
    BY <2>1 DEF Group, Updates
<1>2. ASSUME NEW a, NEW b, Group(next, a, b) # {} PROVE Oldest(next, a, b) # {}
  <2>1. Group(next, o, c) = {}
    BY DEF Group
  <2>2. <<a, b>> # <<o, c>>
    <3>1. a # o \/ b # c
      BY <1>2, <2>1
    <3> QED
      BY <3>1
  <2>3. Group(next, a, b) = Group(rows, a, b)
    BY <1>1, <2>2
  <2>4. Oldest(next, a, b) = Oldest(rows, a, b)
    BY <2>3 DEF Oldest
  <2>5. Oldest(rows, a, b) # {}
    BY <1>2, <2>3 DEF RowsOK
  <2> QED
    BY <2>4, <2>5
<1>3. next \subseteq ProductRow /\ \A r \in next : 1 <= r.id /\ r.id <= last
  BY DEF RowsOK
<1>4. \A r, s \in next : r.id = s.id => r = s
  BY DEF RowsOK
<1> QED
  BY <1>1, <1>2, <1>3, <1>4 DEF RowsOK
-----------------------------------------------------------------------------
(* One thread. What a scan has put in the vector is the oldest rows of the  *)
(* codes it met, and a sale in hand was computed from such a row.          *)

Loaded(j) ==
  /\ \A c \in Codes : \A i \in FirstHit({c}) :
       \E r \in Oldest(products, Scope(j), c) : vec[i] = ReadRow(r)
  /\ \A r \in products : r.owner = Scope(j) /\ r.id <= j.cursor =>
       \E i \in DOMAIN vec : vec[i].code = r.code

\* The product a sale writes: of its own code, and what its units leave of the
\* stock as it is.
TakenFrom(j) ==
  /\ j.item.code = j.code
  /\ j.item.quantity >= 0
  /\ j.at \in DOMAIN vec => vec[j.at] = j.item
  /\ \E r \in Oldest(products, ActingAs(j), j.code) : j.item.quantity = r.quantity - j.units

HandOK(label, j) ==
  /\ label = "clear" => j.cursor = 0
  /\ label = "void" => j.op # "add_sale"
  /\ label = "load" => Loaded(j)
  /\ label = "find" => /\ j.op = "add_sale"
                       /\ \A i \in FirstHit({j.code}) :
                            \E r \in Oldest(products, Scope(j), j.code) : vec[i] = ReadRow(r)
  /\ label \in Binding \cup {"update"} /\ j.op = "add_sale" => TakenFrom(j)
  /\ label \notin {"idle", "warn"} /\ j.op = "add_sale" => lastSale < MaxSales

\* Rows hold no quantity below zero, if no edit enters one.
NonNegative == \A r \in products : r.quantity >= 0

SalesOK ==
  /\ \A s, t \in sales : s.id = t.id => s = t
  /\ \A s \in sales : s.id <= lastSale

ShopInv ==
  /\ RowsOK(products, lastProduct)
  /\ SalesOK
  /\ \A w \in Workers : HandOK(pc[w], job[w])

\* The thread goes on with what its next step needs.
LEMMA ContinueHand ==
  ASSUME TypeOK, NEW w, Workers = {w}, NEW label, NEW j, Continue(w, label, j), HandOK(label, j)',
         RowsOK(products', lastProduct'), SalesOK'
  PROVE  ShopInv'
<1>1. pc'[w] = label /\ job'[w] = j
  BY DEF Continue, TypeOK, ControlOK
<1>2. HandOK(pc[w], job[w])'
  BY <1>1 DEF HandOK, Loaded, TakenFrom, FirstHit
<1> QED
  BY <1>2 DEF ShopInv

\* Or is idle.
LEMMA IdleHand ==
  ASSUME NEW w, Workers = {w}, pc'[w] = "idle", RowsOK(products', lastProduct'), SalesOK'
  PROVE  ShopInv'
<1>1. HandOK(pc[w], job[w])'
  BY DEF HandOK, Binding
<1> QED
  BY <1>1 DEF ShopInv

\* An answer leaves the thread idle.
LEMMA AnswersIdle ==
  ASSUME TypeOK, NEW w \in Workers
  PROVE  /\ \A status, shown : Respond(w, status, shown) => pc'[w] = "idle"
         /\ \A status : Reply(w, status) => pc'[w] = "idle"
         /\ \A rows : ShowSales(w, rows) => pc'[w] = "idle"
BY DEF TypeOK, ControlOK, Respond, Reply, ShowSales

\* Sales are asked for while there are ids left.
LEMMA ArrivalHand ==
  ASSUME TypeOK, ShopInv, NEW w, Workers = {w}, Arrival(w)
  PROVE  ShopInv'
<1>1. UNCHANGED database /\ RowsOK(products', lastProduct') /\ SalesOK'
  <2>1. UNCHANGED database
    BY DEF Arrival, AcceptSale, RefuseSale, AcceptProduct, AcceptUpdate, AcceptDelete,
       AcceptVoid, AcceptList, AcceptGet, AcceptLook, Accept
  <2> QED
    BY <2>1 DEF database, ShopInv, SalesOK
<1>2. ASSUME NEW label \in {"clear", "check", "update", "delete", "void", "look"}, NEW j,
             Accept(w, label, j), label = "clear" => j.cursor = 0,
             IF j.op = "add_sale" THEN lastSale < MaxSales /\ label = "clear" ELSE TRUE
      PROVE  ShopInv'
  <2>1. HandOK(label, j)'
    BY <1>1, <1>2 DEF HandOK, Binding, database
  <2> QED
    BY <1>1, <1>2, <2>1, ContinueHand DEF Accept
<1>3. CASE AcceptSale(w)
  <2>1. pc[w] = "idle" /\ lastSale < MaxSales
    <3> DEFINE selling == {v \in Working("add_sale") : pc[v] # "warn"}
    <3>1. pc[w] = "idle" /\ Cardinality(selling) + lastSale < MaxSales
      BY <1>3 DEF AcceptSale, Accept
    <3>2. selling = {}
      BY <3>1 DEF Working
    <3>3. Cardinality(selling) = 0
      BY <3>2, FS_EmptySet
    <3> QED
      BY <3>1, <3>3 DEF TypeOK, DataOK
  <2>2. PICK u \in Users, c \in Codes, n \in SaleQuantities, k \in Customers, m \in Months :
          Accept(w, "clear", [Request("add_sale", u, c) EXCEPT
                                !.units = n, !.customer = k, !.month = m])
    BY <1>3 DEF AcceptSale
  <2>3. [Request("add_sale", u, c) EXCEPT !.units = n, !.customer = k, !.month = m].cursor = 0
    BY DEF Request
  <2> QED
    BY <1>2, <2>1, <2>2, <2>3
<1>4. CASE RefuseSale(w)
  <2>1. pc'[w] = "idle"
    BY <1>4 DEF RefuseSale
  <2> QED
    BY <1>1, <2>1, IdleHand
<1>5. CASE AcceptProduct(w)
  <2>1. PICK u, c, p :
          Accept(w, "check", [Request("add_product", u, c) EXCEPT !.item = p])
    BY <1>5 DEF AcceptProduct
  <2>2. [Request("add_product", u, c) EXCEPT !.item = p].op = "add_product"
    BY DEF Request
  <2> QED
    BY <1>2, <2>1, <2>2
<1>6. CASE AcceptUpdate(w)
  <2>1. PICK u, c, p :
          Accept(w, "update", [Request("update_product", u, c) EXCEPT !.item = p])
    BY <1>6 DEF AcceptUpdate
  <2>2. [Request("update_product", u, c) EXCEPT !.item = p].op = "update_product"
    BY DEF Request
  <2> QED
    BY <1>2, <2>1, <2>2
<1>7. CASE AcceptDelete(w) \/ AcceptList(w)
  <2>1. \A o, u, c : Request(o, u, c).op = o /\ Request(o, u, c).cursor = 0
    BY DEF Request
  <2> QED
    BY <1>2, <1>7, <2>1 DEF AcceptDelete, AcceptList
<1>8. CASE AcceptVoid(w)
  <2>1. \A u, s : [Request("delete_sale", u, Null) EXCEPT !.sale = s].op = "delete_sale"
    BY DEF Request
  <2> QED
    BY <1>2, <1>8, <2>1 DEF AcceptVoid
<1>9. CASE AcceptGet(w)
  <2>1. \A u, q : /\ [Request("get_product", u, Null) EXCEPT !.query = q].op = "get_product"
                  /\ [Request("get_product", u, Null) EXCEPT !.query = q].cursor = 0
    BY DEF Request
  <2> QED
    BY <1>2, <1>9, <2>1 DEF AcceptGet
<1>10. CASE AcceptLook(w)
  <2>1. \A u, s, m : /\ Request("list_sales", u, Null).op = "list_sales"
                     /\ [Request("get_sale", u, Null) EXCEPT !.sale = s].op = "get_sale"
                     /\ [Request("report", u, Null) EXCEPT !.month = m].op = "report"
    BY DEF Request
  <2> QED
    BY <1>2, <1>10, <2>1 DEF AcceptLook
<1> QED
  BY <1>3, <1>4, <1>5, <1>6, <1>7, <1>8, <1>9, <1>10 DEF Arrival
\* A scan goes on with the next row, the oldest one not met yet.
LEMMA LoadHand ==
  ASSUME TypeOK, ShopInv, NEW w, Workers = {w}, Users \subseteq Managers, LoadRow(w)
  PROVE  ShopInv'
<1> DEFINE j == job[w]
<1>1. /\ pc[w] = "load" /\ j \in Job /\ Scope(j) = ActingAs(j) /\ Loaded(j)
      /\ UNCHANGED <<products, lastProduct, sales, lastSale>>
  BY DEF LoadRow, TypeOK, ControlOK, WellFormed, ShopInv, HandOK, Scope, Job, database
<1>2. PICK r \in Ahead(j) :
        /\ \A q \in Ahead(j) : r.id <= q.id
        /\ PushBack(w, ReadRow(r))
        /\ Continue(w, "load", [j EXCEPT !.cursor = r.id])
  BY DEF LoadRow
<1>3. vec' = Append(vec, ReadRow(r))
  BY <1>2 DEF PushBack, Contended
<1>0. PICK k : k = [j EXCEPT !.cursor = r.id]
  OBVIOUS
<1> DEFINE o == Scope(j)
           len == Len(vec)
<1>4. k \in Job /\ Scope(k) = o /\ k.cursor = r.id /\ k.op = j.op
  <2>1. r \in ProductRow
    BY <1>2 DEF Ahead, TypeOK, DataOK
  <2> QED
    BY <1>0, <1>1, <2>1 DEF Job, ProductRow, Scope, ActingAs
<1>5. /\ len \in Nat /\ DOMAIN vec = 1 .. len /\ DOMAIN vec' = 1 .. len + 1
      /\ vec'[len + 1] = ReadRow(r) /\ \A i \in 1 .. len : vec'[i] = vec[i]
  <2>1. vec \in Seq(Product) /\ ReadRow(r) \in Product
    BY <1>2, ReadRowType DEF Ahead, TypeOK, DataOK
  <2> QED
    BY <1>3, <2>1
<1>6. /\ r \in products /\ r.owner = o /\ j.cursor \in Nat /\ \A q \in products : q.id \in Nat
      /\ \A q \in products : q.owner = o => q.id <= j.cursor \/ r.id <= q.id
      /\ \A q \in products : q.id = r.id => q = r
  BY <1>1, <1>2 DEF Ahead, TypeOK, DataOK, ProductRow, Job, ShopInv, RowsOK
<1>7. ReadRow(r).code = r.code
  BY DEF ReadRow
<1> HIDE DEF o, len
<1>8. \A q \in products : q.owner = o /\ q.id <= r.id => \E i \in DOMAIN vec' : vec'[i].code = q.code
  <2> SUFFICES ASSUME NEW q \in products, q.owner = o, q.id <= r.id
               PROVE  \E i \in 1 .. len + 1 : vec'[i].code = q.code
    BY <1>5
  <2>1. CASE q.id <= j.cursor
    <3>1. PICK i \in 1 .. len : vec[i].code = q.code
      BY <1>1, <1>5, <2>1 DEF Loaded, o
    <3> QED
      BY <1>5, <3>1
  <2>2. CASE ~(q.id <= j.cursor)
    <3>1. q = r
      BY <1>6, <2>2
    <3> QED
      BY <1>5, <1>7, <3>1
  <2> QED
    BY <2>1, <2>2
<1>9. ASSUME NEW c \in Codes, NEW i \in FirstHit({c})'
      PROVE  \E q \in Oldest(products, o, c) : vec'[i] = ReadRow(q)
  <2>1. /\ i \in 1 .. len + 1 /\ vec'[i].code = c
        /\ \A m \in 1 .. i - 1 : vec'[m].code # c
    BY <1>5, <1>9 DEF FirstHit
  <2>2. CASE i \in 1 .. len
    <3>1. i \in FirstHit({c})
      BY <1>5, <2>1, <2>2 DEF FirstHit
    <3> QED
      BY <1>1, <1>5, <2>2, <3>1 DEF Loaded, o
  <2>3. CASE i = len + 1
    <3>1. r.code = c
      BY <1>5, <1>7, <2>1, <2>3
    <3>2. \A m \in 1 .. len : vec[m].code # c
      BY <1>5, <2>1, <2>3
    <3>3. \A q \in products : q.owner = o /\ q.code = c => r.id <= q.id
      BY <1>1, <1>5, <1>6, <3>2 DEF Loaded, o
    <3>4. r \in Oldest(products, o, c)
      BY <1>6, <3>1, <3>3 DEF Oldest, Group, Updates
    <3> QED
      BY <1>5, <2>3, <3>4
  <2> QED
    BY <1>5, <2>1, <2>2, <2>3
<1>10. Loaded(k)'
  BY <1>1, <1>4, <1>8, <1>9 DEF Loaded
<1>11. HandOK("load", k)'
  <2>1. j.op = "add_sale" => lastSale < MaxSales
    BY <1>1 DEF ShopInv, HandOK
  <2> QED
    BY <1>1, <1>4, <1>10, <2>1 DEF HandOK, Binding
<1>12. Continue(w, "load", k)
  BY <1>0, <1>2
<1> QED
  BY <1>1, <1>11, <1>12, ContinueHand DEF ShopInv, SalesOK

\* A sale takes its units from the oldest row, as the table has it.
LEMMA TakeHand ==
  ASSUME TypeOK, NonNegative, ShopInv, NEW w, Workers = {w}, Users \subseteq Managers,
         TakeUnits(w)
  PROVE  ShopInv'
<1> DEFINE j == job[w]
<1>1. /\ pc[w] = "find" /\ j \in Job /\ Scope(j) = ActingAs(j) /\ j.op = "add_sale"
      /\ UNCHANGED <<products, lastProduct, sales, lastSale>> /\ lastSale < MaxSales
      /\ \A i \in FirstHit({j.code}) :
           \E r \in Oldest(products, ActingAs(j), j.code) : vec[i] = ReadRow(r)
  BY DEF TakeUnits, TypeOK, ControlOK, WellFormed, ShopInv, HandOK, Scope, Job, database
<1>2. PICK i \in FirstHit({j.code}) :
        LET left == NewQuantity(vec[i], j.units)
            slot == [vec[i] EXCEPT !.quantity = left]
        IN /\ ~Insufficient(left)
           /\ vec' = [vec EXCEPT ![i] = slot]
           /\ Continue(w, "bind details", [j EXCEPT !.at = i, !.item = slot, !.left = left])
  BY DEF TakeUnits
<1> DEFINE left == NewQuantity(vec[i], j.units)
           slot == [vec[i] EXCEPT !.quantity = left]
<1>0. PICK k : k = [j EXCEPT !.at = i, !.item = slot, !.left = left]
  OBVIOUS
<1>3. PICK r \in Oldest(products, ActingAs(j), j.code) : vec[i] = ReadRow(r)
  BY <1>1
<1>4. i \in DOMAIN vec /\ vec[i] \in Product /\ vec[i].code = j.code /\ i \in Nat
  BY DEF FirstHit, TypeOK, DataOK
<1>5. vec[i].quantity = r.quantity /\ r.quantity \in Ints /\ r.quantity >= 0 /\ j.units \in Ints
  BY <1>1, <1>3 DEF ReadRow, Oldest, Group, TypeOK, DataOK, ProductRow, NonNegative, Job
<1>6. left \in Ints /\ left = r.quantity - j.units /\ left >= 0
  <2>1. left = Wrap(r.quantity - j.units) /\ ~(left < 0)
    BY <1>2, <1>5 DEF NewQuantity, Insufficient
  <2>2. left \in Ints
    BY <1>5, <2>1, WrapType
  <2>3. r.quantity - j.units <= 2 * IntMax + 1 /\ r.quantity - j.units >= -IntMax
    BY <1>5, NumbersAssumption DEF Ints
  <2> QED
    BY <1>5, <2>1, <2>2, <2>3, NumbersAssumption DEF Wrap, Ints
<1> HIDE DEF left
<1>7. slot \in Product /\ slot.quantity = left /\ slot.code = j.code
  BY <1>4, <1>6 DEF Product
<1>8. vec' = [vec EXCEPT ![i] = slot] /\ Continue(w, "bind details", k)
  BY <1>0, <1>2 DEF left
<1> HIDE DEF slot
<1>9. /\ k \in Job /\ k.op = j.op /\ k.item = slot /\ k.at = i /\ k.code = j.code
      /\ k.units = j.units /\ ActingAs(k) = ActingAs(j)
  BY <1>0, <1>1, <1>4, <1>6, <1>7 DEF Job, ActingAs
<1>10. vec'[i] = slot
  BY <1>4, <1>8
<1>11. \E q \in Oldest(products, ActingAs(k), k.code) : k.item.quantity = q.quantity - k.units
  BY <1>3, <1>6, <1>7, <1>9
<1>12. TakenFrom(k)'
  BY <1>1, <1>6, <1>7, <1>9, <1>10, <1>11 DEF TakenFrom
<1>13. HandOK("bind details", k)'
  BY <1>1, <1>9, <1>12 DEF HandOK, Binding
<1> QED
  BY <1>1, <1>8, <1>13, ContinueHand DEF ShopInv, SalesOK

\* One thread binds every field from what its sale left in the slot.
LEMMA BindHand ==
  ASSUME TypeOK, ShopInv, NEW w, Workers = {w}, BindField(w)
  PROVE  ShopInv'
<1> DEFINE j == job[w]
<1>1. /\ pc[w] \in Binding /\ j \in Job /\ j.op = "add_sale" /\ j.item \in Product
      /\ TakenFrom(j) /\ lastSale < MaxSales
      /\ UNCHANGED <<products, lastProduct, sales, lastSale, vec>>
  BY DEF BindField, TypeOK, ControlOK, WellFormed, ShopInv, HandOK, Binding, database
<1>2. Referred(w) = {j.item}
  BY <1>1 DEF TakenFrom, Referred
<1>3. /\ [j.item EXCEPT !.details = j.item.details] = j.item
      /\ [j.item EXCEPT !.quantity = j.item.quantity] = j.item
      /\ [j.item EXCEPT !.alert = j.item.alert] = j.item
      /\ [j.item EXCEPT !.code = j.item.code] = j.item
      /\ [j EXCEPT !.item = j.item] = j
  BY <1>1 DEF Product, Job
<1>4. PICK label \in {"bind quantity", "bind alert", "bind code", "update"} :
        Continue(w, label, j)
  BY <1>2, <1>3 DEF BindField
<1>5. PICK k : k = j
  OBVIOUS
<1>6. HandOK(label, k)'
  BY <1>1, <1>5 DEF HandOK, TakenFrom
<1>7. RowsOK(products', lastProduct') /\ SalesOK'
  BY <1>1 DEF ShopInv, SalesOK
<1> QED
  BY <1>4, <1>5, <1>6, <1>7, ContinueHand

\* Steps that end a request or that leave the tables as they are.
LEMMA QuietHand ==
  ASSUME TypeOK, ShopInv, NEW w, Workers = {w}, Users \subseteq Managers,
         \/ ClearVector(w) \/ EndOfRows(w) \/ SaleFindsNothing(w) \/ SaleIsShort(w)
         \/ UpdateFails(w) \/ CheckChanges(w) \/ CheckProduct(w) \/ PushProduct(w)
         \/ ReadVector(w) \/ ReadSales(w) \/ ConfirmSale(w)
  PROVE  ShopInv'
<1> DEFINE j == job[w]
<1>1. UNCHANGED database /\ RowsOK(products', lastProduct') /\ SalesOK'
  <2>1. UNCHANGED database
    BY DEF ClearVector, EndOfRows, SaleFindsNothing, SaleIsShort, UpdateFails, CheckChanges,
       CheckProduct, PushProduct, ReadVector, ReadSales, ConfirmSale
  <2> QED
    BY <2>1 DEF database, ShopInv, SalesOK
<1>2. HandOK(pc[w], j) /\ (pc[w] # "idle" => WellFormed(pc[w], j))
  BY DEF ShopInv, TypeOK, ControlOK
<1>3. CASE \/ SaleFindsNothing(w) \/ SaleIsShort(w) \/ UpdateFails(w) \/ ReadVector(w)
           \/ ReadSales(w) \/ ConfirmSale(w)
  BY <1>1, <1>3, AnswersIdle, IdleHand
     DEF SaleFindsNothing, SaleIsShort, UpdateFails, ReadVector, ReadSales, ConfirmSale
<1>4. CASE ClearVector(w)
  <2>1. j.cursor = 0 /\ Continue(w, "load", j) /\ vec' = <<>>
        /\ (j.op = "add_sale" => lastSale < MaxSales)
    BY <1>2, <1>4 DEF ClearVector, HandOK
  <2>2. \A r \in products : r.id \in Nat /\ 1 <= r.id
    BY DEF ShopInv, RowsOK, ProductRow
  <2>3. DOMAIN vec' = {}
    BY <2>1
  <2>4. PICK k : k = j
    OBVIOUS
  <2>5. Loaded(k)'
    BY <1>1, <2>1, <2>2, <2>3, <2>4 DEF Loaded, FirstHit, database
  <2>6. HandOK("load", k)'
    BY <1>1, <2>1, <2>4, <2>5 DEF HandOK, Binding, database
  <2> QED
    BY <1>1, <2>1, <2>4, <2>6, ContinueHand
<1>5. CASE EndOfRows(w)
  <2>1. /\ Loaded(j) /\ vec' = vec /\ j \in Job
        /\ (j.op = "add_sale" => j.code \in Codes /\ lastSale < MaxSales)
    BY <1>2, <1>5 DEF EndOfRows, HandOK, WellFormed
  <2>2. PICK k : k = [j EXCEPT !.cursor = 0]
    OBVIOUS
  <2>3. k.op = j.op /\ k.code = j.code /\ Scope(k) = Scope(j)
    BY <2>1, <2>2 DEF Job, Scope, ActingAs
  <2>4. PICK label : label = IF k.op = "add_sale" THEN "find" ELSE "read"
    OBVIOUS
  <2>5. HandOK(label, k)'
    BY <1>1, <2>1, <2>3, <2>4 DEF HandOK, Binding, Loaded, FirstHit, database
  <2> QED
    BY <1>1, <1>5, <2>2, <2>3, <2>4, <2>5, ContinueHand DEF EndOfRows
<1>6. CASE CheckChanges(w)
  <2>1. PICK k : k = j
    OBVIOUS
  <2>2. HandOK("record", k)'
    BY <1>1, <1>2, <1>6, <2>1 DEF CheckChanges, HandOK, Binding, database
  <2> QED
    BY <1>1, <1>6, <2>1, <2>2, AnswersIdle, IdleHand, ContinueHand DEF CheckChanges
<1>7. CASE CheckProduct(w)
  <2>1. PICK k : k = j
    OBVIOUS
  <2>2. HandOK("push", k)'
    BY <1>1, <1>2, <1>7, <2>1 DEF CheckProduct, HandOK, Binding, database
  <2> QED
    BY <1>1, <1>7, <2>1, <2>2, AnswersIdle, IdleHand, ContinueHand DEF CheckProduct
<1>8. CASE PushProduct(w)
  <2>1. PICK k : k = j
    OBVIOUS
  <2>2. HandOK("insert", k)'
    BY <1>1, <1>2, <1>8, <2>1 DEF PushProduct, HandOK, Binding, database
  <2> QED
    BY <1>1, <1>8, <2>1, <2>2, ContinueHand DEF PushProduct
<1> QED
  BY <1>3, <1>4, <1>5, <1>6, <1>7, <1>8

\* The UPDATE hits the rows of the owner its worker acts for.
LEMMA UpdateIs ==
  ASSUME TypeOK, NEW w \in Workers, UpdateProduct(w)
  PROVE  LET j == job[w]
             o == ActingAs(j)
             c == j.item.code
         IN /\ j.item \in Product
            /\ products' = Rewritten(products, o, c, j.item)
            /\ changed' = (Group(products, o, c) # {})
            /\ Continue(w, "changes", j)
            /\ UNCHANGED <<lastProduct, sales, lastSale>>
<1>1. job[w].item \in Product
  BY DEF UpdateProduct, TypeOK, ControlOK, WellFormed
<1>2. /\ products' = Rewritten(products, ActingAs(job[w]), job[w].item.code, job[w].item)
      /\ changed' = (Group(products, ActingAs(job[w]), job[w].item.code) # {})
  BY DEF UpdateProduct, Rewritten, Group
<1> QED
  BY <1>1, <1>2 DEF UpdateProduct

\* Steps that write.
LEMMA WriteHand ==
  ASSUME TypeOK, ShopInv, NEW w, Workers = {w},
         \/ UpdateProduct(w) \/ InsertProduct(w) \/ DeleteProduct(w)
         \/ InsertSale(w) \/ DeleteSale(w)
  PROVE  ShopInv'
<1> DEFINE j == job[w]
<1>1. /\ RowsOK(products, lastProduct) /\ SalesOK /\ HandOK(pc[w], j)
      /\ lastProduct \in Nat /\ lastSale \in Nat
      /\ pc[w] # "idle" => WellFormed(pc[w], j)
  BY DEF ShopInv, TypeOK, ControlOK, DataOK
<1>2. CASE UpdateProduct(w)
  <2>1. RowsOK(products', lastProduct')
    <3>1. PICK o, c, p : o = ActingAs(j) /\ c = j.item.code /\ p = j.item
      OBVIOUS
    <3>2. /\ p \in Product /\ lastProduct' = lastProduct
          /\ products' = Rewritten(products, o, c, p)
      BY <1>2, <3>1, UpdateIs
    <3> QED
      BY <1>1, <3>2, UpdateRows
  <2>2. /\ SalesOK' /\ UNCHANGED lastSale /\ Continue(w, "changes", j)
        /\ (j.op = "add_sale" => lastSale < MaxSales)
    BY <1>1, <1>2 DEF UpdateProduct, SalesOK, HandOK
  <2>3. PICK k : k = j
    OBVIOUS
  <2>4. HandOK("changes", k)'
    BY <2>2, <2>3 DEF HandOK, Binding
  <2> QED
    BY <2>1, <2>2, <2>3, <2>4, ContinueHand
<1>3. CASE InsertProduct(w)
  <2>1. j.item \in Product
    BY <1>1, <1>3 DEF InsertProduct, WellFormed
  <2> DEFINE n == [id |-> lastProduct + 1, owner |-> j.item.owner, code |-> j.item.code,
                   details |-> j.item.details, quantity |-> j.item.quantity,
                   alert |-> j.item.alert]
  <2>2. n \in ProductRow /\ n.id = lastProduct + 1
    BY <1>1, <2>1 DEF Product, ProductRow
  <2>3. RowsOK(products \cup {n}, lastProduct + 1)
    BY <1>1, <2>2, InsertRow
  <2>4. RowsOK(products', lastProduct') /\ SalesOK' /\ pc'[w] = "idle"
    BY <1>1, <1>3, <2>3, AnswersIdle DEF InsertProduct, SalesOK
  <2> QED
    BY <2>4, IdleHand
<1>4. CASE DeleteProduct(w)
  <2>1. RowsOK(products', lastProduct')
    BY <1>1, <1>4, DeleteRows DEF DeleteProduct, Group
  <2>2. SalesOK' /\ pc'[w] = "idle"
    BY <1>1, <1>4, AnswersIdle DEF DeleteProduct, SalesOK
  <2> QED
    BY <2>1, <2>2, IdleHand
<1>5. CASE InsertSale(w)
  <2>1. SaleOf(j).id = lastSale + 1
    BY DEF SaleOf
  <2>2. \A s \in sales : s.id \in Nat
    BY DEF TypeOK, DataOK, Sale
  <2>3. SalesOK'
    BY <1>1, <1>5, <2>1, <2>2 DEF InsertSale, SalesOK
  <2>4. PICK k : k = j
    OBVIOUS
  <2>5. HandOK("warn", k)'
    BY DEF HandOK, Binding
  <2> QED
    BY <1>1, <1>5, <2>3, <2>4, <2>5, ContinueHand DEF InsertSale
<1>6. CASE DeleteSale(w)
  <2>1. SalesOK' /\ UNCHANGED <<products, lastProduct, lastSale>>
    BY <1>1, <1>6 DEF DeleteSale, SalesOK
  <2>2. PICK k : k = j
    OBVIOUS
  <2>3. HandOK("changes", k)'
    BY <1>1, <1>6, <2>1, <2>2 DEF DeleteSale, HandOK, Binding
  <2> QED
    BY <1>1, <1>6, <2>1, <2>2, <2>3, AnswersIdle, IdleHand, ContinueHand DEF DeleteSale
<1> QED
  BY <1>2, <1>3, <1>4, <1>5, <1>6

\* Every step of the one thread.
LEMMA NextHand ==
  ASSUME TypeOK, NonNegative, ShopInv, NEW w, Workers = {w}, Users \subseteq Managers,
         [Next]_vars
  PROVE  ShopInv'
<1>1. CASE Step(w)
  BY <1>1, LoadHand, TakeHand, BindHand, QuietHand, WriteHand DEF Step
<1>2. CASE Arrival(w)
  BY <1>2, ArrivalHand
<1>3. ~OtherStatement
  BY DEF OtherStatement
<1>4. CASE Crash
  <2>1. RowsOK(products', lastProduct') /\ SalesOK' /\ pc'[w] = "idle"
    BY <1>4 DEF Crash, database, ShopInv, SalesOK
  <2> QED
    BY <2>1, IdleHand
<1>5. CASE UNCHANGED vars
  BY <1>5 DEF vars, ShopInv, SalesOK, HandOK, Loaded, TakenFrom, FirstHit
<1> QED
  BY <1>1, <1>2, <1>3, <1>4, <1>5 DEF Next

-----------------------------------------------------------------------------
(* The state of the shop. *)

Stock == [p \in Names \X Codes |-> StockIn(products, p)]

\* A sale as the ledger has it.
Line(s) == [id |-> s.id, owner |-> s.owner, code |-> s.code, units |-> s.quantity]

\* The sale the one thread owes, if it owes one.
Owed(w) ==
  IF Owing(w)
  THEN [owner |-> ActingAs(job[w]), code |-> job[w].code, units |-> job[w].units]
  ELSE Null

\* What is due is that.
LEMMA DueIs ==
  ASSUME NEW w, Workers = {w}
  PROVE  Due = Owed(w) /\ Due' = Owed(w)'
<1>1. (\E v \in Workers : Owing(v)) <=> Owing(w)
  OBVIOUS
<1>2. Owing(w) => (CHOOSE v \in Workers : Owing(v)) = w
  OBVIOUS
<1>3. (\E v \in Workers : Owing(v)') <=> Owing(w)'
  OBVIOUS
<1>4. Owing(w)' => (CHOOSE v \in Workers : Owing(v)') = w
  OBVIOUS
<1>5. Due = Owed(w)
  BY <1>1, <1>2 DEF Due, Owed
<1>6. Due' = Owed(w)'
  BY <1>3, <1>4 DEF Due, Owed
<1> QED
  BY <1>5, <1>6

\* A sale that is due is a record, not Null.
LEMMA DueIsSomething ==
  ASSUME TypeOK, NEW w, Workers = {w}, Owing(w)
  PROVE  Due # Null
<1>1. job[w] \in Job /\ job[w].code \in Codes
  BY DEF Owing, TypeOK, ControlOK, WellFormed
<1>2. ActingAs(job[w]) \in Names /\ job[w].units \in Ints
  BY <1>1, ActingAsType DEF Job
<1>3. Due = [owner |-> ActingAs(job[w]), code |-> job[w].code, units |-> job[w].units]
  BY DueIs DEF Owed
<1> QED
  BY <1>1, <1>2, <1>3, NullAssumption

\* The shop's stock is that of the oldest rows.
LEMMA StockIs ==
  /\ [p \in Names \X Codes |-> StockOf(p)] = Stock
  /\ [p \in Names \X Codes |-> StockOf(p)]' = Stock'
BY DEF Stock, StockOf, StockIn, Group

\* A step in which nothing of the shop changes.
Unseen == UNCHANGED <<Stock, Due, Ledger>>

\* A step that leaves the tables alone, and the sale owed, is not seen.
LEMMA UnseenStep ==
  ASSUME NEW w, Workers = {w}, UNCHANGED <<products, sales>>, Owed(w)' = Owed(w)
  PROVE  Unseen
<1>1. Due' = Due
  BY DueIs
<1>2. Stock' = Stock
  BY DEF Stock, StockIn, Group
<1>3. Ledger' = Ledger
  BY DEF Ledger
<1> QED
  BY <1>1, <1>2, <1>3 DEF Unseen

\* Where the shop sees nothing it stutters.
LEMMA UnseenIs ==
  ASSUME Unseen PROVE AbstractShop!Next \/ UNCHANGED AbstractShop!vars
BY StockIs DEF Unseen, AbstractShop!vars

\* A product is added, edited or removed by a thread that owes nothing.
LEMMA SetStep ==
  ASSUME ShopInv', NEW w, Workers = {w}, ~Owing(w), ~Owing(w)', UNCHANGED sales,
         NEW o \in Names, NEW c \in Codes,
         \A a, b : <<a, b>> # <<o, c>> => Group(products', a, b) = Group(products, a, b)
  PROVE  AbstractShop!Next
<1> DEFINE pair == <<o, c>>
           q == StockIn(products', pair)
<1>1. Due = Null /\ Due' = Null /\ Ledger' = Ledger
  BY DueIs DEF Owed, Ledger
<1>2. q \in Ints \cup {Null}
  BY StockType DEF ShopInv
<1>3. Stock' = [Stock EXCEPT ![pair] = q]
  <2>1. ASSUME NEW p \in Names \X Codes, p # pair PROVE StockIn(products', p) = StockIn(products, p)
    <3>1. Group(products', p[1], p[2]) = Group(products, p[1], p[2])
      BY <2>1
    <3> QED
      BY <3>1 DEF StockIn
  <2> QED
    BY <2>1 DEF Stock
<1>4. pair \in Names \X Codes
  OBVIOUS
<1>5. AbstractShop!Set(pair, q)
  BY <1>1, <1>3, StockIs DEF AbstractShop!Set
<1> QED
  BY <1>2, <1>4, <1>5 DEF AbstractShop!Next

\* Where the thread is after it goes on.
LEMMA Goes ==
  ASSUME TypeOK, NEW w \in Workers, NEW label, NEW j, Continue(w, label, j)
  PROVE  pc'[w] = label /\ job'[w] = j
BY DEF Continue, TypeOK, ControlOK

\* Before the UPDATE and after the answer nothing is owed.
LEMMA QuietStep ==
  ASSUME TypeOK, NEW w, Workers = {w},
         \/ Arrival(w)
         \/ ClearVector(w) \/ LoadRow(w) \/ EndOfRows(w) \/ SaleFindsNothing(w)
         \/ SaleIsShort(w) \/ TakeUnits(w) \/ UpdateFails(w) \/ CheckProduct(w)
         \/ PushProduct(w) \/ ReadVector(w) \/ ReadSales(w) \/ BindField(w) \/ ConfirmSale(w)
  PROVE  Unseen
<1>1. UNCHANGED database
  BY DEF Arrival, AcceptSale, RefuseSale, AcceptProduct, AcceptUpdate, AcceptDelete, AcceptVoid,
     AcceptList, AcceptGet, AcceptLook, Accept, ClearVector, LoadRow, EndOfRows,
     SaleFindsNothing, SaleIsShort, TakeUnits, UpdateFails, CheckProduct, PushProduct,
     ReadVector, ReadSales, BindField, ConfirmSale
<1>2. pc[w] \notin {"changes", "record"}
  BY DEF Arrival, AcceptSale, RefuseSale, AcceptProduct, AcceptUpdate, AcceptDelete, AcceptVoid,
     AcceptList, AcceptGet, AcceptLook, Accept, ClearVector, LoadRow, EndOfRows,
     SaleFindsNothing, SaleIsShort, TakeUnits, UpdateFails, CheckProduct, PushProduct,
     ReadVector, ReadSales, BindField, ConfirmSale, Binding
<1>3. pc'[w] \notin {"changes", "record"}
  <2>1. CASE Arrival(w)
    <3>1. (\E j, label : label \notin {"changes", "record"} /\ Continue(w, label, j))
          \/ (UNCHANGED pc /\ pc[w] = "idle")
      BY <2>1 DEF Arrival, AcceptSale, RefuseSale, AcceptProduct, AcceptUpdate, AcceptDelete,
         AcceptVoid, AcceptList, AcceptGet, AcceptLook, Accept
    <3> QED
      BY <3>1, Goes
  <2>2. CASE ClearVector(w) \/ LoadRow(w) \/ EndOfRows(w) \/ TakeUnits(w) \/ BindField(w)
             \/ PushProduct(w)
    <3>1. \E j, label : label \notin {"changes", "record"} /\ Continue(w, label, j)
      BY <2>2 DEF ClearVector, LoadRow, EndOfRows, TakeUnits, BindField, PushProduct
    <3> QED
      BY <3>1, Goes
  <2>3. CASE \/ SaleFindsNothing(w) \/ SaleIsShort(w) \/ UpdateFails(w)
             \/ ReadVector(w) \/ ReadSales(w) \/ ConfirmSale(w)
    <3>1. pc'[w] = "idle"
      BY <2>3, AnswersIdle
         DEF SaleFindsNothing, SaleIsShort, UpdateFails, ReadVector, ReadSales, ConfirmSale
    <3> QED
      BY <3>1
  <2>4. CASE CheckProduct(w)
    <3>1. (\E status : Reply(w, status)) \/ Continue(w, "push", job[w])
      BY <2>4 DEF CheckProduct
    <3>2. pc'[w] = "idle" \/ pc'[w] = "push"
      BY <3>1, AnswersIdle, Goes
    <3> QED
      BY <3>2
  <2> QED
    BY <2>1, <2>2, <2>3, <2>4
<1>4. Owed(w)' = Owed(w)
  BY <1>2, <1>3 DEF Owed, Owing
<1> QED
  BY <1>1, <1>4, UnseenStep DEF database

\* The UPDATE of a sale takes its units from the stock as it is.
LEMMA TakeStep ==
  ASSUME TypeOK, ShopInv, ShopInv', NEW w, Workers = {w}, UpdateProduct(w),
         job[w].op = "add_sale"
  PROVE  AbstractShop!Next
<1> DEFINE j == job[w]
<1>1. PICK o, c, p, k : o = ActingAs(j) /\ c = j.code /\ p = j.item /\ k = j
  OBVIOUS
<1>2. /\ k \in Job /\ o \in Names /\ c \in Codes /\ p \in Product /\ p.code = c /\ p.quantity >= 0
      /\ \E r \in Oldest(products, o, c) : p.quantity = r.quantity - k.units
  <2>1. pc[w] = "update" /\ WellFormed("update", j) /\ TakenFrom(j)
    BY DEF UpdateProduct, TypeOK, ControlOK, ShopInv, HandOK
  <2> QED
    BY <1>1, <2>1, ActingAsType DEF WellFormed, TakenFrom
<1>3. PICK r \in Oldest(products, o, c) : p.quantity = r.quantity - k.units
  BY <1>2
<1>4. /\ products' = Rewritten(products, o, c, p) /\ changed' = (Group(products, o, c) # {})
      /\ Continue(w, "changes", k) /\ UNCHANGED sales
  BY <1>1, <1>2, UpdateIs
<1>5. Group(products, o, c) # {}
  BY <1>3 DEF Oldest
<1>6. StockIn(products, <<o, c>>) = r.quantity /\ r.quantity \in Ints
  <2>1. RowsOK(products, lastProduct)
    BY DEF ShopInv
  <2>2. r \in products /\ products \subseteq ProductRow
    BY <1>3, <2>1 DEF RowsOK, Oldest, Group
  <2> QED
    BY <1>3, <2>1, <2>2, StockIsOldest DEF ProductRow
<1>7. /\ \A a, b : <<a, b>> # <<o, c>> => Group(products', a, b) = Group(products, a, b)
      /\ StockIn(products', <<o, c>>) = p.quantity
  BY <1>2, <1>4, <1>5, UpdateRows DEF ShopInv
<1> DEFINE pair == <<o, c>>
<1>8. Stock' = [Stock EXCEPT ![pair] = p.quantity]
  <2>1. ASSUME NEW q \in Names \X Codes, q # pair PROVE StockIn(products', q) = StockIn(products, q)
    <3>1. Group(products', q[1], q[2]) = Group(products, q[1], q[2])
      BY <1>7, <2>1
    <3> QED
      BY <3>1 DEF StockIn
  <2> QED
    BY <1>7, <2>1 DEF Stock
<1>9. Due = Null /\ Due' = [owner |-> o, code |-> c, units |-> k.units] /\ Ledger' = Ledger
  <2>1. pc'[w] = "changes" /\ job'[w] = k /\ changed' /\ pc[w] = "update"
    BY <1>4, <1>5, Goes DEF UpdateProduct
  <2>2. ~Owing(w) /\ Owing(w)'
    BY <1>1, <2>1 DEF Owing
  <2> QED
    BY <1>1, <1>4, <2>1, <2>2, DueIs DEF Owed, Ledger, ActingAs
<1>10. pair \in Names \X Codes /\ Stock[pair] = r.quantity
  BY <1>2, <1>6 DEF Stock
<1>11. k.units \in Ints /\ p.quantity \in Ints /\ r.quantity # Null
  BY <1>2, <1>6, NullAssumption DEF Job, Product
<1>12. AbstractShop!Take(pair, k.units, p.quantity)
  BY <1>2, <1>3, <1>8, <1>9, <1>10, <1>11, StockIs DEF AbstractShop!Take
<1> QED
  BY <1>10, <1>11, <1>12 DEF AbstractShop!Next

\* Other writes of products set a stock.
LEMMA EditStep ==
  ASSUME TypeOK, ShopInv, ShopInv', NEW w, Workers = {w},
         \/ UpdateProduct(w) /\ job[w].op # "add_sale"
         \/ InsertProduct(w) \/ DeleteProduct(w)
  PROVE  AbstractShop!Next \/ Unseen
<1> DEFINE j == job[w]
<1>1. j \in Job /\ RowsOK(products, lastProduct) /\ lastProduct \in Nat /\ UNCHANGED sales
      /\ ActingAs(j) \in Names /\ WellFormed(pc[w], j) /\ j.user \in Names
  BY ActingAsType, NamesAssumption DEF UpdateProduct, InsertProduct, DeleteProduct, TypeOK,
     ControlOK, DataOK, ShopInv, WellFormed, Job
<1>2. CASE UpdateProduct(w) /\ j.op # "add_sale"
  <2>1. PICK o, c, p : o = ActingAs(j) /\ c = j.item.code /\ p = j.item
    OBVIOUS
  <2>2. p \in Product /\ products' = Rewritten(products, o, c, p) /\ Continue(w, "changes", j)
    BY <1>2, <2>1, UpdateIs
  <2>3. \A a, b : <<a, b>> # <<o, c>> => Group(products', a, b) = Group(products, a, b)
    <3>1. RowsOK(products, lastProduct) /\ p \in Product /\ products' = Rewritten(products, o, c, p)
      BY <1>1, <2>2
    <3>2. /\ \A a, b : <<a, b>> # <<o, c>> => Group(products', a, b) = Group(products, a, b)
          /\ Group(products, o, c) # {} => StockIn(products', <<o, c>>) = p.quantity
      BY <3>1, UpdateRows
    <3> QED
      BY <3>2
  <2>4. o \in Names /\ c \in Codes
    BY <1>1, <2>1, <2>2 DEF Product
  <2>5. ~Owing(w) /\ ~Owing(w)'
    <3>1. pc[w] = "update" /\ pc'[w] = "changes" /\ job'[w].op # "add_sale"
      BY <1>2, <2>2, Goes DEF UpdateProduct
    <3> QED
      BY <3>1 DEF Owing
  <2> QED
    BY <1>1, <2>3, <2>4, <2>5, SetStep
<1>3. CASE InsertProduct(w) \/ DeleteProduct(w)
  <2>1. ~Owing(w) /\ ~Owing(w)'
    <3>1. pc[w] \notin {"changes", "record"} /\ pc'[w] = "idle"
      BY <1>3, AnswersIdle DEF InsertProduct, DeleteProduct
    <3> QED
      BY <3>1 DEF Owing
  <2>2. CASE products' = products
    BY <1>1, <2>1, <2>2, UnseenStep DEF Owed
  <2>3. CASE DeleteProduct(w) /\ products' # products
    <3>1. PICK o, c : o = j.user /\ c = j.code
      OBVIOUS
    <3>2. products' = products \ Group(products, o, c)
      BY <2>3, <3>1 DEF DeleteProduct, Group
    <3>3. \A a, b : <<a, b>> # <<o, c>> => Group(products', a, b) = Group(products, a, b)
      BY <1>1, <3>2, DeleteRows
    <3>4. PICK r \in products : r.code = c
      BY <2>3, <3>2 DEF Group, Updates
    <3>5. o \in Names /\ c \in Codes
      BY <1>1, <3>1, <3>4 DEF RowsOK, ProductRow
    <3> QED
      BY <1>1, <2>1, <3>3, <3>5, SetStep
  <2>4. CASE InsertProduct(w) /\ products' # products
    <3>1. j.item \in Product
      BY <1>1, <2>4 DEF InsertProduct, WellFormed
    <3>2. PICK n : n = [id |-> lastProduct + 1, owner |-> j.item.owner, code |-> j.item.code,
                        details |-> j.item.details, quantity |-> j.item.quantity,
                        alert |-> j.item.alert]
      OBVIOUS
    <3>3. n \in ProductRow /\ n.id = lastProduct + 1
      BY <1>1, <3>1, <3>2 DEF Product, ProductRow
    <3>4. products' = products \cup {n}
      BY <2>4, <3>2 DEF InsertProduct
    <3>5. \A a, b : <<a, b>> # <<n.owner, n.code>> => Group(products', a, b) = Group(products, a, b)
      BY <1>1, <3>3, <3>4, InsertRow
    <3>6. n.owner \in Names /\ n.code \in Codes
      BY <3>3 DEF ProductRow
    <3> QED
      BY <1>1, <2>1, <3>5, <3>6, SetStep
  <2> QED
    BY <1>3, <2>2, <2>3, <2>4
<1> QED
  BY <1>2, <1>3

\* The sale that is due is entered, or it is lost.
LEMMA SaveStep ==
  ASSUME TypeOK, ShopInv, NEW w, Workers = {w}, InsertSale(w)
  PROVE  AbstractShop!Next
<1> DEFINE j == job[w]
<1>1. pc[w] = "record" /\ j.op = "add_sale" /\ lastSale < MaxSales /\ lastSale \in Nat
      /\ products' = products
  BY DEF InsertSale, TypeOK, ControlOK, DataOK, WellFormed, ShopInv, HandOK, Binding
<1>2. pc'[w] = "warn"
  BY Goes DEF InsertSale
<1>3. Owing(w) /\ ~Owing(w)'
  BY <1>1, <1>2 DEF Owing
<1>4. /\ Due = [owner |-> ActingAs(j), code |-> j.code, units |-> j.units]
      /\ Due # Null /\ Due' = Null
  BY <1>3, DueIs, DueIsSomething DEF Owed
<1>5. Stock' = Stock
  BY <1>1 DEF Stock, StockIn, Group
<1>6. CASE sales' = sales
  <2>1. Ledger' = Ledger
    BY <1>6 DEF Ledger
  <2>2. AbstractShop!Lose
    BY <1>4, <1>5, <2>1, StockIs DEF AbstractShop!Lose
  <2> QED
    BY <2>2 DEF AbstractShop!Next
<1>7. CASE sales' = sales \cup {SaleOf(j)}
  <2>1. Line(SaleOf(j)) = [id |-> lastSale + 1, owner |-> Due.owner, code |-> Due.code, units |-> Due.units]
    BY <1>4 DEF Line, SaleOf
  <2>2. Ledger = {Line(s) : s \in sales} /\ Ledger' = {Line(s) : s \in sales'}
    BY DEF Ledger, Line
  <2>3. Ledger' = Ledger \cup {Line(SaleOf(j))}
    BY <1>7, <2>2
  <2>4. \A l \in Ledger : l.id < lastSale + 1
    <3>1. \A s \in sales : Line(s).id = s.id /\ s.id \in Nat /\ s.id <= lastSale
      BY DEF Line, TypeOK, DataOK, Sale, ShopInv, SalesOK
    <3> QED
      BY <1>1, <2>2, <3>1
  <2>5. AbstractShop!Enter(lastSale + 1)
    BY <1>4, <1>5, <2>1, <2>3, <2>4, StockIs DEF AbstractShop!Enter
  <2>6. lastSale + 1 \in 1 .. MaxSales
    BY <1>1, BoundsAssumption
  <2> QED
    BY <2>5, <2>6 DEF AbstractShop!Next
<1> QED
  BY <1>6, <1>7 DEF InsertSale

\* A deletion takes one sale from the ledger, or none.
LEMMA VoidStep ==
  ASSUME TypeOK, ShopInv, NEW w, Workers = {w}, DeleteSale(w)
  PROVE  AbstractShop!Next \/ Unseen
<1> DEFINE j == job[w]
<1>1. /\ pc[w] = "void" /\ j.op # "add_sale" /\ products' = products
      /\ \A s, t \in sales : s.id = t.id => s = t
  BY DEF DeleteSale, ShopInv, HandOK, SalesOK
<1>2. ~Owing(w) /\ ~Owing(w)'
  <2>1. pc'[w] = "idle" \/ (pc'[w] = "changes" /\ job'[w] = j)
    BY AnswersIdle, Goes DEF DeleteSale
  <2> QED
    BY <1>1, <2>1 DEF Owing
<1>3. CASE sales' = sales
  BY <1>1, <1>2, <1>3, UnseenStep DEF Owed
<1>4. CASE sales' # sales
  <2>1. sales' = sales \ {s \in sales : Voids(s, j)}
    BY <1>4 DEF DeleteSale
  <2>2. PICK s \in sales : Voids(s, j)
    BY <1>4, <2>1
  <2>3. sales' = sales \ {s}
    BY <1>1, <2>1, <2>2 DEF Voids
  <2>4. Ledger = {Line(t) : t \in sales} /\ Ledger' = {Line(t) : t \in sales'}
    BY DEF Ledger, Line
  <2>5. \A t \in sales : Line(t) = Line(s) => t = s
    BY <1>1, <2>2 DEF Line
  <2>6. Ledger' = Ledger \ {Line(s)} /\ Line(s) \in Ledger
    BY <2>2, <2>3, <2>4, <2>5
  <2>7. Stock' = Stock
    BY <1>1 DEF Stock, StockIn, Group
  <2>8. Due = Null /\ Due' = Null
    BY <1>2, DueIs DEF Owed
  <2>9. AbstractShop!Void(Line(s))
    BY <2>6, <2>7, <2>8, StockIs DEF AbstractShop!Void
  <2> QED
    BY <2>6, <2>9 DEF AbstractShop!Next
<1> QED
  BY <1>3, <1>4

\* What is owed before sqlite3_changes is read is owed after it.
LEMMA CheckStep ==
  ASSUME TypeOK, NEW w, Workers = {w}, CheckChanges(w)
  PROVE  Unseen
<1> DEFINE j == job[w]
<1>1. pc[w] = "changes" /\ UNCHANGED <<products, sales, changed>>
  BY DEF CheckChanges, database
<1>2. \/ ~(changed /\ j.op = "add_sale") /\ pc'[w] = "idle"
      \/ changed /\ j.op = "add_sale" /\ pc'[w] = "record" /\ job'[w] = j
  BY AnswersIdle, Goes DEF CheckChanges
<1>3. Owed(w)' = Owed(w)
  BY <1>1, <1>2 DEF Owed, Owing, ActingAs
<1> QED
  BY <1>1, <1>3, UnseenStep

\* A restart loses the sale that is due, if one is.
LEMMA CrashStep ==
  ASSUME TypeOK, NEW w, Workers = {w}, Crash
  PROVE  AbstractShop!Next \/ Unseen
<1>1. ~Owing(w)' /\ UNCHANGED <<products, sales>>
  BY DEF Crash, Owing, database
<1>2. CASE Owing(w)
  <2>1. Due # Null /\ Due' = Null
    BY <1>1, <1>2, DueIs, DueIsSomething DEF Owed
  <2>2. Stock' = Stock /\ Ledger' = Ledger
    BY <1>1 DEF Stock, StockIn, Group, Ledger
  <2>3. AbstractShop!Lose
    BY <2>1, <2>2, StockIs DEF AbstractShop!Lose
  <2> QED
    BY <2>3 DEF AbstractShop!Next
<1>3. CASE ~Owing(w)
  BY <1>1, <1>3, UnseenStep DEF Owed
<1> QED
  BY <1>2, <1>3

\* Every step of the one thread is a step of the shop, or is not seen in it.
LEMMA NextStep ==
  ASSUME TypeOK, ShopInv, ShopInv', NEW w, Workers = {w}, [Next]_vars
  PROVE  [AbstractShop!Next]_(AbstractShop!vars)
<1>1. CASE Step(w) \/ Arrival(w)
  BY <1>1, QuietStep, TakeStep, EditStep, SaveStep, VoidStep, CheckStep, UnseenIs DEF Step
<1>2. ~OtherStatement
  BY DEF OtherStatement
<1>3. CASE Crash
  BY <1>3, CrashStep, UnseenIs
<1>4. CASE UNCHANGED vars
  <2>1. Unseen
    BY <1>4, UnseenStep DEF vars, Owed, Owing, ActingAs
  <2> QED
    BY <2>1, UnseenIs
<1> QED
  BY <1>1, <1>2, <1>3, <1>4 DEF Next

\* A server of one thread, whose clients are managers and edit no product to a
\* quantity below zero, is the shop: ImplementsShop for any owners, codes,
\* quantities, numbers of rows and int width.
THEOREM OneThreadIsTheShop ==
  ASSUME NEW w, Workers = {w}, Users \subseteq Managers, EditQuantities \subseteq Nat
  PROVE  Spec => ImplementsShop
<1>1. Init => ShopInv
  BY DEF Init, ShopInv, RowsOK, Group, SalesOK, HandOK, Binding
<1>2. TypeOK /\ NonNegative /\ ShopInv /\ [Next]_vars => ShopInv'
  BY NextHand
<1>3. Spec => []NonNegative
  <2>1. OnlyEditsGoBelowZero => NonNegative
    <3>1. \A q \in EditQuantities : q >= 0
      OBVIOUS
    <3> QED
      BY <3>1 DEF OnlyEditsGoBelowZero, NonNegative
  <2> QED
    BY <2>1, OnlyEditsTakeStockBelowZero, PTL
<1>4. Init => AbstractShop!Init
  <2> SUFFICES ASSUME Init PROVE AbstractShop!Init
    OBVIOUS
  <2>1. Stock = [p \in Names \X Codes |-> Null]
    BY DEF Init, Stock, StockIn, Group
  <2>2. Due = Null /\ Ledger = {}
    BY DueIs DEF Init, Owed, Owing, Ledger
  <2> QED
    BY <2>1, <2>2, StockIs DEF AbstractShop!Init
<1>5. TypeOK /\ ShopInv /\ ShopInv' /\ [Next]_vars => [AbstractShop!Next]_(AbstractShop!vars)
  BY NextStep
<1> QED
  BY <1>1, <1>2, <1>3, <1>4, <1>5, TypeCorrect, PTL DEF Spec, ImplementsShop, AbstractShop!Spec

-----------------------------------------------------------------------------
(* What one thread answers, whoever its clients are: a scan that nothing   *)
(* interrupts puts the rows of its owner in the vector, each once.         *)

\* Rows have an id each, and a first one of each owner and code, whatever the
\* workers write.
LEMMA RowsKeep ==
  ASSUME TypeOK, RowsOK(products, lastProduct), [Next]_vars
  PROVE  RowsOK(products', lastProduct')
<1>1. ASSUME NEW w \in Workers, UpdateProduct(w) PROVE RowsOK(products', lastProduct')
  <2>1. PICK o, c, p : o = ActingAs(job[w]) /\ c = job[w].item.code /\ p = job[w].item
    OBVIOUS
  <2>2. p \in Product /\ lastProduct' = lastProduct /\ products' = Rewritten(products, o, c, p)
    BY <1>1, <2>1, UpdateIs
  <2> QED
    BY <2>2, UpdateRows
<1>2. ASSUME NEW w \in Workers, InsertProduct(w) PROVE RowsOK(products', lastProduct')
  <2>1. job[w].item \in Product /\ lastProduct \in Nat
    BY <1>2 DEF InsertProduct, TypeOK, ControlOK, DataOK, WellFormed
  <2> DEFINE n == [id |-> lastProduct + 1, owner |-> job[w].item.owner, code |-> job[w].item.code,
                   details |-> job[w].item.details, quantity |-> job[w].item.quantity,
                   alert |-> job[w].item.alert]
  <2>2. n \in ProductRow /\ n.id = lastProduct + 1
    BY <2>1 DEF Product, ProductRow
  <2>3. RowsOK(products \cup {n}, lastProduct + 1)
    BY <2>1, <2>2, InsertRow
  <2> QED
    BY <1>2, <2>3 DEF InsertProduct
<1>3. ASSUME NEW w \in Workers, DeleteProduct(w) PROVE RowsOK(products', lastProduct')
  BY <1>3, DeleteRows DEF DeleteProduct, Group
<1>4. ASSUME NEW w \in Workers, Arrival(w) PROVE RowsOK(products', lastProduct')
  BY <1>4 DEF Arrival, AcceptSale, RefuseSale, AcceptProduct, AcceptUpdate, AcceptDelete,
     AcceptVoid, AcceptList, AcceptGet, AcceptLook, Accept, database
<1>5. ASSUME NEW w \in Workers, Step(w), ~UpdateProduct(w), ~InsertProduct(w), ~DeleteProduct(w)
      PROVE  RowsOK(products', lastProduct')
  <2>1. UNCHANGED <<products, lastProduct>>
    BY <1>5 DEF Step, ClearVector, LoadRow, EndOfRows, SaleFindsNothing, SaleIsShort, TakeUnits,
       BindField, UpdateFails, CheckChanges, InsertSale, ConfirmSale, CheckProduct, PushProduct, DeleteSale, ReadVector,
       ReadSales, database
  <2> QED
    BY <2>1
<1>6. CASE OtherStatement \/ Crash \/ UNCHANGED vars
  BY <1>6 DEF OtherStatement, Crash, vars, database
<1> QED
  BY <1>1, <1>2, <1>3, <1>4, <1>5, <1>6 DEF Next

VectorIs(rows) ==
  /\ IsFiniteSet(rows)
  /\ Len(vec) = Cardinality(rows)
  /\ \A r \in rows : \E i \in DOMAIN vec : vec[i] = ReadRow(r)
  /\ \A i \in DOMAIN vec : \E r \in rows : vec[i] = ReadRow(r)

\* The rows a scan has met.
Met(j) == {r \in RowsOf(products, Scope(j)) : r.id <= j.cursor}

ScanOK(label, j) ==
  /\ label = "clear" => j.cursor = 0
  /\ label = "load" => VectorIs(Met(j))
  /\ label \in {"find", "read"} => VectorIs(RowsOf(products, Scope(j)))
  /\ label = "find" => j.op = "add_sale"
  /\ label \in {"update", "changes", "void"} \cup Binding => j.op # "list"

ScanInv ==
  /\ RowsOK(products, lastProduct)
  /\ \A w \in Workers : ScanOK(pc[w], job[w])

\* The thread goes on, or is idle.
LEMMA ContinueScan ==
  ASSUME TypeOK, NEW w, Workers = {w}, NEW label, NEW j, Continue(w, label, j), ScanOK(label, j)'
  PROVE  \A v \in Workers : ScanOK(pc[v], job[v])'
<1>1. pc'[w] = label /\ job'[w] = j
  BY DEF Continue, TypeOK, ControlOK
<1> QED
  BY <1>1 DEF ScanOK, VectorIs, Met

LEMMA IdleScan ==
  ASSUME NEW w, Workers = {w}, pc'[w] = "idle"
  PROVE  \A v \in Workers : ScanOK(pc[v], job[v])'
BY DEF ScanOK, Binding

\* The next row goes to the vector's end.
LEMMA LoadScan ==
  ASSUME TypeOK, ScanInv, NEW w, Workers = {w}, LoadRow(w)
  PROVE  \A v \in Workers : ScanOK(pc[v], job[v])'
<1> DEFINE j == job[w]
           o == Scope(j)
           rows == Met(j)
<1>1. pc[w] = "load" /\ j \in Job /\ VectorIs(rows) /\ UNCHANGED products
  BY DEF LoadRow, TypeOK, ControlOK, WellFormed, ScanInv, ScanOK, database
<1>2. PICK r \in Ahead(j) :
        /\ \A q \in Ahead(j) : r.id <= q.id
        /\ PushBack(w, ReadRow(r))
        /\ Continue(w, "load", [j EXCEPT !.cursor = r.id])
  BY DEF LoadRow
<1>3. vec' = Append(vec, ReadRow(r))
  BY <1>2 DEF PushBack, Contended
<1>4. PICK k : k = [j EXCEPT !.cursor = r.id]
  OBVIOUS
<1>5. Scope(k) = o /\ k.cursor = r.id /\ k.op = j.op /\ j.cursor \in Nat
  BY <1>1, <1>4 DEF Job, Scope, ActingAs
<1>6. /\ r \in products /\ r.owner = o /\ j.cursor < r.id /\ r \in ProductRow
      /\ \A q \in products : q.id \in Nat
      /\ \A q \in products : q.owner = o => q.id <= j.cursor \/ r.id <= q.id
      /\ \A q \in products : q.id = r.id => q = r
  BY <1>1, <1>2, <1>5 DEF Ahead, TypeOK, DataOK, ProductRow, ScanInv, RowsOK
<1>7. Met(k)' = rows \cup {r} /\ r \notin rows
  BY <1>1, <1>5, <1>6 DEF Met, RowsOf, Scope, ActingAs
<1> HIDE DEF rows
<1>8. IsFiniteSet(rows \cup {r}) /\ Cardinality(rows \cup {r}) = Cardinality(rows) + 1
  BY <1>1, <1>7, FS_AddElement DEF VectorIs
<1> DEFINE len == Len(vec)
<1>9. /\ len \in Nat /\ DOMAIN vec = 1 .. len /\ DOMAIN vec' = 1 .. len + 1 /\ Len(vec') = len + 1
      /\ vec'[len + 1] = ReadRow(r) /\ \A i \in 1 .. len : vec'[i] = vec[i]
  <2>1. vec \in Seq(Product) /\ ReadRow(r) \in Product
    BY <1>6, ReadRowType DEF TypeOK, DataOK
  <2> QED
    BY <1>3, <2>1
<1>10. \A q \in rows \cup {r} : \E i \in 1 .. len + 1 : vec'[i] = ReadRow(q)
  BY <1>1, <1>9 DEF VectorIs
<1>11. \A i \in 1 .. len + 1 : \E q \in rows \cup {r} : vec'[i] = ReadRow(q)
  <2> SUFFICES ASSUME NEW i \in 1 .. len + 1 PROVE \E q \in rows \cup {r} : vec'[i] = ReadRow(q)
    OBVIOUS
  <2>1. CASE i = len + 1
    BY <1>9, <2>1
  <2>2. CASE i \in 1 .. len
    BY <1>1, <1>9, <2>2 DEF VectorIs
  <2> QED
    BY <1>9, <2>1, <2>2
<1>12. VectorIs(Met(k))'
  BY <1>1, <1>7, <1>8, <1>9, <1>10, <1>11 DEF VectorIs
<1>13. ScanOK("load", k)'
  BY <1>12 DEF ScanOK, Binding
<1> QED
  BY <1>2, <1>4, <1>13, ContinueScan

\* Every step of the one thread, when no statement fails.
LEMMA NextScan ==
  ASSUME TypeOK, ScanInv, NEW w, Workers = {w}, DiskFaults = FALSE, [Next]_vars
  PROVE  ScanInv'
<1> DEFINE j == job[w]
<1> SUFFICES \A v \in Workers : ScanOK(pc[v], job[v])'
  BY RowsKeep DEF ScanInv
<1>1. ScanOK(pc[w], j)
  BY DEF ScanInv
<1>2. ASSUME NEW label \in {"check", "push", "insert", "delete", "look", "record", "warn"}, NEW k, Continue(w, label, k)
      PROVE  \A v \in Workers : ScanOK(pc[v], job[v])'
  <2>1. ScanOK(label, k)'
    BY DEF ScanOK, Binding
  <2> QED
    BY <1>2, <2>1, ContinueScan
<1>3. ASSUME NEW label \in {"update", "changes", "void"} \cup Binding, NEW k, k.op # "list", Continue(w, label, k)
      PROVE  \A v \in Workers : ScanOK(pc[v], job[v])'
  <2>1. ScanOK(label, k)'
    BY <1>3 DEF ScanOK, Binding
  <2> QED
    BY <1>3, <2>1, ContinueScan
<1>4. ASSUME NEW k, k.cursor = 0, Continue(w, "clear", k) PROVE \A v \in Workers : ScanOK(pc[v], job[v])'
  <2>1. ScanOK("clear", k)'
    BY <1>4 DEF ScanOK, Binding
  <2> QED
    BY <1>4, <2>1, ContinueScan
<1>5. CASE Arrival(w)
  <2>1. \A o, u, c : Request(o, u, c).op = o /\ Request(o, u, c).cursor = 0
    BY DEF Request
  <2>2. /\ \A u, c, p : [Request("update_product", u, c) EXCEPT !.item = p].op = "update_product"
        /\ \A u, s : [Request("delete_sale", u, Null) EXCEPT !.sale = s].op = "delete_sale"
    BY DEF Request
  <2>3. CASE AcceptList(w)
    BY <1>4, <2>1, <2>3 DEF AcceptList, Accept
  <2>8. CASE AcceptGet(w)
    <3>1. PICK u \in Users, q \in Queries : Accept(w, "clear", [Request("get_product", u, Null) EXCEPT !.query = q])
      BY <2>8 DEF AcceptGet
    <3>2. PICK r : r = [Request("get_product", u, Null) EXCEPT !.query = q]
      OBVIOUS
    <3>3. r.cursor = 0
      BY <3>2 DEF Request
    <3> QED
      BY <1>4, <3>1, <3>2, <3>3 DEF Accept
  <2>7. CASE AcceptSale(w)
    <3>1. PICK u \in Users, c \in Codes, n \in SaleQuantities, k \in Customers, m \in Months :
            Accept(w, "clear", [Request("add_sale", u, c) EXCEPT
                                  !.units = n, !.customer = k, !.month = m])
      BY <2>7 DEF AcceptSale
    <3>2. PICK r : r = [Request("add_sale", u, c) EXCEPT !.units = n, !.customer = k, !.month = m]
      OBVIOUS
    <3>3. r.cursor = 0
      BY <3>2 DEF Request
    <3> QED
      BY <1>4, <3>1, <3>2, <3>3 DEF Accept
  <2>4. CASE AcceptProduct(w) \/ AcceptDelete(w) \/ AcceptLook(w)
    BY <1>2, <2>4 DEF AcceptProduct, AcceptDelete, AcceptLook, Accept
  <2>5. CASE AcceptUpdate(w) \/ AcceptVoid(w)
    BY <1>3, <2>2, <2>5 DEF AcceptUpdate, AcceptVoid, Accept
  <2>6. CASE RefuseSale(w)
    BY <2>6, IdleScan DEF RefuseSale
  <2> QED
    BY <1>5, <2>3, <2>4, <2>5, <2>6, <2>7, <2>8 DEF Arrival
<1>6. CASE ClearVector(w)
  <2>1. j.cursor = 0 /\ Continue(w, "load", j) /\ vec' = <<>> /\ UNCHANGED products
    BY <1>1, <1>6 DEF ClearVector, ScanOK, database
  <2>2. \A r \in products : r.id \in Nat /\ 1 <= r.id
    BY DEF ScanInv, RowsOK, ProductRow
  <2>3. PICK k : k = j
    OBVIOUS
  <2>4. Met(k)' = {}
    BY <2>1, <2>2, <2>3 DEF Met, RowsOf
  <2>5. VectorIs(Met(k))'
    BY <2>1, <2>4, FS_EmptySet DEF VectorIs
  <2>6. ScanOK("load", k)'
    BY <2>5 DEF ScanOK, Binding
  <2> QED
    BY <2>1, <2>3, <2>6, ContinueScan
<1>7. CASE LoadRow(w)
  BY <1>7, LoadScan
<1>8. CASE EndOfRows(w)
  <2>1. VectorIs(Met(j)) /\ UNCHANGED <<vec, products>> /\ j \in Job /\ Ahead(j) = {}
    BY <1>1, <1>8 DEF EndOfRows, ScanOK, TypeOK, ControlOK, WellFormed, database
  <2>2. PICK k : k = [j EXCEPT !.cursor = 0]
    OBVIOUS
  <2>3. k.op = j.op /\ Scope(k) = Scope(j) /\ j.cursor \in Nat
    BY <2>1, <2>2 DEF Job, Scope, ActingAs
  <2>4. RowsOf(products, Scope(k)) = Met(j)
    <3>1. \A r \in products : r.id \in Nat
      BY DEF TypeOK, DataOK, ProductRow
    <3>2. \A r \in RowsOf(products, Scope(j)) : r.id <= j.cursor
      BY <2>1, <2>3, <3>1 DEF Ahead, RowsOf
    <3> QED
      BY <2>3, <3>2 DEF Met
  <2>5. VectorIs(RowsOf(products, Scope(k)))'
    <3>1. PICK rows : rows = RowsOf(products, Scope(k))
      OBVIOUS
    <3>2. rows = RowsOf(products, Scope(k))'
      BY <2>1, <3>1 DEF RowsOf, Scope, ActingAs
    <3> QED
      BY <2>1, <2>4, <3>1, <3>2 DEF VectorIs
  <2>6. PICK label : label = IF k.op = "add_sale" THEN "find" ELSE "read"
    OBVIOUS
  <2>7. ScanOK(label, k)'
    BY <2>5, <2>6 DEF ScanOK, Binding
  <2> QED
    BY <1>8, <2>2, <2>3, <2>6, <2>7, ContinueScan DEF EndOfRows
<1>9. CASE TakeUnits(w)
  <2>1. pc[w] = "find" /\ j \in Job /\ j.op = "add_sale"
    BY <1>1, <1>9 DEF TakeUnits, ScanOK, TypeOK, ControlOK, WellFormed
  <2>2. PICK i, slot, n : Continue(w, "bind details", [j EXCEPT !.at = i, !.item = slot, !.left = n])
    BY <1>9 DEF TakeUnits
  <2>3. [j EXCEPT !.at = i, !.item = slot, !.left = n].op = "add_sale"
    BY <2>1 DEF Job
  <2> QED
    BY <1>3, <2>2, <2>3 DEF Binding
<1>16. CASE BindField(w)
  <2>1. j \in Job /\ j.op = "add_sale"
    BY <1>16 DEF BindField, TypeOK, ControlOK, WellFormed, Binding
  <2>2. PICK label \in {"update"} \cup Binding, item \in Product : Continue(w, label, [j EXCEPT !.item = item])
    BY <1>16, BindIs DEF Binding
  <2>3. [j EXCEPT !.item = item].op = "add_sale"
    BY <2>1 DEF Job
  <2> QED
    BY <1>3, <2>2, <2>3
<1>10. CASE UpdateProduct(w) \/ DeleteSale(w)
  BY <1>1, <1>3, <1>10, AnswersIdle, IdleScan DEF UpdateProduct, DeleteSale, ScanOK
<1>11. CASE CheckChanges(w) \/ InsertSale(w) \/ CheckProduct(w) \/ PushProduct(w)
  BY <1>2, <1>11, AnswersIdle, IdleScan DEF CheckChanges, InsertSale, CheckProduct, PushProduct
<1>12. CASE \/ SaleFindsNothing(w) \/ SaleIsShort(w) \/ UpdateFails(w) \/ ConfirmSale(w)
            \/ InsertProduct(w) \/ DeleteProduct(w) \/ ReadVector(w) \/ ReadSales(w)
  BY <1>12, AnswersIdle, IdleScan
     DEF SaleFindsNothing, SaleIsShort, UpdateFails, ConfirmSale, InsertProduct, DeleteProduct,
         ReadVector, ReadSales
<1>13. CASE Crash
  BY <1>13, IdleScan DEF Crash
<1>14. CASE UNCHANGED vars
  BY <1>14 DEF vars, ScanInv, ScanOK, VectorIs, Met, RowsOf, Scope, ActingAs
<1>15. ~OtherStatement
  BY DEF OtherStatement
<1> QED
  BY <1>5, <1>6, <1>7, <1>8, <1>9, <1>10, <1>11, <1>12, <1>13, <1>14, <1>15, <1>16 DEF Next, Step

\* In every state.
LEMMA ScansAreWhole ==
  ASSUME NEW w, Workers = {w}, DiskFaults = FALSE
  PROVE  Spec => []ScanInv
<1>1. Init => ScanInv
  BY DEF Init, ScanInv, RowsOK, Group, ScanOK, Binding
<1>2. TypeOK /\ ScanInv /\ [Next]_vars => ScanInv'
  BY NextScan
<1> QED
  BY <1>1, <1>2, TypeCorrect, PTL DEF Spec

\* A loop over the vector that stops at no slot has met none of the codes.
LEMMA NoHitNoSlot ==
  ASSUME TypeOK, NEW codes, FirstHit(codes) = {}
  PROVE  \A i \in DOMAIN vec : vec[i].code \notin codes
<1>1. DOMAIN vec \subseteq Nat /\ \A i \in DOMAIN vec : i >= 1
  BY DEF TypeOK, DataOK
<1> DEFINE S == {n \in Nat : \A i \in DOMAIN vec : i <= n => vec[i].code \notin codes}
<1>2. 0 \in S
  BY <1>1
<1>3. ASSUME NEW n \in Nat, n \in S PROVE n + 1 \in S
  <2>1. ASSUME n + 1 \in DOMAIN vec, vec[n + 1].code \in codes PROVE FALSE
    <3>1. \A k \in 1 .. n : k \in DOMAIN vec /\ vec[k].code \notin codes
      <4>1. PICK len \in Nat : DOMAIN vec = 1 .. len
        BY DEF TypeOK, DataOK
      <4> QED
        BY <1>3, <2>1, <4>1
    <3>2. n + 1 \in FirstHit(codes)
      BY <2>1, <3>1 DEF FirstHit
    <3> QED
      BY <3>2
  <2> QED
    BY <1>1, <1>3, <2>1
<1>4. Nat \subseteq S
  <2> HIDE DEF S
  <2> QED
    BY <1>2, <1>3, NumbersInduct
<1> QED
  BY <1>1, <1>4

\* A list shows the rows of its owner, each once and as it is stored, and nobody
\* else's: a server of one thread, with failing statements left out, since a
\* scan ends at an error as at its last row.
THEOREM OneThreadListsTheTable ==
  ASSUME NEW one, Workers = {one}, DiskFaults = FALSE
  PROVE  Spec => ListsShowTheTable
<1> DEFINE Shown(w) ==
      /\ Len(answer'.shown) = Cardinality(RowsOf(products, Scope(job[w])))
      /\ \A r \in RowsOf(products, Scope(job[w])) :
           \E i \in DOMAIN answer'.shown : answer'.shown[i] = ReadRow(r)
<1>1. ASSUME TypeOK, OwnRequests, ScanInv, [Next]_vars, NEW w \in Workers, Answers(w, "list", 200)
      PROVE  Shown(w)
  <2>1. Step(w) /\ job[w].op = "list" /\ answer' # Null /\ answer'.status = 200 /\ pc'[w] = "idle"
    BY <1>1, AnswersInStep DEF Answers
  <2>2. ScanOK(pc[w], job[w]) /\ (pc[w] # "idle" => WellFormed(pc[w], job[w]))
    BY <1>1 DEF ScanInv, TypeOK, ControlOK
  <2>3. ~(SaleFindsNothing(w) \/ SaleIsShort(w) \/ ConfirmSale(w) \/ ReadSales(w) \/ CheckChanges(w))
    BY <2>1, <2>2 DEF SaleFindsNothing, SaleIsShort, ConfirmSale, ReadSales, CheckChanges, ScanOK, WellFormed
  <2>4. ReadVector(w)
    BY <1>1, <2>1, <2>3, AnsweringSteps
  <2>5. pc[w] = "read" /\ answer'.shown = vec
    BY <2>1, <2>4 DEF ReadVector, Respond
  <2>6. VectorIs(RowsOf(products, Scope(job[w])))
    BY <2>2, <2>5 DEF ScanOK
  <2> QED
    BY <2>5, <2>6 DEF VectorIs
<1>2. TypeOK /\ OwnRequests /\ ScanInv /\ [Next]_vars =>
        [\A w \in Workers : Answers(w, "list", 200) => Shown(w)]_vars
  BY <1>1
<1>3. Spec => []ScanInv
  BY ScansAreWhole
<1>4. Spec => [](TypeOK /\ OwnRequests /\ ScanInv)
  BY <1>3, RequestsAreOwn, TypeCorrect, PTL
<1>5. Spec => [][Next]_vars
  BY PTL DEF Spec
<1>6. Spec => [][\A w \in Workers : Answers(w, "list", 200) => Shown(w)]_vars
  BY <1>2, <1>4, <1>5, PTL
<1> QED
  BY <1>6, PTL DEF ListsShowTheTable

\* Units that a quantity does not cover leave, of the int that their difference
\* wraps to, less than none: so the difference is below zero, or no int.
LEMMA ShortOf ==
  ASSUME NEW q \in Ints, NEW n \in Ints, Wrap(q - n) < 0
  PROVE  q - n \notin 0 .. IntMax
  BY NumbersAssumption DEF Wrap, Ints

\* A sale that one thread refuses is refused for the reason it gives: of the
\* products its SELECT asks for none has the code, or one has units that the
\* sale does not leave a storable number of, whatever the users' names and
\* whatever numbers, signed or not, were entered and are asked for.
THEOREM OneThreadRefusesTruly ==
  ASSUME NEW one, Workers = {one}, DiskFaults = FALSE
  PROVE  Spec => RefusalsFitTheTable
<1> DEFINE Seen(w) == {r \in RowsOf(products, Scope(job[w])) : r.code = job[w].code}
           True(w) == RefusalIsTrueOf(w, Seen(w))
<1>1. ASSUME TypeOK, OwnRequests, ScanInv, [Next]_vars, NEW w \in Workers,
             NEW status \in {400, 404}, Answers(w, "add_sale", status)
      PROVE  /\ status = 404 => Seen(w) = {}
             /\ status = 400 => \E r \in Seen(w) : r.quantity - job[w].units \notin 0 .. IntMax
  <2>1. Step(w) /\ job[w].op = "add_sale" /\ answer' # Null /\ answer'.status = status /\ pc'[w] = "idle"
    BY <1>1, AnswersInStep DEF Answers
  <2>2. ScanOK(pc[w], job[w]) /\ (pc[w] # "idle" => WellFormed(pc[w], job[w]))
    BY <1>1 DEF ScanInv, TypeOK, ControlOK
  <2>3. /\ \A code, shown : Respond(w, code, shown) => answer'.status = code
        /\ \A code : Reply(w, code) => answer'.status = code
        /\ \A label, k : ~Continue(w, label, k)
    BY <2>1 DEF Respond, Reply, Continue
  <2>4. ~(ConfirmSale(w) \/ ReadVector(w) \/ ReadSales(w) \/ CheckChanges(w))
    BY <2>1, <2>3 DEF ConfirmSale, ReadVector, ReadSales, CheckChanges, Failure
  <2>5. (SaleFindsNothing(w) /\ status = 404) \/ (SaleIsShort(w) /\ status = 400)
    <3>1. SaleFindsNothing(w) \/ SaleIsShort(w)
      BY <1>1, <2>1, <2>4, AnsweringSteps
    <3> QED
      BY <2>1, <2>3, <3>1 DEF SaleFindsNothing, SaleIsShort
  <2>6. pc[w] = "find"
    BY <2>5 DEF SaleFindsNothing, SaleIsShort
  <2>7. PICK j : j = job[w]
    OBVIOUS
  <2>8. j \in Job /\ j.op = "add_sale" /\ j.code \in Codes /\ VectorIs(RowsOf(products, Scope(j)))
    BY <2>1, <2>2, <2>6, <2>7 DEF ScanOK, WellFormed
  <2>10. CASE SaleFindsNothing(w) /\ status = 404
    <3>1. \A i \in DOMAIN vec : vec[i].code # j.code
      BY <1>1, <2>7, <2>10, NoHitNoSlot DEF SaleFindsNothing
    <3>2. \A r \in RowsOf(products, Scope(j)) : r.code # j.code
      BY <2>8, <3>1 DEF VectorIs, ReadRow
    <3> QED
      BY <2>7, <2>10, <3>2
  <2>11. CASE SaleIsShort(w) /\ status = 400
    <3>1. PICK i \in FirstHit({j.code}) : Insufficient(NewQuantity(vec[i], j.units))
      BY <2>7, <2>11 DEF SaleIsShort
    <3>2. i \in DOMAIN vec /\ vec[i].code = j.code
      BY <3>1 DEF FirstHit
    <3>3. PICK r \in RowsOf(products, Scope(j)) : vec[i] = ReadRow(r)
      BY <2>8, <3>2 DEF VectorIs
    <3>4. r.code = j.code /\ r.quantity \in Ints /\ vec[i].quantity = r.quantity
      BY <1>1, <3>2, <3>3 DEF RowsOf, ReadRow, TypeOK, DataOK, ProductRow
    <3>5. j.units \in Ints /\ Wrap(r.quantity - j.units) < 0
      BY <2>8, <3>1, <3>4 DEF Job, Insufficient, NewQuantity
    <3>6. r.quantity - j.units \notin 0 .. IntMax
      <4>1. PICK q, n : q = r.quantity /\ n = j.units
        OBVIOUS
      <4> QED
        BY <3>4, <3>5, <4>1, ShortOf
    <3> QED
      BY <2>7, <2>11, <3>3, <3>4, <3>6
  <2> QED
    BY <2>5, <2>10, <2>11
<1>2. TypeOK /\ OwnRequests /\ ScanInv /\ [Next]_vars => [\A w \in Workers : True(w)]_vars
  BY <1>1 DEF RefusalIsTrueOf
<1>3. Spec => []ScanInv
  BY ScansAreWhole
<1>4. Spec => [](TypeOK /\ OwnRequests /\ ScanInv)
  BY <1>3, RequestsAreOwn, TypeCorrect, PTL
<1>5. Spec => [][Next]_vars
  BY PTL DEF Spec
<1>6. Spec => [][\A w \in Workers : True(w)]_vars
  BY <1>2, <1>4, <1>5, PTL
<1> QED
  BY <1>6, PTL DEF RefusalsFitTheTable
=============================================================================
