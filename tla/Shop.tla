-------------------------------- MODULE Shop --------------------------------
(***************************************************************************)
(* What the product and sale handlers promise together: each owner has a   *)
(* stock of each code; a sale takes its units from the stock it finds and  *)
(* is then entered in the ledger, once. Between the two it is due. A due   *)
(* sale may be lost, the units taken and nothing entered; it is never      *)
(* entered twice, and never entered without its units having been taken.   *)
(***************************************************************************)
EXTENDS Integers

CONSTANTS Owners, Codes, Quantities, Ids, None

VARIABLES
  stock,    \* [Owners \X Codes -> Quantities \cup {None}]
  due,      \* the sale whose units are taken and which is not entered yet
  ledger    \* the sales entered

vars == <<stock, due, ledger>>

Init ==
  /\ stock = [p \in Owners \X Codes |-> None]
  /\ due = None
  /\ ledger = {}

\* A product is added, edited or removed.
Set(p, q) ==
  /\ due = None
  /\ stock' = [stock EXCEPT ![p] = q]
  /\ UNCHANGED <<due, ledger>>

Take(p, units, left) ==
  /\ due = None
  /\ stock[p] # None
  /\ left = stock[p] - units
  /\ left >= 0
  /\ stock' = [stock EXCEPT ![p] = left]
  /\ due' = [owner |-> p[1], code |-> p[2], units |-> units]
  /\ UNCHANGED ledger

Enter(id) ==
  /\ due # None
  /\ \A s \in ledger : s.id < id
  /\ ledger' = ledger \cup
       {[id |-> id, owner |-> due.owner, code |-> due.code, units |-> due.units]}
  /\ due' = None
  /\ UNCHANGED stock

Lose ==
  /\ due # None
  /\ due' = None
  /\ UNCHANGED <<stock, ledger>>

Void(s) ==
  /\ due = None
  /\ ledger' = ledger \ {s}
  /\ UNCHANGED <<stock, due>>

Next ==
  \/ \E p \in Owners \X Codes, q \in Quantities \cup {None} : Set(p, q)
  \/ \E p \in Owners \X Codes, units, left \in Quantities : Take(p, units, left)
  \/ \E id \in Ids : Enter(id)
  \/ Lose
  \/ \E s \in ledger : Void(s)

Spec == Init /\ [][Next]_vars
=============================================================================
