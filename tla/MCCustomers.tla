----------------------------- MODULE MCCustomers -----------------------------
(***************************************************************************)
(* Two instances of the customer handlers in one run. In "race" both       *)
(* workers serve additions, updates and deletions of two managers whose    *)
(* names differ in capitals only, and statements fail; contacts and        *)
(* details have one value. In "alone" one worker serves every request of a *)
(* manager and of an employee of his, on more values, and the machine      *)
(* stops and starts again; no statement fails, and no other runs one.      *)
(***************************************************************************)
EXTENDS CustomersProperties

VARIABLE part   \* which of the two

allvars == <<vars, part>>

MCNames == {"eve", "Tom", "tom"}

MCManagers == Users \cap {"Tom", "tom"}

MCLower == [n \in Names |-> IF n = "Tom" THEN "tom" ELSE n]

MCOwnerOf == [u \in Users |-> IF u = "eve" THEN "Tom" ELSE u]

TwoManagers == {"Tom", "tom"}

ManagerAndEmployee == {"Tom", "eve"}

FirstContact == {CHOOSE c \in Contacts : TRUE}

FirstDetails == {CHOOSE d \in Details : TRUE}

Race == INSTANCE CustomersProperties WITH
  Users <- TwoManagers, Managers <- TwoManagers, Contacts <- FirstContact,
  Details <- FirstDetails, MaxRows <- 1, DiskFaults <- TRUE, Crashes <- FALSE,
  Offered <- {"add_customer", "update_customer", "delete_customer"}

Alone == INSTANCE CustomersProperties WITH
  Users <- ManagerAndEmployee, Managers <- ManagerAndEmployee \cap Managers

Lone == CHOOSE w \in Workers : TRUE

MCInit == Init /\ part \in {"race", "alone"}

MCNext ==
  /\ \/ part = "race" /\ Race!Next
     \/ part = "alone" /\ (Alone!Step(Lone) \/ Alone!Arrival(Lone) \/ Crash)
  /\ UNCHANGED part

Serves(w) ==
  /\ \/ part = "race" /\ Race!Step(w)
     \/ part = "alone" /\ Alone!Step(w)
  /\ UNCHANGED part

MCSpec ==
  /\ MCInit /\ [][MCNext]_allvars
  /\ \A w \in Workers : WF_allvars(Serves(w))

\* The answers to updates and additions say what the table holds when the
\* handler that gives them ran alone: SaysWhatIsStored, of the instance in which
\* no other worker runs.
AnswersSayWhatIsStored == [][part = "alone" => SaysWhatIsStored]_allvars
=============================================================================
