---------------------------- MODULE MCInventory ----------------------------
(***************************************************************************)
(* Values of the constants for TLC. Two managers, an employee of the       *)
(* first, and a manager whose name is not in lower case; two products.     *)
(***************************************************************************)
EXTENDS InventoryProperties, TLC

MCNames == {"ann", "max", "eve", "Tom", "tom", "#1", "#2"}

MCManagers == Users \cap {"ann", "max", "Tom"}

MCLower == [n \in Names |-> IF n = "Tom" THEN "tom" ELSE n]

\* A manager registers with himself as owner, an employee with her manager.
MCOwnerOf == [n \in Names |-> CASE n \in Managers -> n
                                [] n = "eve" -> "ann"
                                [] OTHER -> Null]

MCCodeText == [c \in Codes |-> IF c = "c1" THEN "#1" ELSE "#2"]

WorkersAreAlike == Permutations(Workers)

\* Quantities below zero, which a cfg cannot write.
SignedSales == {-2, 1}
SignedAdds == {-1, 2}
MixedSales == {-2, 1, 2}
SignedEdits == {-2, 1}
=============================================================================
