\* Two workers, two owners, two sales that may overlap with edits of any sign, and
\* restarts: what no interleaving does to the stock, and whose rows a step writes.
SPECIFICATION Spec
CONSTANTS
  Null = Null
  Names <- MCNames
  Managers <- MCManagers
  Lower <- MCLower
  OwnerOf <- MCOwnerOf
  CodeText <- MCCodeText
  Workers = {w1, w2}
  Users = {"ann", "max"}
  Codes = {"c1"}
  Details = {"whole"}
  Negative = {}
  OverDiscount = {}
  Customers = {1}
  Months = {1}
  IntMax = 3
  Offered = {"add_product", "update_product", "add_sale"}
  AddQuantities = {2}
  EditQuantities <- SignedEdits
  SaleQuantities = {1}
  Alerts = {1}
  Queries = {}
  MaxProducts = 2
  MaxSales = 2
  DiskFaults = FALSE
  Crashes = TRUE
SYMMETRY WorkersAreAlike
INVARIANTS TypeOK OnlyEditsGoBelowZero
PROPERTIES WritesStayWithOwner
