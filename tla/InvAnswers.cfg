\* One worker, no failing statement: what answers say is so.
SPECIFICATION Spec
CONSTANTS
  Null = Null
  Names <- MCNames
  Managers <- MCManagers
  Lower <- MCLower
  OwnerOf <- MCOwnerOf
  CodeText <- MCCodeText
  Workers = {w1}
  Users = {"ann", "eve", "Tom"}
  Codes = {"c1", "c2"}
  Details = {"whole", "over"}
  Negative = {}
  OverDiscount = {"over"}
  Customers = {0, 1}
  Months = {1, 2}
  IntMax = 3
  Offered = {"add_product", "delete_product", "add_sale", "list", "get_product"}
  AddQuantities <- SignedAdds
  EditQuantities = {1}
  SaleQuantities <- MixedSales
  Alerts = {1}
  Queries = {{"c2"}}
  MaxProducts = 2
  MaxSales = 1
  DiskFaults = FALSE
  Crashes = TRUE
PROPERTIES RefusalsFitTheTable ListsShowTheTable ConfirmedSalesAreSeen
