\* One worker and two managers, one with a capital in his name: the handlers
\* are the shop, with int overflow, failing statements and restarts.
SPECIFICATION Spec
CONSTANTS
  Null = Null
  Names <- MCNames
  Managers <- MCManagers
  Lower <- MCLower
  OwnerOf <- MCOwnerOf
  CodeText <- MCCodeText
  Workers = {w1}
  Users = {"ann", "Tom"}
  Codes = {"c1"}
  Details = {"whole"}
  Negative = {}
  OverDiscount = {}
  Customers = {1}
  Months = {1}
  IntMax = 3
  Offered = {"add_product", "update_product", "delete_product", "add_sale", "delete_sale", "list_sales", "get_sale", "report"}
  AddQuantities <- SignedAdds
  EditQuantities = {1}
  SaleQuantities <- SignedSales
  Alerts = {1}
  Queries = {}
  MaxProducts = 2
  MaxSales = 2
  DiskFaults = TRUE
  Crashes = TRUE
PROPERTIES ImplementsShop
