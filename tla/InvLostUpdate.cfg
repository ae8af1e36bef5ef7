\* Two workers sell one product.
SPECIFICATION Spec
CONSTANTS
  Null = Null
  Names <- MCNames
  Managers <- MCManagers
  Lower <- MCLower
  OwnerOf <- MCOwnerOf
  CodeText <- MCCodeText
  Workers = {w1, w2}
  Users = {"ann"}
  Codes = {"c1"}
  Details = {"whole"}
  Negative = {}
  OverDiscount = {}
  Customers = {1}
  Months = {1}
  IntMax = 3
  Offered = {"add_product", "add_sale"}
  AddQuantities = {2}
  EditQuantities = {1}
  SaleQuantities = {1}
  Alerts = {1}
  Queries = {}
  MaxProducts = 1
  MaxSales = 2
  DiskFaults = FALSE
  Crashes = FALSE
PROPERTIES SaleDeductsFromCurrentStock
