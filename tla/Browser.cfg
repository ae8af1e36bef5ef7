\* Two tabs and their sessions, and one tab with forms.
SPECIFICATION MCSpec
CONSTANTS
  Null = Null
  Tabs = {t1, t2}
  Pages = {"login", "dashboard", "view_products", "view_sales", "add_product", "edit_product", "edit_customers", "add_sale", "delete_product"}
  MaxLogins = 2
  MaxFetches = 2
  MaxEdits = 2
PROPERTIES SessionsAreForgottenWhenEnded OnlyWarnedSalesAreSentAgain ButtonsComeBack
