-------------------------------- MODULE Pages --------------------------------
(***************************************************************************)
(* What the program serves: the rules main() declares, in their order, the *)
(* files behind them, and what its pages and their scripts ask for.        *)
(*                                                                         *)
(* Targets are written as strings here and taken apart by Chars.  What the *)
(* handlers of accounts, products, sales and customers answer is in their  *)
(* own modules; here each answers as it does a session it does not know.   *)
(***************************************************************************)
EXTENDS Integers, Sequences, TLC

CONSTANT
  Files  \* what is in source_code/static, by names with directories

Chars(s) == [i \in 1 .. Len(s) |-> SubSeq(s, i, i)]

Rule(url, methods, handler) == [url |-> url, methods |-> methods, handler |-> handler]

Returns(code, size) == [kind |-> "returns", code |-> code, size |-> size, page |-> ""]

-----------------------------------------------------------------------------
\* Handlers of forms and lists.

Get(url) == Rule(Chars(url), {"GET"}, Returns(401, 1))

\* A faulty rule: methods() was forgotten.
GetOrPost(url) == Rule(Chars(url), {"GET", "POST"}, Returns(401, 1))

Post(url) == Rule(Chars(url), {"POST"}, Returns(401, 1))

AccountRules ==
  <<Post("/login"), Get("/me"), Post("/add_user"), Post("/add_sub_user"), Get("/get_users"), Post("/logout"),
    Get("/current_user"), Get("/api/audit_users")>>

ListRules ==
  <<Get("/api/products"), Get("/get_product"), Get("/api/sales"), Get("/api/sales_report"), Get("/get_sale"),
    Get("/api/users"), Get("/api/customers"), Get("/get_customers")>>

FormRules ==
  <<Post("/add_product"), Post("/update_product"), Post("/delete_product"), Post("/add_sale"), Post("/delete_sale"),
    Post("/delete_user"), Post("/add_customer"), Post("/update_customer"), Post("/delete_customer")>>

-----------------------------------------------------------------------------
\* Pages.

Html(name) == "html/" \o name \o ".html"

\* An ifstream is opened on the file of a page: 200 with its contents, or 404.
Sends(name) == [Returns(IF Html(name) \in Files THEN 200 ELSE 404, 1) EXCEPT !.page = name]

Page(url, name) == Rule(Chars(url), {"GET"}, Sends(name))

\* The page of a rule that is named like its file.
Named(name) == Page("/" \o name, name)

Landing == Page("/", "landing")

LoginPages == <<Named("login"), Named("register"), Named("dashboard"), Named("employee_dashboard")>>

ProductPages == <<Page("/products", "view_products"), Named("add_product"), Named("edit_product"), Named("delete_product")>>

SalePages == <<Page("/sales", "view_sales"), Named("add_sale"), Named("delete_sale"), Named("sales_report")>>

UserPages == <<Named("view_users"), Named("add_users"), Named("delete_users"), Named("view_audit_users")>>

CustomerPages == <<Named("view_customers"), Named("add_customers"), Named("edit_customers"), Named("delete_customers")>>

MenuBar == Named("menu_bar")

-----------------------------------------------------------------------------
\* Files below /assets.

\* The extension of a path, from its last point on.
Extension(path) ==
  LET points == {i \in 1 .. Len(path) : SubSeq(path, i, i) = "."}
  IN IF points = {} THEN "" ELSE SubSeq(path, CHOOSE i \in points : \A j \in points : j <= i, Len(path))

MimeTypes ==
  (".html" :> "text/html") @@ (".css" :> "text/css") @@ (".js" :> "application/javascript") @@ (".png" :> "image/png")
    @@ (".jpg" :> "image/jpeg") @@ (".jpeg" :> "image/jpeg") @@ (".gif" :> "image/gif")

\* The answer to a path below /assets.
Asset(path) ==
  LET extension == Extension(path)
      type == IF extension \in DOMAIN MimeTypes THEN MimeTypes[extension] ELSE "application/octet-stream"
  IN IF path \in Files THEN [code |-> 200, type |-> type] ELSE [code |-> 404, type |-> ""]

Assets == Rule(Chars("/assets/") \o <<"<path>">>, {"GET"}, Returns(200, 1))

\* The rule run() adds behind all others, for a directory the program does not have.
StaticDir == Rule(Chars("/static/") \o <<"<path>">>, {"GET"}, [Returns(404, 0) EXCEPT !.kind = "file", !.size = -1])

Rules ==
  <<Landing>> \o AccountRules \o ListRules \o LoginPages \o ProductPages \o SalePages \o UserPages \o CustomerPages
    \o <<MenuBar, Assets>> \o FormRules \o <<StaticDir>>

-----------------------------------------------------------------------------
\* What a browser asks for when it has a page.

Reads(urls) == {[method |-> "GET", url |-> u] : u \in urls}

Writes(urls) == {[method |-> "POST", url |-> u] : u \in urls}

\* The buttons of the menu, and of the two dashboards.
MenuTargets ==
  {"/dashboard", "/employee_dashboard", "/products", "/add_product", "/edit_product", "/delete_product", "/sales",
   "/add_sale", "/delete_sale", "/sales_report", "/view_users", "/add_users", "/delete_users", "/view_audit_users",
   "/view_customers", "/add_customers", "/edit_customers", "/delete_customers"}

DashboardTargets == MenuTargets \ {"/dashboard", "/employee_dashboard"}

EmployeeTargets == DashboardTargets \ {"/view_users", "/add_users", "/delete_users", "/view_audit_users"}

\* What a script reads and sends, of those that log out and go to the landing page then.
Script(reads, writes) == Reads({"/"} \cup reads) \cup Writes({"/logout"} \cup writes)

Scripts ==
  ("menu_bar" :> Reads(MenuTargets \cup {"/assets/html/menu_bar.html"}))
    @@ ("login" :> Reads({"/dashboard", "/employee_dashboard", "/register"}) \cup Writes({"/login"}))
    @@ ("register" :> Reads({"/login"}) \cup Writes({"/add_user"}))
    @@ ("dashboard" :> Script({"/current_user"} \cup DashboardTargets, {}))
    @@ ("employee_dashboard" :> Script({"/current_user"} \cup EmployeeTargets, {}))
    @@ ("view_products" :> Script({"/api/products"}, {}))
    @@ ("add_product" :> Script({}, {"/add_product"}))
    @@ ("edit_product" :> Script({"/dashboard", "/get_product"}, {"/update_product"}))
    @@ ("delete_product" :> Script({"/dashboard", "/get_product"}, {"/delete_product"}))
    @@ ("view_sales" :> Script({"/api/sales"}, {}))
    @@ ("add_sale" :> Script({"/get_product", "/api/customers"}, {"/add_sale"}))
    @@ ("delete_sale" :> Script({"/dashboard", "/get_sale"}, {"/delete_sale"}))
    @@ ("sales_report" :> Script({"/api/sales_report"}, {}))
    @@ ("view_users" :> Script({"/api/users"}, {}))
    @@ ("add_users" :> Script({}, {"/add_sub_user"}))
    @@ ("delete_users" :> Script({"/dashboard", "/get_users"}, {"/delete_user"}))
    @@ ("view_audit_users" :> Script({"/api/audit_users"}, {}))
    @@ ("view_customers" :> Script({"/api/customers"}, {}))
    @@ ("add_customers" :> Script({}, {"/add_customer"}))
    @@ ("edit_customers" :> Script({"/dashboard", "/current_user", "/get_customers"}, {"/update_customer"}))
    @@ ("delete_customers" :> Script({"/dashboard", "/get_customers"}, {"/delete_customer"}))

\* The scripts of a page, each with its file; those that the menu leads to have the menu's too.
ScriptsOf(name) ==
  CASE name = "sales_report" -> {"sales_report", "menu_bar", "view_products"}
    [] name \in {"login", "register", "dashboard", "employee_dashboard", "menu_bar"} -> {name}
    [] name \in {"landing", "contact", "privacy", "terms_service"} -> {}
    [] OTHER -> {name, "menu_bar"}

StylesOf(name) ==
  CASE name = "add_sale" -> {"edit_product", "dashboard", "menu_bar"}
    [] name = "sales_report" -> {"sales_report", "dashboard"}
    [] ScriptsOf(name) = {name, "menu_bar"} /\ name # "add_sale" -> {name, "dashboard", "menu_bar"}
    [] OTHER -> {name}

Footer == {"/assets/html/privacy.html", "/assets/html/terms_service.html", "/assets/html/contact.html"}

LinksOf(name) ==
  CASE name = "landing" -> Reads({"/login"} \cup Footer)
    [] name \in {"privacy", "terms_service"} -> Reads(Footer)
    [] name = "contact" -> Reads(Footer) \cup Writes({"/submit_contact"})
    [] name = "register" -> Reads({"/html//terms.html"})
    [] name = "add_users" -> Reads({"/html/terms.html"})
    [] name \in {"dashboard", "employee_dashboard"} -> Reads({"/assets/images/Prodexa_logo.png"})
    [] OTHER -> {}

AskedBy(name) ==
  LinksOf(name)
    \cup Reads({"/assets/css/" \o n \o ".css" : n \in StylesOf(name)} \cup {"/assets/js/" \o n \o ".js" : n \in ScriptsOf(name)})
    \cup UNION {Scripts[n] : n \in ScriptsOf(name)}
==============================================================================
