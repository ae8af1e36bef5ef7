------------------------------- MODULE Browser -------------------------------
(***************************************************************************)
(* The scripts of the pages, in the tabs of one browser. The tabs share    *)
(* localStorage, where the session's token is kept; a page's variables,    *)
(* its form and its buttons are its own, and gone when it is left. A       *)
(* script runs to its next await without another of its tab; what comes    *)
(* after the await runs when the request is answered, or has failed.       *)
(*                                                                         *)
(* Pages whose scripts do the same are one page here: view_products stands *)
(* for view_users and view_customers, add_product for the other additions, *)
(* delete_product for the other deletions, dashboard for both dashboards,  *)
(* login for the landing page and the form behind it. Of the server there  *)
(* are the sessions, and the status of each answer.                        *)
(***************************************************************************)
EXTENDS Integers, FiniteSets

CONSTANTS
  Tabs,
  Pages,         \* the pages that are opened
  MaxLogins,     \* sessions the server opens
  MaxFetches,    \* requests of a page in flight
  MaxEdits,      \* edits of a form
  Null

Lists == {"view_products", "view_sales", "view_audit_users", "sales_report"}
Editors == {"edit_product", "edit_customers", "add_sale"}
Forms == Editors \cup {"delete_product"}
AllPages == {"login", "dashboard", "add_product"} \cup Lists \cup Forms

ASSUME BrowserAssumption ==
  /\ Pages \subseteq AllPages /\ {"login", "dashboard"} \subseteq Pages
  /\ MaxLogins \in Nat /\ MaxEdits \in Nat /\ MaxFetches \in Nat
  /\ Null \notin AllPages

VARIABLES
  live,      \* tokens of the sessions the server has
  logins,    \* the tokens it has given are 1 .. logins
  storage,   \* localStorage.sessionToken, 0 when there is none
  tab,       \* the page of each tab
  fetches,   \* its requests: sent, answered, or failed
  adrift     \* live tokens of logouts whose page was left before they were handled

vars == <<live, logins, storage, tab, fetches, adrift>>

Slots == 1 .. MaxFetches

\* `next` is where window.location.href sends the page, which goes on until
\* it is replaced. `edit` numbers what the user has typed; `confirmed` has the
\* numbers of what the user was told is saved, `warned` those of the sales that
\* were confirmed with a warning about the stock (history).
Fresh(page) ==
  [page |-> page, next |-> Null, token |-> 0, canLogout |-> page \notin {"dashboard", "view_sales"},
   shown |-> FALSE, edit |-> 0, dirty |-> FALSE, customer |-> page # "add_sale",
   choices |-> page # "add_sale", searching |-> FALSE, save |-> TRUE, saving |-> FALSE, confirmed |-> {},
   warned |-> {}]

Sent == 0
Failed == -1

Request(what, token, edit) == [what |-> what, token |-> token, edit |-> edit, status |-> Sent]

Idle == [i \in Slots |-> Null]

HasRoom(fs, n) == Cardinality({i \in Slots : fs[i] = Null}) >= n

Adding(fs, f) ==
  LET free == {i \in Slots : fs[i] = Null}
  IN [fs EXCEPT ![CHOOSE i \in free : \A j \in free : i <= j] = f]

Init ==
  /\ live = {} /\ logins = 0
  /\ storage = 0
  /\ tab = [t \in Tabs |-> Fresh("login")]
  /\ fetches = [t \in Tabs |-> Idle]
  /\ adrift = {}

-----------------------------------------------------------------------------
(* A page is opened, by its predecessor's script or by the user.           *)

Server == <<live, logins>>

\* The request of a page's first script, if it makes one.
FirstFetch(page) ==
  IF page = "dashboard" THEN "current_user"
  ELSE IF page \in Lists THEN "list"
  ELSE IF page = "add_sale" THEN "customers" ELSE "none"

Loaded(page) ==
  [Fresh(page) EXCEPT
     !.token = IF page = "dashboard" THEN storage ELSE 0,
     !.next = IF FirstFetch(page) \in {"current_user", "list"} /\ storage = 0 THEN "login" ELSE Null]

LogoutsOf(t) ==
  {fetches[t][i].token : i \in {j \in Slots : /\ fetches[t][j] # Null
                                               /\ fetches[t][j].what = "logout"
                                               /\ fetches[t][j].status = Sent}}

Load(t, page) ==
  /\ page \in Pages
  /\ tab' = [tab EXCEPT ![t] = Loaded(page)]
  /\ fetches' = [fetches EXCEPT ![t] =
       IF FirstFetch(page) = "none" \/ storage = 0 THEN Idle
       ELSE Adding(Idle, Request(FirstFetch(page), storage, 0))]
  /\ adrift' = adrift \cup (LogoutsOf(t) \cap live)
  /\ UNCHANGED <<Server, storage>>

Arrive(t) == tab[t].next # Null /\ Load(t, tab[t].next)

-----------------------------------------------------------------------------
(* What the user does in a page.                                           *)

Going(p) == [p EXCEPT !.next = "login"]

\* A click that sends `what` with the token in storage, and leaves `page`;
\* without a token it leads to the login.
Click(t, what, page) ==
  /\ HasRoom(fetches[t], 1)
  /\ IF storage = 0
     THEN tab' = [tab EXCEPT ![t] = Going(@)] /\ UNCHANGED fetches
     ELSE /\ tab' = [tab EXCEPT ![t] = page]
          /\ fetches' = [fetches EXCEPT ![t] = Adding(@,
                 Request(what, storage, IF what = "save" THEN tab[t].edit ELSE 0))]
  /\ UNCHANGED <<Server, storage, adrift>>

ClickLogin(t) ==
  /\ tab[t].page = "login"
  /\ HasRoom(fetches[t], 1)
  /\ fetches' = [fetches EXCEPT ![t] = Adding(@, Request("login", 0, 0))]
  /\ UNCHANGED <<Server, storage, tab, adrift>>

\* A dashboard sends the token it was opened with.
ClickLogoutOfDashboard(t) ==
  /\ tab[t].page = "dashboard" /\ tab[t].canLogout
  /\ HasRoom(fetches[t], 1)
  /\ fetches' = [fetches EXCEPT ![t] = Adding(@, Request("logout", tab[t].token, 0))]
  /\ UNCHANGED <<Server, storage, tab, adrift>>

\* The sales report has the listener of view_products.js as well as its own.
ClickLogout(t) ==
  /\ tab[t].page \notin {"login", "dashboard"} /\ tab[t].canLogout
  /\ IF tab[t].page = "sales_report" /\ storage # 0
     THEN LET f == Request("logout", storage, 0) IN
          /\ HasRoom(fetches[t], 2)
          /\ fetches' = [fetches EXCEPT ![t] = Adding(Adding(@, f), f)]
          /\ UNCHANGED <<Server, storage, tab, adrift>>
     ELSE Click(t, "logout", tab[t])

\* Another month or year is chosen.
ChangeMonth(t) == tab[t].page = "sales_report" /\ Click(t, "list", tab[t])

SubmitAddition(t) == tab[t].page = "add_product" /\ Click(t, "add", tab[t])

\* The button is disabled during a search; Enter is not.
Search(t) ==
  /\ tab[t].page \in Forms
  /\ Click(t, IF tab[t].page = "edit_customers" THEN "whoami" ELSE "search",
           [tab[t] EXCEPT !.searching = TRUE, !.shown = FALSE])

Type(t) ==
  /\ tab[t].page \in Editors /\ tab[t].shown
  /\ tab[t].edit < MaxEdits
  /\ \E chosen \in {tab[t].customer, tab[t].choices} :
       tab' = [tab EXCEPT ![t].edit = @ + 1, ![t].dirty = TRUE, ![t].save = TRUE,
                          ![t].customer = chosen]
  /\ UNCHANGED <<Server, storage, fetches, adrift>>

\* The button saveBtn, or deleteBtn, which does not ask whether there was input.
CanSave(p) == p.page \in Forms /\ p.shown /\ p.save /\ (p.page \in Editors => p.dirty)

Saving(p) == [p EXCEPT !.save = FALSE, !.saving = TRUE]

ClickSave(t) ==
  /\ CanSave(tab[t]) /\ tab[t].customer
  /\ Click(t, "save", Saving(tab[t]))

\* "Select a customer." leaves the button as it is.
ClickSaveWithoutCustomer(t) ==
  /\ CanSave(tab[t]) /\ ~tab[t].customer
  /\ tab' = [tab EXCEPT ![t] = IF storage = 0 THEN Going(@) ELSE Saving(@)]
  /\ UNCHANGED <<Server, storage, fetches, adrift>>

-----------------------------------------------------------------------------
(* The server, and what lies between.                                      *)

\* Statuses of an answer to a request of a session the server has. No script
\* does anything else after one refusal than after another, but for what it says:
\* one stands for all, for a save the 403 that means a sale was made.
Statuses(what) ==
  CASE what \in {"current_user", "whoami"} -> {200}
    [] what \in {"list", "customers", "logout"} -> {200, 500}
    [] what = "search" -> {200, 404}
    [] what = "add" -> {200, 409}
    [] OTHER -> {200, 403}

Waiting(t, i) == fetches[t][i] # Null /\ fetches[t][i].status = Sent

Ended(f, status) == IF f.what = "logout" /\ status = 200 THEN live \ {f.token} ELSE live

HandleLogin(t, i) ==
  /\ Waiting(t, i) /\ fetches[t][i].what = "login"
  /\ \/ /\ logins < MaxLogins
        /\ logins' = logins + 1 /\ live' = live \cup {logins'}
        /\ fetches' = [fetches EXCEPT ![t][i] = [@ EXCEPT !.status = 200, !.token = logins']]
     \/ /\ fetches' = [fetches EXCEPT ![t][i].status = 401]
        /\ UNCHANGED Server
  /\ UNCHANGED <<storage, tab, adrift>>

Handle(t, i) ==
  LET f == fetches[t][i] IN
  /\ Waiting(t, i) /\ f.what # "login"
  /\ \E status \in IF f.token \in live THEN Statuses(f.what) ELSE {401} :
       /\ fetches' = [fetches EXCEPT ![t][i].status = status]
       /\ live' = Ended(f, status)
  /\ UNCHANGED <<logins, storage, tab, adrift>>

\* The connection breaks, before the request was handled or after.
Fail(t, i) ==
  /\ Waiting(t, i)
  /\ fetches' = [fetches EXCEPT ![t][i].status = Failed]
  /\ live' \in {live, Ended(fetches[t][i], 200)}
  /\ UNCHANGED <<logins, storage, tab, adrift>>

\* The logout of a page that was left.
HandleAdrift ==
  \E k \in adrift :
    /\ live' = live \ {k} /\ adrift' = adrift \ {k}
    /\ UNCHANGED <<logins, storage, tab, fetches>>

\* Sessions are in memory.
Restart ==
  /\ live # {} /\ live' = {} /\ adrift' = {}
  /\ UNCHANGED <<logins, storage, tab, fetches>>

-----------------------------------------------------------------------------
(* What a script does with the answer it awaited.                          *)

Answered(t, i, whats) ==
  fetches[t][i] # Null /\ fetches[t][i].status # Sent /\ fetches[t][i].what \in whats

Finish(t, i, page, token) ==
  /\ tab' = [tab EXCEPT ![t] = page]
  /\ fetches' = [fetches EXCEPT ![t][i] = Null]
  /\ storage' = token
  /\ UNCHANGED <<Server, adrift>>

LoginAnswered(t, i) ==
  /\ Answered(t, i, {"login"})
  /\ IF fetches[t][i].status = 200
     THEN Finish(t, i, [tab[t] EXCEPT !.next = "dashboard"], fetches[t][i].token)
     ELSE Finish(t, i, tab[t], storage)

\* A dashboard takes any refusal for the end of the session.
UserAnswered(t, i) ==
  /\ Answered(t, i, {"current_user"})
  /\ CASE fetches[t][i].status = 200 -> Finish(t, i, [tab[t] EXCEPT !.canLogout = TRUE], storage)
       [] fetches[t][i].status = Failed -> Finish(t, i, tab[t], storage)
       [] OTHER -> Finish(t, i, Going(tab[t]), 0)

\* "Session expired. Please log in again."
Expired(t, i) == fetches[t][i].status = 401 /\ tab[t].page # "view_audit_users"

\* view_sales listens to the logout button once it has its list.
ListAnswered(t, i) ==
  /\ Answered(t, i, {"list", "add"})
  /\ IF Expired(t, i) THEN Finish(t, i, Going(tab[t]), 0)
     ELSE Finish(t, i, [tab[t] EXCEPT !.canLogout = @ \/ fetches[t][i].status = 200], storage)

\* loadCustomers fills the list a customer is chosen from.
CustomersAnswered(t, i) ==
  /\ Answered(t, i, {"customers"})
  /\ Finish(t, i, [tab[t] EXCEPT !.choices = @ \/ fetches[t][i].status = 200], storage)

\* searchCustomer asks who the user is first, and then goes on with the token
\* it has, unless the request failed: that one is outside its try.
WhoamiAnswered(t, i) ==
  /\ Answered(t, i, {"whoami"})
  /\ fetches' = [fetches EXCEPT ![t][i] =
       IF @.status = Failed THEN Null ELSE Request("search", @.token, 0)]
  /\ UNCHANGED <<Server, storage, tab, adrift>>

Filled(p) ==
  [p EXCEPT !.shown = TRUE, !.dirty = FALSE, !.save = p.page \notin Editors,
            !.customer = p.page # "add_sale"]

\* Faults: a search that finds nothing returns before its `finally`; a save
\* leaves the form as it was; a logout forgets the session whatever is answered.
SearchAnsweredWithoutFinally(t, i) ==
  /\ Answered(t, i, {"search"})
  /\ Finish(t, i,
       IF fetches[t][i].status = 200 THEN [Filled(tab[t]) EXCEPT !.searching = FALSE] ELSE tab[t],
       storage)

SavedStillDirty(p, f) == [p EXCEPT !.confirmed = @ \cup {f.edit}]

LogoutAnsweredAnyway(t, i) ==
  /\ Answered(t, i, {"logout"})
  /\ Finish(t, i, Going(tab[t]), 0)

\* Any refusal, an expired session's too, is "not found".
SearchAnswered(t, i) ==
  /\ Answered(t, i, {"search"})
  /\ Finish(t, i,
       [IF fetches[t][i].status = 200 THEN Filled(tab[t]) ELSE tab[t] EXCEPT !.searching = FALSE],
       storage)

Saved(p, f) == [p EXCEPT !.dirty = FALSE, !.confirmed = @ \cup {f.edit}]

\* "Sale added. Warning: Stock below alert level!": the form stays as it was.
Warned(p, f) == [p EXCEPT !.confirmed = @ \cup {f.edit}, !.warned = @ \cup {f.edit}]

\* The `finally` of a save enables the button whatever was answered.
SaveAnswered(t, i) ==
  LET f == fetches[t][i]
      page == CASE f.status = 200 -> Saved(tab[t], f)
                [] f.status = 401 -> Going(tab[t])
                [] f.status = 403 /\ tab[t].page = "add_sale" -> Warned(tab[t], f)
                [] OTHER -> tab[t]
  IN /\ Answered(t, i, {"save"})
     /\ Finish(t, i, [page EXCEPT !.save = TRUE, !.saving = FALSE],
               IF f.status = 401 THEN 0 ELSE storage)

\* edit_customers leaves for the login whatever the server says.
LogoutAnswered(t, i) ==
  LET f == fetches[t][i]
      leaves == f.status = 200 \/ (tab[t].page = "edit_customers" /\ f.status # Failed)
  IN /\ Answered(t, i, {"logout"})
     /\ Finish(t, i, IF leaves THEN Going(tab[t]) ELSE tab[t], IF f.status = 200 THEN 0 ELSE storage)

-----------------------------------------------------------------------------
User(t) ==
  \/ \E page \in Pages : Load(t, page)
  \/ ClickLogin(t) \/ ClickLogoutOfDashboard(t) \/ ClickLogout(t) \/ ChangeMonth(t)
  \/ SubmitAddition(t) \/ Search(t) \/ Type(t) \/ ClickSave(t) \/ ClickSaveWithoutCustomer(t)

Settle(t, i) == HandleLogin(t, i) \/ Handle(t, i) \/ Fail(t, i)

Continue(t, i) ==
  \/ LoginAnswered(t, i) \/ UserAnswered(t, i) \/ ListAnswered(t, i) \/ CustomersAnswered(t, i)
  \/ WhoamiAnswered(t, i) \/ SearchAnswered(t, i) \/ SaveAnswered(t, i) \/ LogoutAnswered(t, i)

Next ==
  \/ \E t \in Tabs : User(t) \/ Arrive(t) \/ \E i \in Slots : Settle(t, i) \/ Continue(t, i)
  \/ HandleAdrift
  \/ Restart

\* A request is answered or fails, and a tab runs what awaited it; users do
\* what they like.
Spec ==
  /\ Init /\ [][Next]_vars
  /\ \A t \in Tabs, i \in Slots : WF_vars(Settle(t, i) \/ Continue(t, i))
=============================================================================
