-------------------------- MODULE BrowserProperties --------------------------
(***************************************************************************)
(* What is asked of the pages' scripts.                                    *)
(***************************************************************************)
EXTENDS Browser

\* The fetches of tab t in this step's next state that were not sent before.
NewSaves(t) ==
  {i \in DOMAIN fetches[t] : /\ fetches'[t][i] # Null /\ fetches'[t][i].what = "save"
                 /\ fetches[t][i] = Null}

\* The answer that tab t goes on with in this step, if any.
GoesOn(t, i) ==
  fetches[t][i] # Null /\ fetches[t][i].status # Sent /\ fetches'[t][i] = Null

\* "Session expired. Please log in again.": the browser forgets a token only on
\* an answer to a request whose session the server has ended, by this logout or
\* before. The token it forgets is that of the request, or that of a login in
\* another tab since, which no script compares.
SessionsAreForgottenWhenEnded ==
  [][storage # 0 /\ storage' = 0 =>
       \E t \in Tabs : \E i \in DOMAIN fetches[t] : GoesOn(t, i) /\ fetches[t][i].token \notin live]_vars

\* "Product updated successfully", "Sale added successfully": of what a user was
\* told is saved, no page sends anything again by another click, whatever was typed,
\* searched, refused or lost in between, but a sale that was added with the warning
\* "Stock below alert level!", whose form stays as after a failure.
OnlyWarnedSalesAreSentAgain ==
  [][\A t \in Tabs : \A i \in NewSaves(t) :
       tab[t].page \in Editors /\ fetches'[t][i].edit \in tab[t].confirmed =>
         tab[t].page = "add_sale" /\ fetches'[t][i].edit \in tab[t].warned]_vars

InFlight(t, what) == \E i \in DOMAIN fetches[t] : fetches[t][i] # Null /\ fetches[t][i].what = what

\* The `finally` of a search and of a save: "Searching..." and "Saving..." are
\* said for a while, however often the user searches and whatever is lost. A
\* customer's search has a first request that is outside its try, and a sale
\* without a customer makes none: of those two pages it is said of the request.
ButtonsComeBackIn(t) ==
  /\ tab[t].searching /\ (tab[t].page = "edit_customers" => InFlight(t, "search"))
       ~> ~tab[t].searching
  /\ tab[t].saving /\ (tab[t].page = "add_sale" => InFlight(t, "save"))
       ~> ~tab[t].saving
=============================================================================
