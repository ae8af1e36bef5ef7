------------------------------ MODULE MCBrowser ------------------------------
(***************************************************************************)
(* Two instances of the browser in one run. In "sessions" two tabs log in, *)
(* load and log out, with one request at a time in each. In "forms" one    *)
(* tab opens with the session of an earlier login, and its pages have two  *)
(* requests at a time.                                                     *)
(***************************************************************************)
EXTENDS BrowserProperties

VARIABLE part   \* which of the two

allvars == <<vars, part>>

Sessions == INSTANCE Browser WITH
  Pages <- {"login", "dashboard", "view_products"}, MaxFetches <- 1, MaxEdits <- 0

OnForms == INSTANCE Browser WITH MaxLogins <- 1

Alone == CHOOSE t \in Tabs : TRUE

MCInit ==
  \/ part = "sessions" /\ Sessions!Init
  \/ /\ part = "forms"
     /\ live = {1} /\ logins = 1 /\ storage = 1
     /\ tab = [t \in Tabs |-> Fresh("login")]
     /\ fetches = [t \in Tabs |-> Idle]
     /\ adrift = {}

MCNext ==
  /\ \/ part = "sessions" /\ Sessions!Next
     \/ /\ part = "forms"
        /\ \/ User(Alone) \/ Arrive(Alone) \/ HandleAdrift \/ Restart
           \/ \E i \in Slots : OnForms!Settle(Alone, i) \/ Continue(Alone, i)
  /\ UNCHANGED part

\* Only the tab with the forms has buttons to come back.
MCSpec ==
  /\ MCInit /\ [][MCNext]_allvars
  /\ \A i \in Slots :
       WF_allvars(part = "forms" /\ (OnForms!Settle(Alone, i) \/ Continue(Alone, i)) /\ part' = part)

\* Buttons that say "Searching..." or "Saving..." become buttons again.
ButtonsComeBack == ButtonsComeBackIn(Alone)
=============================================================================
