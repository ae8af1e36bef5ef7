---------------------------- MODULE BrowserProofs ----------------------------
(***************************************************************************)
(* Proofs about the pages' scripts, for any number of tabs, requests in    *)
(* flight, sessions and edits: when the browser forgets a session, and     *)
(* which edits are sent.                                                   *)
(***************************************************************************)
EXTENDS BrowserProperties, TLAPS

-----------------------------------------------------------------------------
(* The invariant. A refusal that has not been gone on with yet is of a     *)
(* session that is still ended: tokens are given once.                     *)

Kinds == {"current_user", "list", "customers", "login", "logout", "add", "whoami", "search", "save"}

Fetch == [what: Kinds, token: Nat, edit: Nat, status: Int]

PageState ==
  [page: AllPages, next: AllPages \cup {Null}, token: Nat, canLogout: BOOLEAN, shown: BOOLEAN,
   edit: Nat, dirty: BOOLEAN, customer: BOOLEAN, choices: BOOLEAN, searching: BOOLEAN,
   save: BOOLEAN, saving: BOOLEAN, confirmed: SUBSET Nat, warned: SUBSET Nat]

\* The sessions: `n` tokens were given, those in `sessions` are live.
SessionsOK(n, sessions, token) == n \in Nat /\ sessions \subseteq 1 .. n /\ token \in 0 .. n

\* A page knows tokens that were given. An edit is confirmed after it was
\* made, and input that is not is none of those.
PageOK(p, n) ==
  /\ p \in PageState
  /\ p.token <= n
  /\ \A k \in p.confirmed : k <= p.edit
  /\ p.dirty => p.edit \notin p.confirmed \/ p.edit \in p.warned
  /\ p.page # "add_sale" => p.warned = {}

\* A request of a page at that edit. One that was refused, and a logout that
\* was not, is of a session that has ended.
FetchOK(f, edit, n, sessions) ==
  /\ f \in Fetch
  /\ f.token <= n /\ f.edit <= edit
  /\ f.status = 401 => f.token \notin sessions
  /\ f.what = "logout" /\ f.status = 200 => f.token \notin sessions
  /\ f.what = "current_user" => f.status \in {Sent, Failed, 200, 401}
  /\ f.what = "login" => IF f.status = 200 THEN f.token # 0 ELSE f.token = 0

TabsOK ==
  /\ tab \in [Tabs -> PageState]
  /\ \A t \in Tabs : PageOK(tab[t], logins)

FetchesOK ==
  /\ fetches \in [Tabs -> [Slots -> Fetch \cup {Null}]]
  /\ \A t \in Tabs, i \in Slots :
       fetches[t][i] # Null => FetchOK(fetches[t][i], tab[t].edit, logins, live)

BrowserInv == SessionsOK(logins, live, storage) /\ TabsOK /\ FetchesOK

-----------------------------------------------------------------------------
(* What the operators of the model keep. *)

\* More tokens and edits, and fewer of the sessions that were live, do not
\* make a request wrong.
LEMMA FetchStays ==
  ASSUME NEW f, NEW edit \in Nat, NEW n \in Nat, NEW sessions, FetchOK(f, edit, n, sessions),
         NEW edit2 \in Nat, NEW n2 \in Nat, NEW sessions2,
         edit <= edit2, n <= n2, sessions2 \subseteq sessions \cup (n + 1 .. n2)
  PROVE  FetchOK(f, edit2, n2, sessions2)
<1>1. f \in Fetch /\ f.token \in Nat /\ f.edit \in Nat
  BY DEF FetchOK, Fetch
<1>2. f.token <= n2 /\ f.edit <= edit2
  BY <1>1 DEF FetchOK
<1>3. f.token \notin sessions => f.token \notin sessions2
  BY <1>1 DEF FetchOK
<1> QED
  BY <1>1, <1>2, <1>3 DEF FetchOK

\* A page that keeps its name, its token, its edit and what is confirmed, and has no
\* input it had not, is as right as it was.
LEMMA PageStays ==
  ASSUME NEW n, NEW p, PageOK(p, n), NEW q \in PageState,
         q.token = p.token, q.edit = p.edit, q.confirmed = p.confirmed, q.dirty => p.dirty,
         q.page = p.page, q.warned = p.warned
  PROVE  PageOK(q, n)
BY DEF PageOK

\* A slot has what it had, or the request that is added.
LEMMA AddingType ==
  ASSUME NEW fs \in [Slots -> Fetch \cup {Null}], NEW f \in Fetch
  PROVE  /\ Adding(fs, f) \in [Slots -> Fetch \cup {Null}]
         /\ \A i \in Slots : Adding(fs, f)[i] \in {fs[i], f}
<1> DEFINE free == {i \in Slots : fs[i] = Null}
           k == CHOOSE i \in free : \A j \in free : i <= j
<1>1. Adding(fs, f) = [fs EXCEPT ![k] = f]
  BY DEF Adding
<1> QED
  BY <1>1

\* A step of one tab: its page and its requests are right, and so are the
\* sessions.
LEMMA TabStep ==
  ASSUME BrowserInv, NEW t \in Tabs, NEW p, NEW fs,
         tab' = [tab EXCEPT ![t] = p], fetches' = [fetches EXCEPT ![t] = fs],
         SessionsOK(logins', live', storage'),
         logins <= logins', live' \subseteq live \cup (logins + 1 .. logins'),
         PageOK(p, logins'),
         fs \in [Slots -> Fetch \cup {Null}],
         \A i \in Slots : fs[i] # Null => FetchOK(fs[i], p.edit, logins', live')
  PROVE  BrowserInv'
<1>1. logins \in Nat /\ logins' \in Nat
  BY DEF BrowserInv, SessionsOK
<1>2. tab' \in [Tabs -> PageState] /\ fetches' \in [Tabs -> [Slots -> Fetch \cup {Null}]]
  BY DEF BrowserInv, TabsOK, FetchesOK, PageOK
<1>3. ASSUME NEW u \in Tabs, u # t
      PROVE  /\ PageOK(tab'[u], logins')
             /\ \A i \in Slots : fetches'[u][i] # Null =>
                  FetchOK(fetches'[u][i], tab'[u].edit, logins', live')
  <2>1. tab'[u] = tab[u] /\ fetches'[u] = fetches[u] /\ tab[u].edit \in Nat
    BY <1>3 DEF BrowserInv, TabsOK, FetchesOK, PageState
  <2>2. PageOK(tab[u], logins')
    BY <1>1 DEF BrowserInv, TabsOK, PageOK, PageState
  <2>3. ASSUME NEW i \in Slots, fetches[u][i] # Null
        PROVE  FetchOK(fetches[u][i], tab[u].edit, logins', live')
    <3>1. FetchOK(fetches[u][i], tab[u].edit, logins, live)
      BY <2>3 DEF BrowserInv, FetchesOK
    <3> QED
      BY <1>1, <2>1, <3>1, FetchStays
  <2> QED
    BY <2>1, <2>2, <2>3
<1>4. tab'[t] = p /\ fetches'[t] = fs
  BY DEF BrowserInv, TabsOK, FetchesOK
<1>5. TabsOK'
  BY <1>2, <1>3, <1>4 DEF TabsOK
<1>6. FetchesOK'
  BY <1>2, <1>3, <1>4 DEF FetchesOK
<1> QED
  BY <1>5, <1>6 DEF BrowserInv

\* A step of one tab alone, which may store a token.
LEMMA ScriptStep ==
  ASSUME BrowserInv, NEW t \in Tabs, NEW p, NEW fs,
         tab' = [tab EXCEPT ![t] = p], fetches' = [fetches EXCEPT ![t] = fs],
         UNCHANGED Server, storage' \in 0 .. logins, PageOK(p, logins),
         fs \in [Slots -> Fetch \cup {Null}],
         \A i \in Slots : fs[i] # Null => FetchOK(fs[i], p.edit, logins, live)
  PROVE  BrowserInv'
<1>1. logins' = logins /\ live' = live /\ logins \in Nat /\ live \subseteq 1 .. logins
  BY DEF Server, BrowserInv, SessionsOK
<1>2. SessionsOK(logins', live', storage')
  BY <1>1 DEF SessionsOK
<1>3. logins <= logins' /\ live' \subseteq live \cup (logins + 1 .. logins')
  BY <1>1
<1>4. PageOK(p, logins') /\ \A i \in Slots : fs[i] # Null => FetchOK(fs[i], p.edit, logins', live')
  BY <1>1
<1> QED
  BY <1>2, <1>3, <1>4, TabStep

\* What is known of a tab, its requests and the sessions.
LEMMA InvOf ==
  ASSUME BrowserInv, NEW t \in Tabs
  PROVE  /\ SessionsOK(logins, live, storage)
         /\ PageOK(tab[t], logins) /\ tab[t] \in PageState
         /\ fetches[t] \in [Slots -> Fetch \cup {Null}]
         /\ \A i \in Slots : fetches[t][i] # Null => FetchOK(fetches[t][i], tab[t].edit, logins, live)
         /\ tab = [tab EXCEPT ![t] = tab[t]] /\ fetches = [fetches EXCEPT ![t] = fetches[t]]
BY DEF BrowserInv, TabsOK, FetchesOK

\* A step in which a page changes and its requests do not.
LEMMA PageStep ==
  ASSUME BrowserInv, NEW t \in Tabs, NEW p, tab' = [tab EXCEPT ![t] = p],
         PageOK(p, logins), p.edit >= tab[t].edit, UNCHANGED <<Server, storage, fetches>>
  PROVE  BrowserInv'
<1>1. p.edit \in Nat /\ tab[t].edit \in Nat /\ logins \in Nat
  BY InvOf DEF PageOK, PageState, SessionsOK
<1>2. \A i \in Slots : fetches[t][i] # Null => FetchOK(fetches[t][i], p.edit, logins, live)
  BY <1>1, InvOf, FetchStays
<1>3. UNCHANGED Server /\ storage' \in 0 .. logins
  BY InvOf DEF SessionsOK
<1>4. fetches[t] \in [Slots -> Fetch \cup {Null}] /\ fetches' = [fetches EXCEPT ![t] = fetches[t]]
  BY InvOf
<1> QED
  BY <1>1, <1>2, <1>3, <1>4, ScriptStep

\* A step in which a page sends a request.
LEMMA SendStep ==
  ASSUME BrowserInv, NEW t \in Tabs, NEW p, NEW f, tab' = [tab EXCEPT ![t] = p],
         fetches' = [fetches EXCEPT ![t] = Adding(@, f)],
         PageOK(p, logins), p.edit = tab[t].edit,
         FetchOK(f, p.edit, logins, live), UNCHANGED <<Server, storage>>
  PROVE  BrowserInv'
<1> DEFINE fs == Adding(fetches[t], f)
<1>1. f \in Fetch /\ logins \in Nat
  BY InvOf DEF FetchOK, SessionsOK
<1>2. fs \in [Slots -> Fetch \cup {Null}] /\ \A i \in Slots : fs[i] \in {fetches[t][i], f}
  BY <1>1, InvOf, AddingType
<1>3. \A i \in Slots : fs[i] # Null => FetchOK(fs[i], p.edit, logins, live)
  BY <1>2, InvOf
<1>4. fetches' = [fetches EXCEPT ![t] = fs]
  BY InvOf
<1>5. UNCHANGED Server /\ storage' \in 0 .. logins
  BY InvOf DEF SessionsOK
<1> HIDE DEF fs
<1> QED
  BY <1>1, <1>2, <1>3, <1>4, <1>5, ScriptStep

\* A request that is sent now is right.
LEMMA RequestOK ==
  ASSUME NEW n \in Nat, NEW what \in Kinds, NEW token \in 0 .. n, NEW e \in Nat,
         NEW edit \in Nat, e <= edit, what = "login" => token = 0, NEW sessions
  PROVE  FetchOK(Request(what, token, e), edit, n, sessions)
BY DEF FetchOK, Request, Fetch, Sent, Failed

\* A page that is sent to the login.
LEMMA GoingOK ==
  ASSUME NEW n, NEW p, PageOK(p, n)
  PROVE  PageOK(Going(p), n) /\ Going(p).edit = p.edit
<1>1. /\ Going(p) \in PageState /\ Going(p).token = p.token /\ Going(p).edit = p.edit
      /\ Going(p).confirmed = p.confirmed /\ Going(p).dirty = p.dirty
      /\ Going(p).page = p.page /\ Going(p).warned = p.warned
  BY DEF Going, PageState, AllPages, PageOK
<1> QED
  BY <1>1, PageStays

\* A click of a page that keeps its edit.
LEMMA ClickStep ==
  ASSUME BrowserInv, NEW t \in Tabs, NEW what \in Kinds \ {"login"}, NEW p,
         PageOK(p, logins), p.edit = tab[t].edit, Click(t, what, p)
  PROVE  BrowserInv'
<1>1. CASE storage = 0
  <2>1. tab' = [tab EXCEPT ![t] = Going(tab[t])] /\ UNCHANGED <<Server, storage, fetches>>
    BY <1>1, InvOf DEF Click
  <2>2. PageOK(tab[t], logins) /\ tab[t] \in PageState
    BY InvOf
  <2>3. PageOK(Going(tab[t]), logins) /\ Going(tab[t]).edit = tab[t].edit
    BY <2>2, GoingOK
  <2>4. tab[t].edit \in Nat
    BY <2>2 DEF PageState
  <2>5. Going(tab[t]).edit >= tab[t].edit
    BY <2>3, <2>4
  <2> QED
    BY <2>1, <2>3, <2>5, PageStep
<1>2. CASE storage # 0
  <2> DEFINE e == IF what = "save" THEN tab[t].edit ELSE 0
  <2>1. /\ tab' = [tab EXCEPT ![t] = p] /\ UNCHANGED <<Server, storage>>
        /\ fetches' = [fetches EXCEPT ![t] = Adding(@, Request(what, storage, e))]
    BY <1>2 DEF Click
  <2>2. FetchOK(Request(what, storage, e), p.edit, logins, live)
    BY InvOf, RequestOK DEF PageOK, PageState, SessionsOK
  <2> QED
    BY <2>1, <2>2, SendStep
<1> QED
  BY <1>1, <1>2

\* A script that has gone on with an answer, to a page at the same edit.
LEMMA FinishStep ==
  ASSUME BrowserInv, NEW t \in Tabs, NEW i \in Slots, NEW p, NEW token,
         PageOK(p, logins), p.edit = tab[t].edit, token \in 0 .. logins, Finish(t, i, p, token)
  PROVE  BrowserInv'
<1> DEFINE fs == [fetches[t] EXCEPT ![i] = Null]
<1>1. fs \in [Slots -> Fetch \cup {Null}] /\ \A j \in Slots : fs[j] \in {fetches[t][j], Null}
  BY InvOf
<1>2. \A j \in Slots : fs[j] # Null => FetchOK(fs[j], p.edit, logins, live)
  BY <1>1, InvOf
<1>3. tab' = [tab EXCEPT ![t] = p] /\ fetches' = [fetches EXCEPT ![t] = fs]
  BY DEF Finish
<1>4. UNCHANGED Server /\ storage' \in 0 .. logins
  BY DEF Finish
<1> HIDE DEF fs
<1> QED
  BY <1>1, <1>2, <1>3, <1>4, ScriptStep

\* A step of the server, or of what lies between, about one request.
LEMMA SettleStep ==
  ASSUME BrowserInv, NEW t \in Tabs, NEW i \in Slots, NEW f, f \in Fetch,
         UNCHANGED <<tab, storage>>, fetches' = [fetches EXCEPT ![t] = [fetches[t] EXCEPT ![i] = f]],
         SessionsOK(logins', live', storage'), logins <= logins',
         live' \subseteq live \cup (logins + 1 .. logins'),
         FetchOK(f, tab[t].edit, logins', live')
  PROVE  BrowserInv'
<1> DEFINE fs == [fetches[t] EXCEPT ![i] = f]
<1>1. fs \in [Slots -> Fetch \cup {Null}] /\ fs[i] = f /\ \A j \in Slots \ {i} : fs[j] = fetches[t][j]
  BY InvOf
<1>2. logins \in Nat /\ logins' \in Nat /\ tab[t].edit \in Nat /\ PageOK(tab[t], logins')
  BY InvOf DEF SessionsOK, PageOK, PageState
<1>3. \A j \in Slots \ {i} : fs[j] # Null => FetchOK(fs[j], tab[t].edit, logins', live')
  BY <1>1, <1>2, InvOf, FetchStays
<1>4. \A j \in Slots : fs[j] # Null => FetchOK(fs[j], tab[t].edit, logins', live')
  BY <1>1, <1>3
<1>5. tab' = [tab EXCEPT ![t] = tab[t]] /\ fetches' = [fetches EXCEPT ![t] = fs]
  BY InvOf
<1> HIDE DEF fs
<1> QED
  BY <1>1, <1>2, <1>4, <1>5, TabStep

-----------------------------------------------------------------------------
(* What the user does. *)

\* A page is opened without edits, and its requests are new.
LEMMA LoadKeeps ==
  ASSUME BrowserInv, NEW t \in Tabs, NEW page, Load(t, page)
  PROVE  BrowserInv'
<1> DEFINE fs == IF FirstFetch(page) = "none" \/ storage = 0 THEN Idle
                 ELSE Adding(Idle, Request(FirstFetch(page), storage, 0))
<1>1. page \in AllPages /\ SessionsOK(logins, live, storage)
  BY BrowserAssumption, InvOf DEF Load
<1>2. PageOK(Loaded(page), logins) /\ Loaded(page).edit = 0
  <2>1. Loaded(page) \in PageState
    <3>1. Fresh(page) \in PageState
      <4>1. (page # "add_sale") \in BOOLEAN /\ (page \notin {"dashboard", "view_sales"}) \in BOOLEAN
        OBVIOUS
      <4> QED
        BY <1>1, <4>1 DEF Fresh, PageState
    <3>2. storage \in Nat /\ "login" \in AllPages
      BY <1>1 DEF SessionsOK, AllPages
    <3> QED
      BY <3>1, <3>2 DEF Loaded, PageState
  <2>2. /\ Loaded(page).edit = 0 /\ Loaded(page).confirmed = {} /\ Loaded(page).dirty = FALSE
        /\ Loaded(page).warned = {}
        /\ Loaded(page).token \in {0, storage}
    BY DEF Loaded, Fresh
  <2> QED
    BY <1>1, <2>1, <2>2 DEF PageOK, SessionsOK
<1>3. Idle \in [Slots -> Fetch \cup {Null}] /\ \A i \in Slots : Idle[i] = Null
  BY DEF Idle
<1>4. fs \in [Slots -> Fetch \cup {Null}]
      /\ \A i \in Slots : fs[i] # Null => FetchOK(fs[i], 0, logins, live)
  <2>1. CASE fs = Idle
    BY <1>3, <2>1
  <2>2. CASE fs = Adding(Idle, Request(FirstFetch(page), storage, 0)) /\ FirstFetch(page) # "none"
    <3>1. FetchOK(Request(FirstFetch(page), storage, 0), 0, logins, live)
      BY <1>1, <2>2, RequestOK DEF FirstFetch, Kinds, SessionsOK
    <3>2. Request(FirstFetch(page), storage, 0) \in Fetch
      BY <3>1 DEF FetchOK
    <3> QED
      BY <1>3, <2>2, <3>1, <3>2, AddingType
  <2> QED
    BY <2>1, <2>2
<1>5. tab' = [tab EXCEPT ![t] = Loaded(page)] /\ fetches' = [fetches EXCEPT ![t] = fs]
  BY DEF Load
<1>6. UNCHANGED Server /\ storage' \in 0 .. logins
  BY <1>1 DEF Load, SessionsOK
<1> HIDE DEF fs
<1> QED
  BY <1>2, <1>4, <1>5, <1>6, ScriptStep

\* Whatever the user clicks or types, in any page.
LEMMA UserKeeps ==
  ASSUME BrowserInv, NEW t \in Tabs, User(t)
  PROVE  BrowserInv'
<1> DEFINE p == tab[t]
<1>1. /\ PageOK(p, logins) /\ p \in PageState /\ p.edit \in Nat /\ logins \in Nat
      /\ storage \in 0 .. logins /\ p.token \in 0 .. logins
  BY InvOf DEF PageOK, PageState, SessionsOK
<1>2. \A q \in PageState : q.token = p.token /\ q.edit = p.edit /\ q.confirmed = p.confirmed
                             /\ q.page = p.page /\ q.warned = p.warned /\ q.dirty = p.dirty => PageOK(q, logins)
  BY <1>1, PageStays
<1>3. CASE \E page \in Pages : Load(t, page)
  BY <1>3, LoadKeeps
<1>4. CASE ClickLogin(t)
  <2>1. FetchOK(Request("login", 0, 0), p.edit, logins, live)
    BY <1>1, RequestOK DEF Kinds
  <2>2. tab' = [tab EXCEPT ![t] = p]
    BY <1>4, InvOf DEF ClickLogin
  <2> QED
    BY <1>1, <1>4, <2>1, <2>2, SendStep DEF ClickLogin
<1>5. CASE ClickLogoutOfDashboard(t)
  <2>1. FetchOK(Request("logout", p.token, 0), p.edit, logins, live)
    BY <1>1, RequestOK DEF Kinds
  <2>2. tab' = [tab EXCEPT ![t] = p]
    BY <1>5, InvOf DEF ClickLogoutOfDashboard
  <2> QED
    BY <1>1, <1>5, <2>1, <2>2, SendStep DEF ClickLogoutOfDashboard
<1>6. CASE ClickLogout(t)
  <2>1. CASE Click(t, "logout", tab[t])
    BY <1>1, <2>1, ClickStep DEF Kinds
  <2>2. CASE ~Click(t, "logout", tab[t])
    <3> DEFINE f == Request("logout", storage, 0)
               fs == Adding(Adding(fetches[t], f), f)
    <3>1. /\ UNCHANGED <<Server, storage, tab>>
          /\ fetches' = [fetches EXCEPT ![t] = Adding(Adding(@, f), f)]
      BY <1>6, <2>2 DEF ClickLogout
    <3>2. FetchOK(f, p.edit, logins, live)
      BY <1>1, RequestOK DEF Kinds
    <3>3. f \in Fetch
      BY <3>2 DEF FetchOK
    <3> HIDE DEF f
    <3>4. /\ Adding(fetches[t], f) \in [Slots -> Fetch \cup {Null}]
          /\ \A i \in Slots : Adding(fetches[t], f)[i] \in {fetches[t][i], f}
      BY <3>3, InvOf, AddingType
    <3>5. fs \in [Slots -> Fetch \cup {Null}] /\ \A i \in Slots : fs[i] \in {fetches[t][i], f}
      BY <3>3, <3>4, AddingType
    <3>6. \A i \in Slots : fs[i] # Null => FetchOK(fs[i], p.edit, logins, live)
      BY <3>2, <3>5, InvOf
    <3>7. tab' = [tab EXCEPT ![t] = p] /\ fetches' = [fetches EXCEPT ![t] = fs]
      BY <3>1, InvOf
    <3>8. storage' \in 0 .. logins
      BY <1>1, <3>1
    <3> HIDE DEF fs, p
    <3> QED
      BY <1>1, <3>1, <3>5, <3>6, <3>7, <3>8, ScriptStep
  <2> QED
    BY <2>1, <2>2
<1>7. CASE ChangeMonth(t)
  BY <1>1, <1>7, ClickStep DEF ChangeMonth, Kinds
<1>8. CASE SubmitAddition(t)
  BY <1>1, <1>8, ClickStep DEF SubmitAddition, Kinds
<1>9. CASE Search(t)
  <2> DEFINE what == IF p.page = "edit_customers" THEN "whoami" ELSE "search"
             q == [p EXCEPT !.searching = TRUE, !.shown = FALSE]
  <2>1. q \in PageState /\ q.edit = p.edit /\ PageOK(q, logins)
    BY <1>1, <1>2 DEF PageState
  <2>2. Click(t, what, q)
    BY <1>9, InvOf DEF Search
  <2>3. what \in Kinds \ {"login"}
    BY DEF Kinds
  <2> HIDE DEF what, q
  <2> QED
    BY <2>1, <2>2, <2>3, ClickStep
<1>10. CASE Type(t)
  <2>1. PICK chosen \in {p.customer, p.choices} :
          tab' = [tab EXCEPT ![t].edit = @ + 1, ![t].dirty = TRUE, ![t].save = TRUE,
                             ![t].customer = chosen]
    BY <1>10 DEF Type
  <2> DEFINE q == [p EXCEPT !.edit = @ + 1, !.dirty = TRUE, !.save = TRUE, !.customer = chosen]
  <2>2. chosen \in BOOLEAN
    BY <1>1 DEF PageState
  <2>3. /\ q \in PageState /\ q.edit = p.edit + 1 /\ q.confirmed = p.confirmed
        /\ q.token = p.token /\ q.page = p.page /\ q.warned = p.warned
    <3>1. p.edit + 1 \in Nat
      BY <1>1
    <3>2. [p EXCEPT !.dirty = TRUE, !.save = TRUE, !.customer = chosen] \in PageState
      BY <1>1, <2>2 DEF PageState
    <3> QED
      BY <1>1, <2>2, <3>1, <3>2 DEF PageState
  <2>4. PageOK(q, logins)
    <3>1. \A k \in p.confirmed : k \in Nat /\ k <= p.edit
      BY <1>1 DEF PageOK, PageState
    <3>2. p.edit + 1 \notin p.confirmed
      BY <1>1, <3>1
    <3> QED
      BY <1>1, <2>3, <3>1, <3>2 DEF PageOK
  <2>5. tab' = [tab EXCEPT ![t] = q]
    BY <2>1, InvOf
  <2>6. q.edit >= p.edit /\ UNCHANGED <<Server, storage, fetches>>
    BY <1>1, <1>10, <2>3 DEF Type
  <2> HIDE DEF q
  <2> QED
    BY <2>4, <2>5, <2>6, PageStep
<1>11. CASE ClickSave(t)
  <2> DEFINE q == Saving(p)
  <2>1. /\ q \in PageState /\ q.edit = p.edit /\ q.token = p.token
        /\ q.confirmed = p.confirmed /\ q.dirty = p.dirty /\ q.page = p.page /\ q.warned = p.warned
    BY <1>1 DEF PageState, Saving
  <2>2. PageOK(q, logins) /\ Click(t, "save", q)
    BY <1>2, <1>11, <2>1 DEF ClickSave
  <2> QED
    BY <2>1, <2>2, ClickStep DEF Kinds
<1>12. CASE ClickSaveWithoutCustomer(t)
  <2> DEFINE q == IF storage = 0 THEN Going(p) ELSE Saving(p)
  <2>1. /\ Saving(p) \in PageState /\ Saving(p).edit = p.edit /\ Saving(p).token = p.token
        /\ Saving(p).confirmed = p.confirmed /\ Saving(p).dirty = p.dirty
        /\ Saving(p).page = p.page /\ Saving(p).warned = p.warned
    BY <1>1 DEF PageState, Saving
  <2>2. PageOK(q, logins) /\ q.edit >= p.edit
    BY <1>1, <1>2, <2>1, GoingOK
  <2>3. tab' = [tab EXCEPT ![t] = q] /\ UNCHANGED <<Server, storage, fetches>>
    BY <1>12, InvOf DEF ClickSaveWithoutCustomer
  <2> HIDE DEF q
  <2> QED
    BY <2>2, <2>3, PageStep
<1> QED
  BY <1>3, <1>4, <1>5, <1>6, <1>7, <1>8, <1>9, <1>10, <1>11, <1>12 DEF User

-----------------------------------------------------------------------------
(* What the server does, and what lies between. *)

\* A login that is answered gets a token no request has; an answer that refuses
\* is of an ended session, and a logout ends its own.
LEMMA SettleKeeps ==
  ASSUME BrowserInv, NEW t \in Tabs, NEW i \in Slots, Settle(t, i)
  PROVE  BrowserInv'
<1> DEFINE f == fetches[t][i]
           g(status) == [f EXCEPT !.status = status]
           fs(h) == [fetches[t] EXCEPT ![i] = h]
           Becomes(status) == fetches' = [fetches EXCEPT ![t][i].status = status]
<1>1. /\ fetches[t] \in [Slots -> Fetch \cup {Null}]
      /\ SessionsOK(logins, live, storage) /\ logins \in Nat /\ live \subseteq 1 .. logins
  BY InvOf DEF SessionsOK
<1>2. f # Null /\ f.status = Sent
  BY DEF Settle, HandleLogin, Handle, Fail, Waiting
<1>3. f \in Fetch /\ FetchOK(f, tab[t].edit, logins, live)
  BY <1>1, <1>2, InvOf
<1>4. \A status \in Int : g(status) \in Fetch /\ g(status).status = status
                          /\ g(status).what = f.what /\ g(status).token = f.token
                          /\ g(status).edit = f.edit
  BY <1>3 DEF Fetch
<1>5. CASE HandleLogin(t, i)
  <2>1. f.token = 0 /\ f.what = "login"
    BY <1>2, <1>3, <1>5 DEF HandleLogin, FetchOK, Sent
  <2>2. CASE logins' = logins + 1 /\ live' = live \cup {logins'}
             /\ fetches' = [fetches EXCEPT ![t][i] = [@ EXCEPT !.status = 200, !.token = logins']]
    <3> DEFINE h == [f EXCEPT !.status = 200, !.token = logins + 1]
    <3>1. /\ h \in Fetch /\ h.status = 200 /\ h.what = "login" /\ h.token = logins + 1
          /\ h.edit = f.edit
      <4>1. \A r \in Fetch, k \in Nat :
              /\ [r EXCEPT !.token = k] \in Fetch /\ [r EXCEPT !.token = k].what = r.what
              /\ [r EXCEPT !.token = k].token = k /\ [r EXCEPT !.token = k].edit = r.edit
        BY DEF Fetch
      <4>2. logins + 1 \in Nat /\ 200 \in Int
        BY <1>1
      <4>3. h = [g(200) EXCEPT !.token = logins + 1]
        BY <1>3 DEF Fetch
      <4>4. h.status = 200
        BY <1>3 DEF Fetch
      <4> HIDE DEF g
      <4> QED
        BY <1>4, <2>1, <4>1, <4>2, <4>3, <4>4
    <3>2. fetches' = [fetches EXCEPT ![t] = fs(h)]
      BY <1>1, <2>2, InvOf
    <3>3. FetchOK(h, tab[t].edit, logins', live')
      BY <1>1, <1>3, <2>2, <3>1 DEF FetchOK
    <3>4. /\ SessionsOK(logins', live', storage') /\ logins <= logins'
          /\ live' \subseteq live \cup (logins + 1 .. logins')
      BY <1>1, <1>5, <2>2 DEF SessionsOK, HandleLogin
    <3>5. UNCHANGED <<tab, storage>>
      BY <1>5 DEF HandleLogin
    <3>6. h \in Fetch
      BY <3>1
    <3> HIDE DEF h
    <3> QED
      BY <3>2, <3>3, <3>4, <3>5, <3>6, SettleStep
  <2>3. CASE fetches' = [fetches EXCEPT ![t][i].status = 401] /\ UNCHANGED Server
    <3>1. fetches' = [fetches EXCEPT ![t] = fs(g(401))]
      BY <1>1, <2>3, InvOf
    <3>2. 0 \notin live
      BY <1>1
    <3>3. FetchOK(g(401), tab[t].edit, logins, live)
      BY <1>3, <1>4, <2>1, <3>2 DEF FetchOK
    <3>4. UNCHANGED <<tab, storage>>
      BY <1>5 DEF HandleLogin
    <3>5. storage' \in 0 .. logins /\ logins' = logins /\ live' = live
      BY <1>1, <2>3, <3>4 DEF SessionsOK, Server
    <3>6. /\ SessionsOK(logins', live', storage') /\ logins <= logins'
          /\ live' \subseteq live \cup (logins + 1 .. logins')
          /\ FetchOK(g(401), tab[t].edit, logins', live')
      BY <1>1, <3>3, <3>5 DEF SessionsOK
    <3>7. g(401) \in Fetch
      BY <1>4
    <3> HIDE DEF g
    <3> QED
      BY <3>1, <3>4, <3>6, <3>7, SettleStep
  <2> QED
    BY <1>5, <2>2, <2>3 DEF HandleLogin
<1>6. ASSUME NEW status \in Int, UNCHANGED <<logins, storage, tab>>,
             live' \subseteq live, Becomes(status),
             FetchOK(g(status), tab[t].edit, logins, live')
      PROVE  BrowserInv'
  <2>1. fetches' = [fetches EXCEPT ![t] = fs(g(status))]
    BY <1>1, <1>6, InvOf
  <2>2. /\ SessionsOK(logins', live', storage') /\ logins <= logins'
        /\ live' \subseteq live \cup (logins + 1 .. logins')
        /\ FetchOK(g(status), tab[t].edit, logins', live')
    BY <1>1, <1>6 DEF SessionsOK
  <2> HIDE DEF g
  <2> QED
    BY <1>4, <1>6, <2>1, <2>2, SettleStep
<1>7. \A status : Ended(f, status) \subseteq live
  BY DEF Ended
<1>8. CASE Handle(t, i)
  <2>1. PICK status \in IF f.token \in live THEN Statuses(f.what) ELSE {401} :
          /\ fetches' = [fetches EXCEPT ![t][i].status = status]
          /\ live' = Ended(f, status)
    BY <1>8 DEF Handle
  <2>2. f.what # "login"
    BY <1>8 DEF Handle
  <2>3. status \in {200, 401, 403, 404, 409, 500} /\ (status = 401 => f.token \notin live)
    BY <2>1 DEF Statuses
  <2>4. f.what = "current_user" => status \in {200, 401}
    BY <2>1 DEF Statuses
  <2>5. f.what = "logout" /\ status = 200 => f.token \notin live'
    BY <2>1 DEF Ended
  <2>6. FetchOK(g(status), tab[t].edit, logins, live')
    BY <1>3, <1>4, <1>7, <2>1, <2>2, <2>3, <2>4, <2>5 DEF FetchOK
  <2>7. UNCHANGED <<logins, storage, tab>>
    BY <1>8 DEF Handle
  <2>8. status \in Int /\ live' \subseteq live /\ Becomes(status)
    BY <1>7, <2>1, <2>3
  <2> HIDE DEF g, Becomes
  <2> QED
    BY <1>6, <2>6, <2>7, <2>8
<1>9. CASE Fail(t, i)
  <2>1. live' \subseteq live /\ UNCHANGED <<logins, storage, tab>>
    BY <1>7, <1>9 DEF Fail
  <2>2. Becomes(Failed) /\ Failed \in Int
    BY <1>9 DEF Fail, Failed
  <2>3. FetchOK(g(Failed), tab[t].edit, logins, live')
    BY <1>2, <1>3, <1>4 DEF FetchOK, Failed, Sent
  <2> HIDE DEF g, Becomes
  <2> QED
    BY <1>6, <2>1, <2>2, <2>3
<1> QED
  BY <1>5, <1>8, <1>9 DEF Settle

\* Sessions that end otherwise.
LEMMA EndKeeps ==
  ASSUME BrowserInv, UNCHANGED <<logins, storage, tab, fetches>>, live' \subseteq live
  PROVE  BrowserInv'
<1>1. SessionsOK(logins', live', storage') /\ TabsOK'
  BY DEF BrowserInv, SessionsOK, TabsOK
<1>2. ASSUME NEW t \in Tabs, NEW i \in Slots, fetches[t][i] # Null
      PROVE  FetchOK(fetches[t][i], tab[t].edit, logins, live')
  BY <1>2 DEF BrowserInv, FetchesOK, FetchOK
<1> QED
  BY <1>1, <1>2 DEF BrowserInv, FetchesOK

-----------------------------------------------------------------------------
(* What scripts do with answers. *)

\* Each goes on to a right page, and stores a token it was given, the one it
\* had, or none.
LEMMA ContinueKeeps ==
  ASSUME BrowserInv, NEW t \in Tabs, NEW i \in Slots, Continue(t, i)
  PROVE  BrowserInv'
<1> DEFINE p == tab[t]
           f == fetches[t][i]
<1>1. /\ PageOK(p, logins) /\ p \in PageState /\ p.edit \in Nat /\ logins \in Nat
      /\ storage \in 0 .. logins /\ 0 \in 0 .. logins
  BY InvOf DEF PageOK, PageState, SessionsOK
<1>2. \A q \in PageState : q.token = p.token /\ q.edit = p.edit /\ q.confirmed = p.confirmed
                             /\ q.page = p.page /\ q.warned = p.warned /\ (q.dirty => p.dirty) => PageOK(q, logins)
  BY <1>1, PageStays
<1>3. f # Null /\ FetchOK(f, p.edit, logins, live) /\ f \in Fetch
  <2>1. f # Null
    BY DEF Continue, LoginAnswered, UserAnswered, ListAnswered, CustomersAnswered, WhoamiAnswered,
       SearchAnswered, SaveAnswered, LogoutAnswered, Answered
  <2>2. FetchOK(f, p.edit, logins, live)
    BY <2>1, InvOf
  <2> QED
    BY <2>1, <2>2 DEF FetchOK
<1>4. PageOK(Going(p), logins) /\ Going(p).edit = p.edit
  BY <1>1, GoingOK
<1>5. ASSUME NEW q, NEW token \in 0 .. logins, PageOK(q, logins), q.edit = p.edit, Finish(t, i, q, token)
      PROVE  BrowserInv'
  BY <1>5, FinishStep
<1>6. CASE LoginAnswered(t, i)
  <2> DEFINE q == [p EXCEPT !.next = "dashboard"]
  <2>1. q \in PageState /\ q.edit = p.edit /\ PageOK(q, logins)
    BY <1>1, <1>2 DEF PageState, AllPages
  <2>2. f.token \in 0 .. logins
    BY <1>1, <1>3 DEF FetchOK, Fetch
  <2>3. Finish(t, i, q, f.token) \/ Finish(t, i, p, storage)
    BY <1>6 DEF LoginAnswered
  <2> HIDE DEF q
  <2> QED
    BY <1>1, <1>5, <2>1, <2>2, <2>3
<1>7. CASE UserAnswered(t, i)
  <2> DEFINE q == [p EXCEPT !.canLogout = TRUE]
  <2>1. q \in PageState /\ q.edit = p.edit /\ PageOK(q, logins)
    BY <1>1, <1>2 DEF PageState
  <2>2. Finish(t, i, q, storage) \/ Finish(t, i, p, storage) \/ Finish(t, i, Going(p), 0)
    BY <1>7 DEF UserAnswered
  <2> HIDE DEF q
  <2> QED
    BY <1>1, <1>4, <1>5, <2>1, <2>2
<1>8. CASE ListAnswered(t, i)
  <2> DEFINE q == [p EXCEPT !.canLogout = @ \/ f.status = 200]
  <2>1. q \in PageState /\ q.edit = p.edit /\ PageOK(q, logins)
    <3>1. (p.canLogout \/ f.status = 200) \in BOOLEAN
      OBVIOUS
    <3> QED
      BY <1>1, <1>2, <3>1 DEF PageState
  <2>2. Finish(t, i, q, storage) \/ Finish(t, i, Going(p), 0)
    BY <1>8 DEF ListAnswered
  <2> HIDE DEF q
  <2> QED
    BY <1>1, <1>4, <1>5, <2>1, <2>2
<1>9. CASE CustomersAnswered(t, i)
  <2> DEFINE q == [p EXCEPT !.choices = @ \/ f.status = 200]
  <2>1. q \in PageState /\ q.edit = p.edit /\ PageOK(q, logins)
    <3>1. (p.choices \/ f.status = 200) \in BOOLEAN
      OBVIOUS
    <3> QED
      BY <1>1, <1>2, <3>1 DEF PageState
  <2>2. Finish(t, i, q, storage)
    BY <1>9 DEF CustomersAnswered
  <2> HIDE DEF q
  <2> QED
    BY <1>1, <1>5, <2>1, <2>2
<1>10. CASE WhoamiAnswered(t, i)
  <2> DEFINE h == IF f.status = Failed THEN Null ELSE Request("search", f.token, 0)
             fs == [fetches[t] EXCEPT ![i] = h]
  <2>1. FetchOK(Request("search", f.token, 0), p.edit, logins, live)
    <3>1. f.token \in 0 .. logins
      BY <1>1, <1>3 DEF FetchOK, Fetch
    <3> QED
      BY <1>1, <3>1, RequestOK DEF Kinds
  <2>2. h = Null \/ (h \in Fetch /\ FetchOK(h, p.edit, logins, live))
    BY <2>1 DEF FetchOK
  <2>3. /\ fs \in [Slots -> Fetch \cup {Null}]
        /\ \A j \in Slots : fs[j] \in {fetches[t][j], h}
    BY <2>2, InvOf
  <2>4. \A j \in Slots : fs[j] # Null => FetchOK(fs[j], p.edit, logins, live)
    BY <2>2, <2>3, InvOf
  <2>5. tab' = [tab EXCEPT ![t] = p] /\ fetches' = [fetches EXCEPT ![t] = fs]
    BY <1>10, InvOf DEF WhoamiAnswered
  <2>6. UNCHANGED Server /\ storage' \in 0 .. logins
    BY <1>1, <1>10 DEF WhoamiAnswered
  <2> HIDE DEF fs, h
  <2> QED
    BY <1>1, <2>3, <2>4, <2>5, <2>6, ScriptStep
<1>11. CASE SearchAnswered(t, i)
  <2> DEFINE q(r) == [r EXCEPT !.searching = FALSE]
  <2>1. q(p) \in PageState /\ q(p).edit = p.edit /\ PageOK(q(p), logins)
    BY <1>1, <1>2 DEF PageState
  <2>2. /\ Filled(p) \in PageState /\ Filled(p).edit = p.edit /\ Filled(p).token = p.token
        /\ Filled(p).confirmed = p.confirmed /\ Filled(p).dirty = FALSE
        /\ Filled(p).page = p.page /\ Filled(p).warned = p.warned
    <3>1. (p.page \notin Editors) \in BOOLEAN /\ (p.page # "add_sale") \in BOOLEAN
      OBVIOUS
    <3> QED
      BY <1>1, <3>1 DEF Filled, PageState
  <2>3. q(Filled(p)) \in PageState /\ q(Filled(p)).edit = p.edit /\ PageOK(q(Filled(p)), logins)
    BY <1>2, <2>2 DEF PageState
  <2>4. Finish(t, i, q(p), storage) \/ Finish(t, i, q(Filled(p)), storage)
    BY <1>11 DEF SearchAnswered
  <2> HIDE DEF q
  <2> QED
    BY <1>1, <1>5, <2>1, <2>3, <2>4
<1>12. CASE SaveAnswered(t, i)
  <2> DEFINE q(r) == [r EXCEPT !.save = TRUE, !.saving = FALSE]
  <2>1. \A r \in PageState : /\ q(r) \in PageState /\ q(r).edit = r.edit /\ q(r).token = r.token
                             /\ q(r).confirmed = r.confirmed /\ q(r).dirty = r.dirty
                             /\ q(r).page = r.page /\ q(r).warned = r.warned
    BY DEF PageState
  <2>2. PageOK(Saved(p, f), logins) /\ Saved(p, f).edit = p.edit
    <3>1. f.edit \in Nat /\ f.edit <= p.edit
      BY <1>3 DEF FetchOK, Fetch
    <3>2. /\ Saved(p, f) \in PageState /\ Saved(p, f).edit = p.edit
          /\ Saved(p, f).token = p.token /\ Saved(p, f).dirty = FALSE
          /\ Saved(p, f).confirmed = p.confirmed \cup {f.edit}
          /\ Saved(p, f).page = p.page /\ Saved(p, f).warned = p.warned
      BY <1>1, <3>1 DEF Saved, PageState
    <3> QED
      BY <1>1, <3>1, <3>2 DEF PageOK
  <2>3. p.page = "add_sale" => PageOK(Warned(p, f), logins) /\ Warned(p, f).edit = p.edit
    <3>1. f.edit \in Nat /\ f.edit <= p.edit
      BY <1>3 DEF FetchOK, Fetch
    <3>2. /\ Warned(p, f) \in PageState /\ Warned(p, f).edit = p.edit
          /\ Warned(p, f).token = p.token /\ Warned(p, f).dirty = p.dirty
          /\ Warned(p, f).confirmed = p.confirmed \cup {f.edit}
          /\ Warned(p, f).page = p.page /\ Warned(p, f).warned = p.warned \cup {f.edit}
      BY <1>1, <3>1 DEF Warned, PageState
    <3> QED
      BY <1>1, <3>1, <3>2 DEF PageOK
  <2> DEFINE pages == {p, Saved(p, f), Going(p)} \cup IF p.page = "add_sale" THEN {Warned(p, f)} ELSE {}
  <2>4. \A r \in pages : PageOK(r, logins) /\ r.edit = p.edit
    BY <1>1, <1>4, <2>2, <2>3
  <2>5. \A r \in pages : PageOK(q(r), logins) /\ q(r).edit = p.edit
    <3> HIDE DEF pages, q
    <3> SUFFICES ASSUME NEW r \in pages PROVE PageOK(q(r), logins) /\ q(r).edit = p.edit
      OBVIOUS
    <3>1. PageOK(r, logins) /\ r \in PageState /\ r.edit = p.edit
      BY <2>4 DEF PageOK
    <3> QED
      BY <2>1, <3>1, PageStays
  <2>6. \E r \in pages, token \in {0, storage} : Finish(t, i, q(r), token)
    <3> DEFINE page == CASE f.status = 200 -> Saved(p, f)
                         [] f.status = 401 -> Going(p)
                         [] f.status = 403 /\ p.page = "add_sale" -> Warned(p, f)
                         [] OTHER -> p
               token == IF f.status = 401 THEN 0 ELSE storage
    <3>1. Finish(t, i, q(page), token)
      BY <1>12 DEF SaveAnswered
    <3>2. page \in pages /\ token \in {0, storage}
      OBVIOUS
    <3> HIDE DEF q, page, pages, token
    <3> QED
      BY <3>1, <3>2
  <2> HIDE DEF q, pages
  <2> QED
    BY <1>1, <1>5, <2>5, <2>6
<1>13. CASE LogoutAnswered(t, i)
  <2>1. \E r \in {p, Going(p)}, token \in {0, storage} : Finish(t, i, r, token)
    BY <1>13 DEF LogoutAnswered
  <2> QED
    BY <1>1, <1>4, <1>5, <2>1
<1> QED
  BY <1>6, <1>7, <1>8, <1>9, <1>10, <1>11, <1>12, <1>13 DEF Continue

-----------------------------------------------------------------------------
(* The theorems. *)

\* The invariant holds in every state.
LEMMA BrowserInvariant == Spec => []BrowserInv
<1>1. Init => BrowserInv
  <2> SUFFICES ASSUME Init PROVE BrowserInv
    OBVIOUS
  <2>1. Fresh("login") \in PageState
    <3>1. /\ ("login" # "add_sale") \in BOOLEAN
          /\ ("login" \notin {"dashboard", "view_sales"}) \in BOOLEAN
      OBVIOUS
    <3> QED
      BY <3>1 DEF Fresh, PageState, AllPages
  <2>2. PageOK(Fresh("login"), 0)
    BY <2>1 DEF PageOK, Fresh
  <2>3. Idle \in [Slots -> Fetch \cup {Null}] /\ \A i \in Slots : Idle[i] = Null
    BY DEF Idle
  <2>4. TabsOK /\ FetchesOK
    BY <2>1, <2>2, <2>3 DEF Init, TabsOK, FetchesOK
  <2>5. SessionsOK(logins, live, storage)
    BY DEF Init, SessionsOK
  <2> QED
    BY <2>4, <2>5 DEF BrowserInv
<1>2. BrowserInv /\ [Next]_vars => BrowserInv'
  <2> SUFFICES ASSUME BrowserInv, [Next]_vars PROVE BrowserInv'
    OBVIOUS
  <2>1. ASSUME NEW t \in Tabs, User(t) PROVE BrowserInv'
    BY <2>1, UserKeeps
  <2>2. ASSUME NEW t \in Tabs, Arrive(t) PROVE BrowserInv'
    BY <2>2, LoadKeeps DEF Arrive
  <2>3. ASSUME NEW t \in Tabs, NEW i \in Slots, Settle(t, i) PROVE BrowserInv'
    BY <2>3, SettleKeeps
  <2>4. ASSUME NEW t \in Tabs, NEW i \in Slots, Continue(t, i) PROVE BrowserInv'
    BY <2>4, ContinueKeeps
  <2>5. CASE HandleAdrift \/ Restart
    BY <2>5, EndKeeps DEF HandleAdrift, Restart
  <2>6. CASE UNCHANGED vars
    BY <2>6, EndKeeps DEF vars
  <2> QED
    BY <2>1, <2>2, <2>3, <2>4, <2>5, <2>6 DEF Next
<1> QED
  BY <1>1, <1>2, PTL DEF Spec

\* The browser forgets its session only on the answer to a request whose
\* session has ended, in any interleaving of tabs, answers, failures, logins
\* and restarts.
THEOREM SessionsAreKept == Spec => SessionsAreForgottenWhenEnded
<1> DEFINE Forgets == storage # 0 /\ storage' = 0
           Justified == \E t \in Tabs : \E i \in DOMAIN fetches[t] :
                          GoesOn(t, i) /\ fetches[t][i].token \notin live
<1>1. ASSUME BrowserInv, Next, Forgets PROVE Justified
  <2>1. storage' # storage
    BY <1>1
  <2>2. ~HandleAdrift /\ ~Restart
    BY <2>1 DEF HandleAdrift, Restart
  <2>3. \A t \in Tabs : ~User(t) /\ ~Arrive(t) /\ \A i \in Slots : ~Settle(t, i)
    <3>1. \A t, page : ~Load(t, page)
      BY <2>1 DEF Load
    <3>2. \A t, what, page : ~Click(t, what, page)
      BY <2>1 DEF Click
    <3>3. \A t \in Tabs : ~User(t)
      BY <2>1, <3>1, <3>2 DEF User, ClickLogin, ClickLogoutOfDashboard, ClickLogout, ChangeMonth,
         SubmitAddition, Search, Type, ClickSave, ClickSaveWithoutCustomer
    <3>4. \A t \in Tabs, i \in Slots : ~Settle(t, i)
      BY <2>1 DEF Settle, HandleLogin, Handle, Fail
    <3> QED
      BY <3>1, <3>3, <3>4 DEF Arrive
  <2>4. PICK t \in Tabs, i \in Slots : Continue(t, i)
    BY <1>1, <2>2, <2>3 DEF Next
  <2> DEFINE f == fetches[t][i]
  <2>5. /\ fetches[t] \in [Slots -> Fetch \cup {Null}]
        /\ f # Null => FetchOK(f, tab[t].edit, logins, live)
        /\ fetches \in [Tabs -> [Slots -> Fetch \cup {Null}]]
    BY <1>1 DEF BrowserInv, FetchesOK
  <2>6. ASSUME NEW q, Finish(t, i, q, 0), Answered(t, i, Kinds),
               f.status = 401 \/ (f.what = "logout" /\ f.status = 200)
        PROVE  Justified
    <3>1. f # Null /\ f.status # Sent
      BY <2>6 DEF Answered
    <3>2. f.token \notin live
      BY <2>5, <2>6, <3>1 DEF FetchOK
    <3>3. fetches'[t][i] = Null
      BY <2>5, <2>6 DEF Finish
    <3> QED
      BY <2>5, <3>1, <3>2, <3>3 DEF GoesOn
  <2>7. ASSUME NEW q, NEW token, Finish(t, i, q, token) PROVE token = 0
    BY <1>1, <2>7 DEF Finish
  <2>8. ASSUME NEW q PROVE ~Finish(t, i, q, storage)
    BY <2>1 DEF Finish
  <2>9. CASE LoginAnswered(t, i)
    <3>1. f.status = 200 /\ f.token = 0 /\ f # Null /\ f.what = "login"
      BY <2>7, <2>8, <2>9 DEF LoginAnswered, Answered
    <3> QED
      BY <2>5, <3>1 DEF FetchOK
  <2>10. CASE UserAnswered(t, i)
    <3>1. f.status \notin {200, Failed} /\ Finish(t, i, Going(tab[t]), 0)
      BY <2>8, <2>10 DEF UserAnswered
    <3>2. Answered(t, i, Kinds) /\ f.what = "current_user" /\ f # Null /\ f.status # Sent
      BY <2>10 DEF UserAnswered, Answered, Kinds
    <3>3. f.status = 401
      BY <2>5, <3>1, <3>2 DEF FetchOK
    <3> QED
      BY <2>6, <3>1, <3>2, <3>3
  <2>11. CASE ListAnswered(t, i)
    <3>1. f.status = 401 /\ Finish(t, i, Going(tab[t]), 0)
      BY <2>8, <2>11 DEF ListAnswered, Expired
    <3>2. Answered(t, i, Kinds)
      BY <2>11 DEF ListAnswered, Answered, Kinds
    <3> QED
      BY <2>6, <3>1, <3>2
  <2>12. CASE SaveAnswered(t, i)
    <3>1. PICK q : f.status = 401 /\ Finish(t, i, q, 0)
      BY <2>8, <2>12 DEF SaveAnswered
    <3>2. Answered(t, i, Kinds)
      BY <2>12 DEF SaveAnswered, Answered, Kinds
    <3> QED
      BY <2>6, <3>1, <3>2
  <2>13. CASE LogoutAnswered(t, i)
    <3>1. PICK q : f.status = 200 /\ Finish(t, i, q, 0)
      BY <2>8, <2>13 DEF LogoutAnswered
    <3>2. Answered(t, i, Kinds) /\ f.what = "logout"
      BY <2>13 DEF LogoutAnswered, Answered, Kinds
    <3> QED
      BY <2>6, <3>1, <3>2
  <2>14. ~CustomersAnswered(t, i) /\ ~WhoamiAnswered(t, i) /\ ~SearchAnswered(t, i)
    BY <2>1, <2>8 DEF CustomersAnswered, WhoamiAnswered, SearchAnswered
  <2> QED
    BY <2>4, <2>9, <2>10, <2>11, <2>12, <2>13, <2>14 DEF Continue
<1>2. BrowserInv /\ [Next]_vars => [Forgets => Justified]_vars
  BY <1>1
<1> QED
  BY <1>2, BrowserInvariant, PTL DEF Spec, SessionsAreForgottenWhenEnded

\* Of the requests of a tab that are new after one was added, the one is it.
LEMMA NewIsAdded ==
  ASSUME BrowserInv, NEW t \in Tabs, NEW f \in Fetch,
         fetches' = [fetches EXCEPT ![t] = Adding(@, f)],
         NEW u \in Tabs, NEW i \in NewSaves(u)
  PROVE  u = t /\ fetches'[u][i] = f /\ f.what = "save"
<1>1. i \in Slots /\ fetches[u][i] = Null /\ fetches'[u][i] # Null /\ fetches'[u][i].what = "save"
  BY InvOf DEF NewSaves
<1>2. u = t
  BY <1>1 DEF BrowserInv, FetchesOK
<1>3. fetches'[t] = Adding(fetches[t], f)
  BY DEF BrowserInv, FetchesOK
<1>4. fetches'[u][i] = f
  BY <1>1, <1>2, <1>3, InvOf, AddingType
<1> QED
  BY <1>1, <1>2, <1>4

\* A request that is sent has its kind, and its edit.
LEMMA RequestIs ==
  ASSUME NEW what \in Kinds, NEW token \in Nat, NEW e \in Nat
  PROVE  Request(what, token, e) \in Fetch /\ Request(what, token, e).what = what
         /\ Request(what, token, e).edit = e
BY DEF Request, Fetch, Sent

\* What a user was told is saved is not sent again, but for sales added with the warning.
THEOREM EditsAreSentOnce == Spec => OnlyWarnedSalesAreSentAgain
<1> DEFINE Once == \A t \in Tabs : \A i \in NewSaves(t) :
                     tab[t].page \in Editors /\ fetches'[t][i].edit \in tab[t].confirmed =>
                       tab[t].page = "add_sale" /\ fetches'[t][i].edit \in tab[t].warned
<1>1. ASSUME BrowserInv, Next, NEW u \in Tabs, NEW i \in NewSaves(u), tab[u].page \in Editors,
             fetches'[u][i].edit \in tab[u].confirmed
      PROVE  tab[u].page = "add_sale" /\ fetches'[u][i].edit \in tab[u].warned
  <2>1. /\ fetches \in [Tabs -> [Slots -> Fetch \cup {Null}]] /\ i \in Slots
        /\ fetches[u][i] = Null /\ fetches'[u][i] # Null /\ fetches'[u][i].what = "save"
    BY <1>1 DEF BrowserInv, FetchesOK, NewSaves
  <2>2. storage \in Nat /\ \A t \in Tabs : tab[t].token \in Nat /\ tab[t].edit \in Nat
    BY <1>1 DEF BrowserInv, SessionsOK, TabsOK, PageState
  <2>3. ASSUME NEW t \in Tabs, NEW f \in Fetch, fetches' = [fetches EXCEPT ![t] = Adding(@, f)]
        PROVE  u = t /\ fetches'[u][i] = f /\ f.what = "save"
    BY <1>1, <2>3, NewIsAdded
  <2>4. fetches' # fetches
    BY <2>1
  <2>5. \A t \in Tabs : \A page : ~Load(t, page)
    <3> SUFFICES ASSUME NEW t \in Tabs, NEW page, Load(t, page) PROVE FALSE
      OBVIOUS
    <3> DEFINE f == Request(FirstFetch(page), storage, 0)
    <3>1. FirstFetch(page) # "none" => f \in Fetch /\ f.what # "save"
      BY <2>2, RequestIs DEF FirstFetch, Kinds
    <3>2. Idle \in [Slots -> Fetch \cup {Null}] /\ Idle[i] = Null
      BY <2>1 DEF Idle
    <3>3. u = t /\ (fetches'[t] = Idle \/ (FirstFetch(page) # "none" /\ fetches'[t] = Adding(Idle, f)))
      BY <2>1 DEF Load
    <3> HIDE DEF f
    <3> QED
      BY <2>1, <3>1, <3>2, <3>3, AddingType
  <2>6. ASSUME NEW t \in Tabs, NEW what \in Kinds, NEW page, Click(t, what, page)
        PROVE  what = "save" /\ u = t /\ fetches'[u][i].edit = tab[t].edit
    <3> DEFINE f == Request(what, storage, IF what = "save" THEN tab[t].edit ELSE 0)
    <3>1. f \in Fetch /\ f.what = what /\ (what = "save" => f.edit = tab[t].edit)
      BY <2>2, RequestIs
    <3>2. fetches' = [fetches EXCEPT ![t] = Adding(@, f)]
      BY <2>4, <2>6 DEF Click
    <3> HIDE DEF f
    <3> QED
      BY <2>3, <3>1, <3>2
  <2>7. CASE \E t \in Tabs : ClickSave(t)
    <3>1. PICK t \in Tabs : ClickSave(t)
      BY <2>7
    <3>2. u = t /\ fetches'[u][i].edit = tab[u].edit
      BY <2>6, <3>1 DEF ClickSave, Kinds
    <3>3. tab[u].dirty /\ PageOK(tab[u], logins)
      BY <1>1, <3>1, <3>2, InvOf DEF ClickSave, CanSave
    <3> QED
      BY <1>1, <3>2, <3>3 DEF PageOK
  <2>8. ASSUME NEW t \in Tabs, User(t) PROVE ClickSave(t)
    <3>1. ~ClickLogin(t)
      BY <2>3, RequestIs DEF ClickLogin, Kinds
    <3>2. ~ClickLogoutOfDashboard(t)
      BY <2>2, <2>3, RequestIs DEF ClickLogoutOfDashboard, Kinds
    <3>3. ~Click(t, "logout", tab[t]) /\ ~ChangeMonth(t) /\ ~SubmitAddition(t)
      BY <2>6 DEF ChangeMonth, SubmitAddition, Kinds
    <3>4. ~Search(t)
      BY <2>6 DEF Search, Kinds
    <3>5. ~Type(t) /\ ~ClickSaveWithoutCustomer(t)
      BY <2>4 DEF Type, ClickSaveWithoutCustomer
    <3>6. ASSUME ClickLogout(t) PROVE FALSE
      <4> DEFINE f == Request("logout", storage, 0)
                 fs == Adding(Adding(fetches[t], f), f)
      <4>1. fetches' = [fetches EXCEPT ![t] = fs]
        BY <3>3, <3>6, <2>1 DEF ClickLogout
      <4>2. f \in Fetch /\ f.what = "logout"
        BY <2>2, RequestIs DEF Kinds
      <4> HIDE DEF f
      <4>3. /\ Adding(fetches[t], f) \in [Slots -> Fetch \cup {Null}]
            /\ Adding(fetches[t], f)[i] \in {fetches[t][i], f}
        BY <2>1, <4>2, AddingType
      <4>4. fs[i] \in {fetches[t][i], f}
        BY <2>1, <4>2, <4>3, AddingType
      <4> HIDE DEF fs
      <4> QED
        BY <2>1, <4>1, <4>2, <4>4
    <3> QED
      BY <2>5, <2>8, <3>1, <3>2, <3>3, <3>4, <3>5, <3>6 DEF User
  <2>9. ASSUME NEW t \in Tabs, NEW j \in Slots, Settle(t, j) \/ Continue(t, j) PROVE FALSE
    <3>1. fetches[t][j] # Null
      BY <2>9 DEF Settle, HandleLogin, Handle, Fail, Waiting, Continue, LoginAnswered, UserAnswered,
         ListAnswered, CustomersAnswered, WhoamiAnswered, SearchAnswered, SaveAnswered, LogoutAnswered,
         Answered
    <3>2. \E h : fetches' = [fetches EXCEPT ![t][j] = h]
      <4>1. CASE Settle(t, j)
        <5>1. \A status : [fetches EXCEPT ![t][j].status = status] =
                [fetches EXCEPT ![t][j] = [fetches[t][j] EXCEPT !.status = status]]
          BY <2>1
        <5> QED
          BY <4>1, <5>1 DEF Settle, HandleLogin, Handle, Fail
      <4>2. CASE Continue(t, j)
        BY <4>2 DEF Continue, LoginAnswered, UserAnswered, ListAnswered, CustomersAnswered,
           WhoamiAnswered, SearchAnswered, SaveAnswered, LogoutAnswered, Finish
      <4> QED
        BY <2>9, <4>1, <4>2
    <3>3. \A v \in Tabs, k \in Slots : v # t \/ k # j => fetches'[v][k] = fetches[v][k]
      BY <2>1, <3>2
    <3> QED
      BY <2>1, <3>1, <3>3
  <2>10. ~HandleAdrift /\ ~Restart
    BY <2>4 DEF HandleAdrift, Restart
  <2> QED
    BY <1>1, <2>5, <2>7, <2>8, <2>9, <2>10 DEF Next, Arrive
<1>2. BrowserInv /\ [Next]_vars => [Once]_vars
  BY <1>1
<1> QED
  BY <1>2, BrowserInvariant, PTL DEF Spec, OnlyWarnedSalesAreSentAgain
=============================================================================
