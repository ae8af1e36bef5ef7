# Prodexa in TLA+

A verification project for Prodexa, a product, sales and customer server: the
program `source_code/product_manager.cpp`, the part of the Crow HTTP library it
runs on (`crow/*.h`, in the repository), and the scripts of its pages
(`source_code/static/js`). Line numbers are of `product_manager.cpp` unless
another file is named.

## The system

One process. Crow accepts connections and hands each to a worker thread
(`app.multithreaded()`, 2125); a worker parses what it reads, finds a handler by
the request's path, and writes the answer. The handlers use one SQLite
database, over **one connection** `db_prodexa` for all the threads (13), and
three containers they share without a lock:

| shared state | declared | used by |
|---|---|---|
| tables `products`, `sales`, `customers`, `users`, `audit` | 114-203 | all handlers |
| `sqlite3_changes` of the connection | - | the UPDATE and DELETE helpers |
| `vector<Product> products` | 867 | `/add_product`, `/add_sale`, `/api/products`, `/get_product` |
| `vector<CustomerData> Customers` | 868 | `/add_customer` (the lists hide it with a local one) |
| `unordered_map sessions` | 96 | every handler's session check, login, logout |

The containers live in memory and are lost at a restart; the tables are not.
`fly.toml` stops and starts the machine with the load.

### Components

| component | state | operations | what makes it correct |
|---|---|---|---|
| product handlers | `products`, the vector | add, update, delete, list, search | an owner's rows are the owner's; answers agree with the table |
| sale handlers | `sales`, `products`, the vector | add, delete, list, search, monthly report | a stored sale took its units, once; stock below zero by edits only; a confirmed sale is seen |
| accounts, sessions, audit | `users`, `audit`, `sessions` | register, login, logout, check, lists, delete | a token is its login's; a session that ended stays so; the trail is in order |
| customers | `customers`, the vector | add, update, delete, lists | rows change by their owner; answers say what is stored |
| pages served | files | page routes, `/assets/<path>`, `/static/<path>` | what a page asks for is found |
| browser code | `localStorage`, a page's form and buttons | login, first requests, search, edit, save, logout | a session is forgotten when it ended; of what is confirmed only a sale with a warning is sent again; buttons come back |
| server | connections, event loops, timers, counters | accept, read, answer, deadlines, stop | connections are counted and freed; answers in order; stop ends |
| HTTP parser | parser, request | `execute` on each read, callbacks | what is handled is what was sent, however it was read |
| router, answers | tables of rules, response | `add`, `optimize`, `find`, `handle`, `complete_request` | the rule that fits; an answer of its own request; lengths |
| query strings | pairs | parse, `get`, `get_list`, `get_dict`, pops | values as they were meant |
| JSON | texts, values | `load`, reads, assignments, `dump` | JSON and nothing else is read; what is written reads back |
| price arithmetic, schema, deployment, rest of Crow | - | - | see *Not modelled* |

Components meet in the connection to the database (a statement of any handler changes
what `sqlite3_changes` returns to any other), in the session check that begins
every handler, in `users.owner`, by which an employee's products and customers
are found, and in the ids that sales keep of customers and audits of users. A
worker calls parser, router, handler and response in that order for one request of a
connection, and one parser, one request and one response object serve all of
them. The pages know the server by statuses.

### What is hard to test

Two workers in the helpers at once (the load, subtract, store of a sale; the clear and
refill of a vector; a `push_back` under another's loop; find and then `operator[]`; a
statement and then `sqlite3_changes`); a restart or a failing statement between the UPDATE
of a stock and the INSERT of its sale; sequences of legal requests that leave a vector
stale; a connection that another handler closes, whose deadline runs, or whose peer takes no
bytes; bytes cut anywhere by reads; a response object that is not quite clear; answers that
come to a page in another order, after the page's session ended, or not at all.
`PROJECT.json` lists these hazards at their lines with the properties that watch them.

## Modules

| module | what it is |
|---|---|
| `Inventory` | the product and sale handlers, statement by statement |
| `InventoryProperties` | what is asked of them, and the mapping to `Shop` |
| `Shop` | the abstract specification: stock, due sale, ledger |
| `InventoryProofs` | theorems about `Inventory`; that one thread of it is the `Shop` |
| `Accounts`, `AccountsProperties` | registration, sessions, audit |
| `Customers`, `CustomersProperties` | the customer handlers |
| `Server`, `ServerProperties` | acceptor, workers, timers, connections |
| `HttpParser`, `HttpParserProperties` | the parser and its callbacks, and requests as peers write them |
| `Applications` | what a program declares with Crow: rules, handlers, requests to come |
| `Router` | the tables of rules and their lookup |
| `Exchange`, `ExchangeProperties` | what one request of a connection is answered, over `Router` |
| `Pages`, `PagesProperties` | the program's rules, files and links, over `Exchange` |
| `Query`, `QueryProperties` | query strings |
| `Json`, `JsonProperties` | JSON texts and values |
| `Browser`, `BrowserProperties` | the pages' scripts in the tabs of a browser |
| `AccountsProofs`, `CustomersProofs`, `ServerProofs`, `HttpParserProofs`, `ExchangeProofs`, `BrowserProofs` | theorems about those modules, `ExchangeProofs` about `Router` too |
| `Induction` | induction over the naturals, for proofs about recursive functions |
| `MCInventory`, `MCAccounts`, `MCAccountsRace`, `MCCustomers`, `MCServer`, `MCMessages`, `MCBrowser` | values of constants for TLC; `MCAccountsRace` and `MCCustomers` have two instances of their handlers in one run, `MCMessages` and `MCBrowser` put several components together |

Definitions with a comment that begins with *Fault* are not the code: each is
a form of a definition below it with a mistake, put in its place to see that a
property notices.

### The handlers

In `Inventory`, `Accounts` and `Customers` a worker has a label `pc[w]` and a
record `job[w]` of its request and locals. A handler is cut into actions wherever
another thread can be seen: each SQL statement, each row of a scan into a shared
vector, each read of `sqlite3_changes`, each use of a shared container. One
request's steps are in program order; different workers' steps interleave
freely. SQLite's mutex makes each `sqlite3_step` one step. `answer` is the
response sent in the last step: the properties of answers are action
properties about it.

* `AcceptSale`, `ClearVector`, `LoadRow`, `EndOfRows`, `TakeUnits` (or
  `SaleIsShort`, `SaleFindsNothing`), `BindField`, `UpdateProduct`,
  `CheckChanges`, `InsertSale`, `ConfirmSale` are `/add_sale` (1930-1992) with
  `loadProducts`, `updateProduct` and `saveSales`. The order of the code is
  kept: the vector is changed before the UPDATE, the UPDATE is committed before
  the sale is inserted, and the alert level is read after that.
* `vec` is main's vector. A slot's `owner` is the *code* of the row, as text:
  `loadProducts` reads column 0 into it (229) and the SELECT's column 0 is the
  code. `from` is the one field the code does not have: it says whose row was
  read, for properties about what an answer shows.
* `Referred(w)` is what `const Product& p` means inside `updateProduct`. In
  `/add_sale` it is a slot of the shared vector, and another worker's refill may
  show through it. `BindField` is a `sqlite3_bind` or a run of them (303-311), in
  their order: details, quantity, alert level, code. A row may thus be written
  from several contents of the slot. `ConfirmSale` reads the slot once more (1983).
* `ReadSales` is `/api/sales`, `/get_sale` and `/api/sales_report` (1258-1394),
  which read `sales` into variables of their own; a report is the set of sales
  it counts and sums (`Reported`), a month is a month of one year.
* `FirstHit` is a loop over the vector that stops at the first match.
* In `Accounts`, `LoggedIn`, `ReadName` and `ReadRole` are the check: `find`,
  then `sessions[token]` once per field read. `Subscripted` is the `operator[]`
  that inserts.
  `Outcomes` is what an operation may leave of the map when others overlap it.
* In `Customers`, `BeginSave`, `InsertCustomer` and `EndSave` are the loop of
  `saveCustomers`, a range-for over iterators (758). A `push_back` of another
  worker moves the vector (2066): the loop is then `moved`, and what it reads
  from there on is any customer (`ReadAt`), until it ends or the process does.
* `Crash` forgets what is in memory and keeps the tables.
* `OtherStatement` is a handler of a component outside the module, running a
  statement on the same connection.

Races on a `vector` or on `sessions` are undefined in C++. The models choose
among these outcomes: a `push_back` that is lost when it overlaps another change
of the vector's end (`PushBack`, `PushCustomer`), a reference whose slot was
refilled (`Referred`), a loop whose vector was moved (`moved`), a duplicate
check that says either (`CheckCustomer`), operations on `sessions` that lose
sessions to each other or read another's (`Raced`, `Outcomes`, `Read`), an
iterator that another logout's `erase` invalidated and that erases any session
(1103; `EraseSession`), and the end of the process, which is a `Crash` step and
possible between any two steps. They do not include memory that holds no value
of its type, nor a process that hangs. The loops over `products` in memory are
one step each.

Left out: the text of requests and responses; statements that fail to *prepare* (the schema
is there); malformed bodies, answered before anything is read; password hashes; the clock (a
token's time counts logins, so two logins never share a token). A user's name may be empty:
`/add_user` takes what it is sent (952). `Inventory` and `Customers` begin after the session
check, which `Accounts` models. Scans into a handler's *local* vector are one step.

### The server

In `Server` a worker is an event loop, `events[w]` its posted handlers, and a
step of a worker is one handler of its loop. `conn[c]` is a `Connection`:
whether it reads, what it has parsed, its response, its deadline's id. `life[c]`
says whether the `shared_ptr`s still hold it: `Refers` counts them, and a
connection nobody refers to is freed in the same step. `home[c]` is the worker whose
loop and counter it was constructed with. `queue[w]` is
`task_queue_length_pool_`, by which `do_accept` picks a worker before there is a
connection. `tasks[w]` is the timer's map from ids to deadlines. A long answer
or a file is written synchronously: with a `stalled` peer the worker stays in
the write (`Block`, `loop[w] = "writing"`; `http_connection.h:349`, `464`), for
good if the peer takes nothing again, also after `stop()`. Short answers fit the
socket's buffer. Peers send pieces of pipelined requests, stop reading, or leave.
Requests are kinds of requests.

`HttpParser` is `http_parser_execute` (`http_parser_merged.h`) over symbols: a
byte, or bytes that always go together. `Execute(parser, bytes)` folds
`Step` over a read (`After`) and hands on what is known of a name, a value, a
target or a body (`Flush`); the callbacks (`OnField`, `OnValue`, `OnBody`, ...) are
those of `parser.h`, which glue pieces together. A run feeds a wire of
bytes in reads of every length. Four fields are history: what was handled, what was
answered early, whether a target came whole, and whether a read ended where it matters
(`cut`).

`Router` has the trie of `routing.h`, a sequence of nodes that name their children by
number: `AddEntry` follows a rule symbol by symbol (`Follow`), `Optimize` merges a node
with its only child, and `Find` is a table of what each node finds for what is left of a
target. `Applications` says what a rule, a handler and a program's rules can be, which
is all that the proofs assume of them. `Exchange` is one
connection's requests through `handle_initial`, `handle_url`, `handle` and
`complete_request`: the `conn` record is what `crow::response` and
`Connection` keep between them. `Pages` gives it the program's table of rules.
`Query` is `query_string.h` and `Json` the parser, `rvalue` strings (unescaped
in place, in memory copies share) and `wvalue` of `json.h`.

### The pages

In `Browser` a tab has a page, its variables and buttons, and requests in
`fetches`, each sent, answered or failed. A script's code up to an `await` is the
user's action (`Search`, `ClickSave`, ...), what follows is `...Answered`, and
answers come in any order. `storage` is `localStorage.sessionToken`, which all tabs
share. `next` is `window.location.href` after an assignment: the page goes on until
the new one is there (`Arrive`). A page that is left forgets its requests; a
logout among them may still reach the server (`adrift`). `live` is the server's
`sessions`. `edit` numbers what is typed into a form. Two histories:
`confirmed` is what the page told its user is saved, by an answer 200 or by the
403 that `add_sale.js` shows as "Sale added"; `warned` is the latter. Scripts
that do the same are one page of the model, named in its first comment.

## Runs

Small sets stand for workers, names, requests and quantities; `Max...` constants
bound what is ever inserted, sent or typed, and only that.

| run | bounds | shows |
|---|---|---|
| `InvRace` | 2 workers, 2 owners, 1 code, 2 products, 2 sales, edits of -2 and 1, restarts | types; a quantity below zero is one an edit entered, by any race; rows are written only under their owner's name |
| `InvShop` | 1 worker, 2 managers (one with a capital in his name), 2 products, 2 sales, overflow, faults, restarts | the handlers refine `Shop` |
| `InvAnswers` | 1 worker, a manager, her employee and a manager with a capital in his name, 2 codes, 2 products, 1 sale, signed quantities and units, restarts | refusals are true (404, 400) of the rows a sale looks at; lists show the table; a confirmed sale is in its seller's views |
| `AccRace` | 2 workers, 2 names, one of them empty, 3 audits; once with 1 login, deletions, faults and restarts, once with 2 logins | types; the trail is in order and stays with its accounts; a token's session is its login's |
| `AccOne` | 1 worker for all account handlers, another busy with other components, 2 names, one of them empty, 2 users, 2 logins, 4 audits, faults, restarts | ended sessions stay ended; a sub-user's owner is who registered it; every request is answered |
| `Customers` | 2 workers with faults, 2 managers; 1 worker with a manager and his employee, more values, every request and restarts; 2 slots | types; rows change by their owner, though the loop reads a moved vector; it ends; answers say what is stored |
| `Server` | 1 or 2 workers, 2 connections, pipelined requests of every kind, accepts that fail, deadlines, a stop | types; `queue` counts connections; none lives for its deadline; answers in order and of their requests |
| `ServerLive` | 1 worker, 2 connections, long answers | what a peer left is freed, and a stopped server ends, unless a write keeps the worker for good |
| `Messages` | 11 wires of requests and 14 of noise, in all reads; tries of 3 rules out of 9, an application of all kinds of handlers with a catch-all that throws, the program's rules; queries of 4 pairs; texts of 6 symbols over 5 alphabets, 3 assignments | parser, router, answers, pages, query strings and JSON, each against a reference |
| `Browser` | 2 tabs with 2 logins; 1 tab with all forms, 2 requests at once, 2 edits; lost requests, restarts | sessions are forgotten when they ended; of what is confirmed only a sale with a warning is sent again; buttons come back |
| `InvLostUpdate` | 2 workers, 1 user, 1 product, 2 sales of one unit | expected to fail: a sale's UPDATE takes its units from the stock as it is |
| `InvCapitals` | 1 worker, a manager "Tom", 1 product, 2 sales | expected to fail: a sale is refused only for what the seller's list shows |

With `IntMax = 3` an `int` is `-4 .. 3`, so a subtraction of units can overflow. Two workers
are enough for each race of the code, since each is between a pair of steps of one handler
and one step of another; two sales are two that overlap, or one behind another; two
products, two sales and two users tell "the same row", "another row" and "a later row"
apart. Two connections are enough for one's stale deadline to meet the other, and for one to
starve behind the other's peer. Three rules hold every shape the trie's merging tells apart:
a shared beginning, a branch, an end inside another's path. Two requests of one page are a
search behind a search, a save behind a save and the doubled logout; two tabs are one with a
stale token and one that logged in since. `InvRace`, `AccRace` and `Server` use the symmetry
of workers and connections; runs with liveness do not, since it would be unsound there. The
runs of `MCServer` and `Messages` may stop: a server ends, a wire is read to its end.

Some of the properties hold with one worker only, on purpose: they say what the
handlers do when requests come one by one (`InvShop`, `InvAnswers`, `AccOne`, the
second part of `Customers`). They do not watch the races of the code: `ImplementsShop`
holds of one worker and not of two, for the reason `InvLostUpdate` shows, and the
answers that two workers give are whatever the vectors and `sqlite3_changes` hold by
then. What holds under every race is little, and is what `InvRace`, `AccRace` and the first
part of `Customers` check. `ConfirmedSalesAreSeen` is of INSERTs that do not fail: a
failed one is confirmed like any other (452).

### Messages: what is compared with what

* `HandledAsSent`, `NothingIsLost`: the requests a peer wrote (`Bytes` writes
  them), with those the parser's callbacks made.
* `ReadsDoNotMatter`: many reads with one read of the same bytes, noise included. It
  speaks of connections that go on, and leaves out three places where the code's answer
  does depend on the reads: a read that ends in the target of a HEAD, whose route is
  looked up at once with what is there of it (`http_connection.h:112`); one that ends in
  front of the 2 of "h2" (`http_parser_merged.h:1281`); and one read with more in it than
  a request that asks for another protocol, where `feed()` reports an error
  (`parser.h:132`) although the connection would have gone on, which a CONNECT of
  HTTP/1.0 that is kept alive reaches. A target's query and `url` are not compared,
  for the reason given below.
* `LookupIsTheReference`: `Find` in the packed trie, with a scan over the rules as they
  were written that takes the first that fits (`Reading`, symbol by symbol from the ends
  of rule and target). An application starts unless two rules clash.
* `AnswersAreRouted`, `AnswersAreFramed`: code and length of the n-th answer of a
  connection, with those of its request alone.
* `PagesFindWhatTheyAsk`: the closure of all that pages, scripts and menus ask for from the
  landing page on, through the router with the rules of the program (48 of its own and the
  one the server adds). Three requests find nothing: `register.html:41` links
  `/html//terms.html`, and `add_users.html:66` `/html/terms.html` (there is no rule under
  `/html`), and `contact.html:25` posts to `/submit_contact`. Three rules are asked for by
  nobody: `/me`, `/menu_bar`, `/static/<path>`.
* `ContentsAreWhatIsLeft`: what `get...` returns after any pops, with the pairs
  that were meant. `LoadIsJson`: `load` with a grammar. `DumpsLoadBack`: the text of
  an answer with what was assigned. `ReadsAgree`: a string read twice.

### Disagreements of the code with its documentation

`InvLostUpdate` is expected to fail. Two workers sell one unit each of a product
entered with two. Both load the quantity before either writes; the first writes 1,
the second 1 again (1970): two sales are stored and one unit is gone, while
`README.md:2` promises to track stock. The property speaks of a sale whose UPDATE
finds a quantity that nobody entered, so of one behind another's.

`InvCapitals` is expected to fail. A manager registered as "Tom" adds a product and
sees it in his list; his sale of it is answered 404 "Product not found", because
`/add_sale` lowercases his name (1942) and the lists do not. `product_manager.cpp:214`
says "Manager sees all products where owner = their username". `RefusalsFitTheTable`
is the part that holds: of the rows that the sale's own SELECT asks for, the refusal
is true.

### Fairness

`LoneSpec` of `MCAccounts` and `MCSpec` of `MCCustomers` ask weak fairness of each worker's steps: a thread
inside a handler is scheduled again by the operating system. No arrival, no
restart and no failing statement is fair, and nothing says a race is won. A
handler waits for nothing but SQLite's mutex, which its holder gives back at the
end of the same call. `Inventory` has no liveness property: a scan of the table
(227) that other workers insert ahead of need not end, and nothing in the code ends it.

`Server`: the main thread and the network are weakly fair, a worker strongly: a stalled
peer blocks its thread in a write again and again, and each time it resumes or leaves
the thread goes on. Nothing is asked of peers: none has to send, to take an answer or
to leave. No time is set for a write, so a peer that takes nothing keeps its
worker for good (`KeptForGood`), with all the worker's other connections, and a stop
waits for it. `GoneConnectionsAreFreed` and `StoppedServersEnd` say that this is the only
thing that keeps a connection or the server.

`Browser`: a request is answered or fails, and a tab runs what awaited it. Users
do what they like, as often as they like. `RequestsAreAnswered` of the handlers is
what the first half rests on.

### The abstract shop

`Shop` has a stock for each owner and code, one sale that is *due* (its units
are taken, it is not entered), and a ledger. `Take` takes units from the stock
as it is; `Enter` enters the due sale and no other; `Lose` forgets it. The
mapping (`InventoryProperties`): the stock of a code is that of its oldest row,
which scans find first; the due sale is that of the worker between its UPDATE
and its INSERT; the ledger is `sales`. With one worker the handlers implement
it (`InvShop`), restarts and failing statements included. `Lose` is there
because the code may do it, at a restart or a failed INSERT. With two workers they
do not: `InvLostUpdate`.

## What the code does that a reader may not expect

The models do what the code does here; each follows from the actions named, and
no property is stated that would say otherwise.

Products and sales:

* A product is added twice after a list: `/add_product` compares codes with the
  owner fields, which hold codes after a load (1862, 229), and the vector is
  empty after a restart (`CheckProduct`).
* A sale writes back every column it loaded: an edit or another sale made in between
  is undone (1970, 1977; `InvLostUpdate`), so the stock may also go up again.
* The row a sale writes may be torn: its columns are bound one by one from a slot of
  the shared vector that another worker refills (303-311; `BindField`), up to the
  code in the WHERE clause.
* A restart between the UPDATE of a stock and the INSERT of its sale leaves
  units taken and no sale (1981; `Crash` at `changes` or `record`). A failed
  INSERT of a sale is answered "Sale added successfully" (452; `InsertSale`,
  `ConfirmSale`).
* A sale by an employee updates `WHERE owner =` the employee and is answered 500
  (1977); with a product of her own of the same code she sells from her manager's
  quantity and her own row, and the sale is in her report (1333) and not in her
  list (375).
* A sale by a manager with a capital in his name is answered 404 (1942; `InvCapitals`).
* Two lists at once: one may show products the other loaded (1183).
* The alert level is read from the vector's slot after the sale is stored (1983);
  a refill in between changes it (`ConfirmSale`).
* `/update_product` stores a negative quantity, which `/add_product` refuses
  (1895, 1866). A sale of negative units adds to the stock.
* A scan that others insert ahead of goes on as long as they do (227).
* `price_discount` and `total_price` of an added product are never
  assigned (267); a VAT rate with decimals is cut (1859).
* Deleting a product that is not there is answered 200 (340). Deleting a sale
  does not give its units back (503).
* `sqlite3_changes` counts another worker's statement: an update of a missing
  row is answered as made, or the other way round (316, 810).

Accounts and customers:

* A check that overlaps a logout inserts an empty session with `operator[]` (1119;
  `Subscripted`). Two logouts with one token both erase (1103), the second through an
  iterator that is no longer valid. Logins that overlap may lose each other's session (915).
  An employee registered while her manager logs out gets the empty string as owner (998;
  `ReadName`). A registration that fails leaks its statement (1028). Status 402 of a wrong
  registration (963) is not one Crow has: the client sees 500.
* Each addition of a customer stores the earlier ones again (2067), so a deleted
  customer comes back with the next addition (`InsertCustomer`); one added by
  an employee is stored under her name, and lists ask for the manager's (2050, 694):
  neither of them sees it.
* An addition while another worker stores the vector moves it under that loop, which
  may then store anything or end the process (758, 2066).
* A telephone number is `TEXT` in the table and `int` in the struct (731). Sales go
  on naming deleted customers (832): foreign keys are declared and not enforced.

Pages (`Browser`):

* A sale answered 403 ("stock below alert level") is stored, and the form stays as
  after a failure: the next click sells again (`add_sale.js:178`). So does a click
  after a lost answer.
* A page that meets a 401, or a logout that was answered, removes the token that
  is in `localStorage` then: a session opened in another tab since is forgotten in
  the browser and goes on in the server. A form filled under one session is saved under the
  newer one.
* What is typed while a save is in flight is shown, not dirty, and not sent.
* Enter starts a search while one is in flight: the form shows the answer that came
  last. Reports of two months likewise (`sales_report.js:97`).
* "Searching..." stays when `/current_user` fails in `edit_customers.js:51`;
  "Saving..." stays after "Select a customer." (`add_sale.js:144`).
* `sales_report.html` also loads `view_products.js`: one click on Logout sends
  two (the second is answered 401, or both are found at once, 1103).
* A search with an ended session says "not found". `view_audit_users.js` keeps an
  ended token. `view_sales.js` and the dashboards cannot log out until their first
  answer came.
* Two tabs that log in at once may leave one's token and the other's role
  (`login.js:19`); the role, which only chooses a menu, is not in the model.

Server and connections:

* A deadline that ran keeps its id, and cancelling it later may cancel another
  connection's (`task_timer.h:141`, `http_connection.h:403`): that read has none,
  though `app.h:336` promises one (`EveryReadHasADeadline`, which no run checks).
* A worker is blocked by a peer that does not take a long answer
  (`http_connection.h:336`), with no time set, and then does not leave its loop at `stop()`;
  a worker is chosen before the connection is there.
* Early answers (OPTIONS, HEAD without a route) and upgrades close the connection. An
  early answer says Keep-Alive all the same if the request before it asked for that
  (`http_connection.h:154`, `290`).
* A closing request with another behind it in one read is not the last.
* The `Connection: Keep-Alive` header is set after the response was cleared
  (`http_connection.h:206`) and goes out with the next answer. `Expect:
  100-continue` clears the response (404 becomes 200). HEAD without Host leaves
  `skip_body` for the next GET. HEAD of an error or a file has length and body at odds.
* A catch-all handler that returns its answer or names a file ends it twice
  (`routing.h:1707`); one that throws ends it once. The program has none.
* A target split over two reads, or with a query as the second request of one read,
  is routed by the wrong part (`http_parser_merged.h:587`); "h2" is looked for past
  the end of a read (1281). A header with an empty value is dropped unless it is the
  last; the last trailer is lost (`parser.h:41`).
* `pop` removes pairs by their raw name: one whose name is encoded stays
  (`query_string.h:382`); only 256 pairs are read.
* JSON: text behind a NUL is ignored, `1.` and raw control bytes are read, `0e1`
  is not; depth counts each level twice; copies of a string made before it is first
  read show unescaped bytes; numbers that come through `rvalue` are printed with `%f`.

## Proofs

TLAPS checks the modules of proofs, for all values of the constants that meet the
assumptions named in the modules they are about. Workers and connections are finite
sets where they are counted (`WorkersAssumption`, `ServerAssumption`), `Null` is no
name, token, number or record, a wire is a sequence of symbols (`WiresAssumption`),
and the rules of an application begin with a slash and have handlers of the kinds there are
(`AppsAssumption`).

`Induction` has the one induction the proofs need, `NumbersInduct`: a set of naturals
that has 0 and the number after each of its members has them all. It follows from
the library's theorem that a set of naturals has a least member, which takes a set and no
operator. With it the recursive *functions* of the models can be reasoned about: what
`feed` makes of several requests in one read (`Fed`), what a scan has put into
the vector after so many rows, the parser after so many symbols (`After`).

### `InventoryProofs`

* **`TypeCorrect`**: `Spec => []TypeOK`. `TypeOK` is inductive because it says
  of each label what its next step uses (`WellFormed`): a worker at `update` or
  `insert` holds a product, one at `record` is a sale. One lemma for the
  control operators (`Continue`, `Respond`, `Accept`), one for arrivals, one
  for steps, with a case per action.
* **`OnlyEditsTakeStockBelowZero`**: `Spec => []OnlyEditsGoBelowZero`, with no
  hypothesis on the numbers that are sold, added and edited. The
  invariant is `QuantitiesIn(Q)`, which says that the table, the shared vector
  *and* the products in workers' hands, half bound ones included, have quantities in a
  set `Q`. The table alone is not inductive: the UPDATE writes what a worker holds, or
  what a slot holds, which another worker may have written. `Closed(Q)` collects what
  `Q` must satisfy: additions that pass the check and edits are in it, and what a sale
  that is not refused leaves of a quantity in it. `NextIn` proves the invariant for every closed
  `Q`; the theorem takes the numbers an edit may enter and those from 0 to `IntMax`. Wrapped
  subtraction is covered: units that overflow leave a large negative number, which is
  refused, or one that is not negative.
* **`OwnersKeepTheirRows`**: `Spec => WritesStayWithOwner`. The invariant
  `OwnRequests` says that a product being added is its user's and that the
  delete label is `/delete_product`'s; UPDATE and DELETE name the owner in
  their WHERE clause, never the vector's field.

**`OneThreadIsTheShop`**: `Spec => ImplementsShop` with one worker, whose clients are
managers and edit no quantity below zero. The invariant `ShopInv` says

* of the tables (`RowsOK`, `SalesOK`): ids are given once, and the rows of an owner
  and a code have an oldest, by which the shop's stock is read;
* of a scan under way (`Loaded`): the vector has every code met so far, first from its
  oldest row; a scan cut short by an error has less, and still the oldest first;
* of a sale in hand (`TakenFrom`): its product has its own code, and a quantity that is
  what the *table* has less its units; that this is still so when the UPDATE runs is
  what a second worker breaks (`InvLostUpdate`).

Each action is then a step of `Shop`: the UPDATE of a sale is `Take`, `InsertSale` is
`Enter` or `Lose`, `BindField` and `ConfirmSale` are unseen, `Crash` is `Lose` while a sale
is due, other UPDATEs, INSERTs and DELETEs of products are `Set`, a deletion of a sale is
`Void` or finds nothing, and all else is `Unseen`. `Users \subseteq Managers` is needed: an
employee's sale loads the manager's rows and updates her own. Edits below zero are excluded
because a subtraction from a negative quantity may wrap around to a positive one, which is
not what `Take` takes.

What one thread answers, whoever its clients are, if no statement
fails (a scan ends at an error as at its last row, so with faults lists may be short):

* **`OneThreadListsTheTable`**: `Spec => ListsShowTheTable`. The invariant `ScanInv` says
  what the vector is between two rows of a scan (`VectorIs`): it has the rows of the owner
  up to the cursor, as they are stored, and has as many entries as there are such
  rows, so none is there twice. `RowsKeep` says that ids stay unique whatever is
  written. That a vector with the members of a finite set and its length shows each once
  is an induction over the rows.
* **`OneThreadRefusesTruly`**: `Spec => RefusalsFitTheTable`, for any names, quantities and
  units. `loadProducts` has just run, so the first entry of a code is a row of the table
  that the sale's SELECT asks for, and there is one if the table has one. A sale is short
  when its wrapped subtraction is below zero, which is when what it would leave is
  not from 0 to `IntMax` (`ShortOf`). Of the rows that the *list* shows the same is false for names
  with capitals: `InvCapitals`.

### `CustomersProofs`

**`OwnersKeepTheirCustomers`** follows from the types and from the WHERE clauses, step by
step. Nothing is claimed of what the loop of `saveCustomers` reads: the invariant says that a loop
whose vector was not moved walks the whole of it (`TypeOK`), which is enough for its step to have
a customer to store; a moved one stores any.

**`OneThreadTellsTheTable`**: with one worker and no failing statement,
`Spec => [][SaysWhatIsStored]_vars`, which the run checks as `AnswersSayWhatIsStored`. `AloneInv`
follows a request through its handler: what `sqlite3_changes` counts after an update is
the rows the update changed, and once the loop of `saveCustomers`, which nobody moves, is past
the last slot, the customer that was added is in the table, under the name of who added it. A
manager then sees it; of an employee nothing more is said, because the lists are her
manager's.

### `AccountsProofs`

* **`TypeCorrect`** needs `LoginsBounded` as well: logins made and logins under way are
  `MaxLogins` at most together, so that each token is of the type. Sets of workers are
  counted, so there are finitely many.
* **`TokensOpenTheirSession`**, **`AuditsNameTheirUser`** and **`TrailIsInOrder`** rest on one
  invariant, `TrailInv`. An id that a worker or a row holds names one user now and for
  all rows to come (`NamesOne`), because AUTOINCREMENT gives ids once: a user who
  is deleted between the SELECT of an id and the INSERT of the audit leaves an id of nobody,
  never of another. A token is of the login that made it (`Of`); and until a
  login has written its row, no other request has its token (`LoginsFirst`), which the order
  of `sessions[token] =`, audit and answer gives. Operations on the map that overlap
  (`Outcomes`) lose sessions and let one be read as another: what is left in the map is still
  under the token of its login.
* **`AloneSessionsEnd`**: with one worker the token that a check found is there when
  the handler reads `sessions[token]` (`AloneInv`), so `operator[]` inserts nothing. With
  two it does. **`AloneUsersHaveOwners`** (`OwnersRegisterTheirUsers`) is of the same invariant:
  the name that a registration reads is in the session of its token, which is the user's whose login
  made it.

### `ServerProofs`

**`QueuesCountConnections`**: the invariant `CountInv` counts the live connections of each
worker. The worker threads set their lengths to 0 when they start; that loses none
because `do_accept` runs first when all have started (`NoneBeforeAccepting`,
`AllStarted`). Destructors on any thread count down by the connection's own
worker (`home`).

**`TypesHold`**, **`DeadlinesKeepNobody`** and **`AnswersFit`** rest on `CountInv` and a second
invariant, `ConnInv`. Its main part, `Kept`, is stated of connections, events and
deadlines as a handler has them *in the middle* of a step too, since one step is a whole
handler: it reads, parses, answers request after request, closes and sets a deadline.

* `Alive`: a connection that anything refers to is not freed. `EventsAtHome`: events of a
  connection are in the loop of its worker, and no other thread runs them.
* `TasksInUse`: a deadline that is set is its connection's only one, its id was issued,
  and the connection still reads or has an event to come. `NoneLivesForItsDeadline` is not
  inductive without it: a tick cancels by id, and the id of a deadline that ran is kept.
* `Said`: answers written so far are in the order of their requests and of them, and the
  response is either cleared or that of a request that is complete. This is what lets one
  response object serve all requests of a connection.

The requests in one read are parsed by a recursive function; `FedInSteps` gives its
values one after the other, and `NumbersInduct` takes the invariant through them.

### `HttpParserProofs`

**`ReadsAreOne`**: `Spec => []ReadsDoNotMatter`, for any wires, any symbols on them, and
any reads. It is a simulation. On one side is the connection's parser, on the other
one that has read the same bytes at once, `After(NewParser, bytes, pos)`.

* *The relation*, `Alike`: the machine is in the same state (`Control`), and what is
  *held* is the same: a name, value, target or body as it will be when what is marked
  has been handed on (`HeaderHeld`, `RawHeld`, `BodyHeld`). The two have different parts
  of a name in `field` and behind the mark. `Query` relates where the query begins in a
  target that came whole to both, since the router's answer to HEAD depends on it.
* *What makes it inductive*, `Sound`: a mark is set exactly in the states that take symbols
  (`Placed`), a parser that goes on has no message that is complete, and one that does not
  go on has given its socket away.
* *One symbol*: every state of the machine has two lemmas, that it keeps a parser sound
  (`...Fine`) and that it keeps two of them alike, or apart for a reason the property
  leaves out (`...Agree`): a cut, an error, more behind another protocol. `StepRelated` puts
  them together. A step that takes no symbol and hands nothing on (`Moved`) keeps everything
  held by one lemma; `TakeHeld` and `FlushKeeps` say what taking a symbol and handing on
  do to it.
* *One read*: `SideBySide` takes the relation through the symbols of a read, with
  `NumbersInduct` over `After`. The one thing a symbol's step reads ahead is the symbol
  behind it, which the parser that is interrupted may not see; `Heard` says that both see
  the same one or one sees none, and only "h2" is affected, which is a cut.
* *Between reads*: `EndOfRead` and `ResumedSame`. Handing on half of a name and then
  beginning the next read with the mark set again holds the same as going on, because
  `building` says that the next piece belongs to the last (`Resting`); this is what a
  callback that starts a new name at each piece would break.
* *The invariant*, `ReadInv`: a connection that goes on is `Beside` the one that read its
  bytes at once.

### `ExchangeProofs`

For any applications: any rules, parameters, methods and handlers, declared in any order.

**`LookupIsTheReferenceAlways`**: `ExchangeSpec => []LookupIsTheReference`.

* *The reference*: `ReadingIs` says what `Reading` reads of the last symbols of a rule and
  of a target. `KeyReads` and `LeadsReads` carry it over the symbols of a node's key at once,
  which is why merging nodes does not matter.
* *The trie*: each node is related to the ends of entries that are still to be read there.
  `Speaks` says that an entry goes on from a node through one of its children, that a child
  has none but those, and that an entry ends where its rule is. `FindIs`, an induction over
  what is left of the target, concludes that a trie which speaks for a set of entries finds
  the lowest that fits, with its parameters.
* *Adding*: `IsTree` and `Holds` are what rules added so far keep: a child stands for one symbol,
  no two children of a node for the same. `AddEntryIs` says that an entry is added, or
  that one that cannot be told from it is there; `ChainSame` says that two entries ending
  at one node have the same symbols, by the chain of nodes that leads there.
* *From entries to rules*: `Entered` relates the entries of a method to the rules declared so far,
  each with its number and those that end with a slash with a redirection, whose number, 1, is
  below all others. `Optimize` keeps `Speaks`, by induction from the last node.
* *The invariant*, `RouterServes`: a router that serves has the tables that its rules give.

**`AnswersAreRoutedAlways`**, **`AnswersAreFramedAlways`**: `ExchangeSpec =>
[]AnswersAreRouted` and the like. The invariant is `Answering`. A connection that is to
answer stands (`Stands`) with a response that is fresh but for three things the code does
not clear or sets too early: the code that a missing rule left (`Fresh`'s first argument),
Keep-Alive of the request before, and `skip_body`, of a HEAD or left by one that had no
host. Each is bounded by the history of the connection (`AtUrl`): the code is the one of
*this* target if it was read at once and nothing cleared it, Keep-Alive was asked for by the
request before, `skip_body` has a HEAD or a hostless one behind it. An early answer is given
with that Keep-Alive. `AtUrl` also says that what `handle_initial` found is the handler of
the first rule that fits (`HandlesAs`, from the theorem above), though `handle` uses it
after the rest of the request has come. One lemma for each piece of the code that touches
the response (`HandledIs`, `EndedIs`, `CompletedIs`, ...) and one for each action
(`RequestLineKeeps`, `HandleRequestKeeps`, ...). Nothing is claimed once a catch-all handler
that returns or names a file was called: its answer is ended twice, and the second end
writes one nobody asked for, as the properties say. One that throws is ended once, and is
covered.

### `BrowserProofs`

`BrowserInv` relates requests in flight to the sessions of the server: a request that
was answered 401, and a logout that was answered 200, is of a session that has
ended, and stays ended since tokens are given once (`FetchOK`); a page's confirmed edits are
edits it made, and unsaved input is not among them unless it was a sale confirmed with a
warning, on the one page that has them (`PageOK`). From it follow
**`SessionsAreKept`** and **`EditsAreSentOnce`**, for any number of tabs, requests in flight
and sessions.

### What stays with TLC

* Liveness: fairness and ENABLED are out of TLAPS's reach.
* `HandledAsSent` and `NothingIsLost`: that the parser of one read makes of `Bytes(m)` the
  request `m` is an induction over headers, chunks and trailers, nested in that over
  requests, with the state of the machine in the middle of each. `ReadsAreOne` is half of
  it: what holds of one read holds of all that the property does not leave out.
* `ContentsAreWhatIsLeft`, `LoadIsJson`, `DumpsLoadBack`, `ReadsAgree`: `Query` and `Json`
  define their algorithms by `RECURSIVE` operators, about which the provers cannot be used, and so
  do the references they are compared with. Constants (texts, queries) are what these
  depend on, so a bound on them is a bound on the inputs and on nothing else.
* `PagesFindWhatTheyAsk` is about one set of rules and links, the program's, which TLC goes
  through entirely: a proof would say no more.

## Plan

Done, in this order: the handlers and their shop, the accounts, the customers; the server;
the messages of a connection, from bytes to answers; the pages in a browser; then the proofs
about each. What could come next: `HandledAsSent` by an induction over the parts of a
request; the session check of `Accounts` in front of the handlers of `Inventory`; a scan of
the vector cut into its elements, for two workers that list at once.

## Not modelled

* Price arithmetic: sums and products of C++ doubles. Scaled integers would not
  round as they do, so a model would say nothing of the code.
* Schema: the CREATE statements are run once at the start; their keys and
  AUTOINCREMENT are in the modules that use the tables.
* Deployment: scripts (`start.sh` and the Dockerfile prepare `prodexa.db`, the
  program opens `prodexa.sqlite`). Restarts are `Crash` and `Restart`.
* The rest of Crow: websockets, mustache templates, multipart bodies, middlewares,
  blueprints, compression, TLS, logging: nothing in the program calls them. Of JSON,
  the values of doubles, comparisons and `wvalue_reader`.
* The scripts of `register`, `contact`, `terms` and `landing`: one request at most, and
  no state. The contents of forms and tables.
* `source_code_backup`: an earlier copy, not built.
