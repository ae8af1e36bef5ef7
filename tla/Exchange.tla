------------------------------ MODULE Exchange ------------------------------
(***************************************************************************)
(* From a request to its answer on one connection: Router::handle_initial  *)
(* when the target is known, or a piece of it, handle() when the request   *)
(* is complete (crow/routing.h, crow/http_connection.h), and the response  *)
(* that every request of the connection is answered with                   *)
(* (crow/http_response.h).                                                 *)
(*                                                                         *)
(* Bodies and files are counted, in bytes, and written as a whole; the     *)
(* connection is open while it is written to.  What HttpParser says of the *)
(* bytes that are read is a choice here.                                   *)
(***************************************************************************)
EXTENDS Router

VARIABLES
  app,     \* the rules declared so far, the catch-all handler, and the methods and targets that may be asked for
  router,  \* what validate() makes of them
  conn,    \* a connection
  asked,   \* the request that is answered, add_keep_alive_ ("keep"), and what was asked before (history)
  said     \* the last answer

exchangeVars == <<app, router, conn, asked, said>>

None == -1

\* The text that stands in an answer without a body.
StatusText == 3

StatusCodes == {200, 204, 301, 400, 401, 404, 405, 500}

-----------------------------------------------------------------------------
\* response

Response(code, body) ==
  [code |-> code, body |-> body, length |-> None, keep |-> FALSE, allow |-> {}, completed |-> FALSE, file |-> None,
   skip |-> FALSE, manual |-> FALSE]

\* operator=, which leaves skip_body and manual_length_header as they are.
Replaced(r, new) == [new EXCEPT !.skip = r.skip, !.manual = r.manual]

\* A faulty clear(): the code stays for the next request.
ClearAllButCode(r) == Replaced(r, Response(r.code, 0))

\* clear(), which leaves them too.
Clear(r) == Replaced(r, Response(200, 0))

NoAnswer == [code |-> 0, length |-> 0, bytes |-> 0, keep |-> FALSE, allow |-> {}]

\* write_header_into_buffer(): what the peer is told of an answer, and how many
\* bytes follow.  A code without a text becomes 500, an error without a body has
\* its text for one.
WriteHeader(r, keep) ==
  LET code == IF r.code \in StatusCodes THEN r.code ELSE 500
      body == IF code >= 400 /\ r.body = 0 THEN StatusText ELSE r.body
  IN [code |-> code,
      length |-> IF ~r.manual /\ r.length = None THEN body ELSE r.length,
      bytes |-> IF r.file # None THEN r.file ELSE body,
      keep |-> keep \/ r.keep,
      allow |-> r.allow]

\* complete_request(): the headers and the body or the file are written, and the
\* response is empty again.  "hooked" says that end() calls this.
CompleteRequest(c, keep) == [c EXCEPT !.hooked = FALSE, !.res = Clear(@), !.sent = WriteHeader(c.res, keep)]

\* A faulty end(): the body of the next answer is skipped too.
EndSkipping(c, keep) ==
  LET r == [c.res EXCEPT !.completed = TRUE]
      ended == IF r.skip THEN [r EXCEPT !.length = r.body, !.body = 0, !.manual = TRUE] ELSE r
  IN CASE c.res.completed -> c
       [] ~c.res.completed /\ c.hooked -> [CompleteRequest([c EXCEPT !.res = ended], keep) EXCEPT !.res.manual = FALSE]
       [] OTHER -> [c EXCEPT !.res = ended]

\* end()
End(c, keep) ==
  LET r == [c.res EXCEPT !.completed = TRUE]
      ended == IF r.skip THEN [r EXCEPT !.length = r.body, !.body = 0, !.manual = TRUE] ELSE r
  IN CASE c.res.completed -> c
       [] ~c.res.completed /\ c.hooked ->
            [CompleteRequest([c EXCEPT !.res = ended], keep) EXCEPT !.res.manual = FALSE, !.res.skip = FALSE]
       [] OTHER -> [c EXCEPT !.res = ended]

\* set_static_file_info(), for a file that is there or not.
SetFile(r, size) ==
  IF size = None THEN [r EXCEPT !.code = 404] ELSE [r EXCEPT !.code = 200, !.length = size, !.file = size]

-----------------------------------------------------------------------------
\* Router::handle_initial() and handle()

\* What an answer to OPTIONS allows.
Allowed(tables, url, routed) ==
  {"OPTIONS", "HEAD"}
    \cup (IF url = <<"/", "*">> THEN {m \in Methods \ {"HEAD"} : tables[m].trie[1].children # {}} ELSE routed)

\* The code of a request without a rule, of the methods its target has.
NotRouted(routed) == IF routed # {} THEN 405 ELSE 404

Found(method, route) == [method |-> method, rule |-> route.rule, catchAll |-> FALSE]

\* The answers that are given here are ended, but not sent.
Answered(c, r) == End([c EXCEPT !.found = Found("none", NotFound), !.res = Replaced(@, r)], FALSE)

HandleOptions(c, tables, routed) ==
  Answered(c, IF c.url = <<"/", "*">> \/ routed # {} THEN [Response(204, 0) EXCEPT !.allow = Allowed(tables, c.url, routed)]
              ELSE Response(404, 0))

HandleHead(c, own, get) ==
  LET found == IF own.rule = 0 THEN Found("GET", get) ELSE Found("HEAD", own)
  IN IF found.rule = 0 THEN Answered(c, Response(404, 0)) ELSE [c EXCEPT !.res.skip = TRUE, !.found = found]

HandleMethod(c, route, routed) ==
  IF route.rule # 0 THEN [c EXCEPT !.found = Found(c.method, route)]
  ELSE [c EXCEPT !.res.code = NotRouted(routed), !.found = [Found("none", NotFound) EXCEPT !.catchAll = TRUE]]

HandleInitial(c, tables) ==
  CASE c.method = "OPTIONS" -> HandleOptions(c, tables, RoutedMethods(tables, c.url))
    [] c.method = "HEAD" -> HandleHead(c, Route(tables, "HEAD", c.url), Route(tables, "GET", c.url))
    [] OTHER -> HandleMethod(c, Route(tables, c.method, c.url), RoutedMethods(tables, c.url))

\* What a handler does with the response: it returns another or names a file, which
\* ends it, fills this one, or throws, for which default_exception_handler() fills another.
Handled(c, h, keep) ==
  CASE h.kind = "returns" -> End([c EXCEPT !.res = Replaced(@, Response(h.code, h.size))], keep)
    [] h.kind = "writes" -> [c EXCEPT !.res.body = @ + h.size]
    [] h.kind = "file" -> End([c EXCEPT !.res = SetFile(@, h.size)], keep)
    [] h.kind = "throws" -> [c EXCEPT !.res = Replaced(@, Response(h.code, h.size))]
    [] OTHER -> c

\* A handler of a rule that fills the response ends it, and the router does if it
\* throws; after a catch-all handler the router always does.
Handle(c, r, catchAll, keep) ==
  LET rule == RuleOf(r.tables[c.found.method], c.found.rule)
  IN CASE c.found.catchAll -> End(Handled(c, catchAll, keep), keep)
       [] ~c.found.catchAll /\ c.found.rule = RuleSpecialRedirectSlash ->
            End([c EXCEPT !.res = Replaced(@, Response(301, 0))], keep)
       [] OTHER -> LET d == Handled(c, rule.handler, keep)
                   IN IF rule.handler.kind \in {"writes", "throws"} THEN End(d, keep) ELSE d

-----------------------------------------------------------------------------
NewConnection ==
  [phase |-> "idle", method |-> "none", url |-> <<>>, target |-> <<>>, found |-> Found("none", NotFound),
   res |-> Response(200, 0),
   hooked |-> FALSE, sent |-> NoAnswer]

NothingAsked ==
  [whole |-> TRUE, expect |-> FALSE, host |-> TRUE, keep |-> FALSE, kept |-> FALSE,
   probed |-> FALSE, caught |-> FALSE]

ExchangeInit ==
  /\ \E a \in Apps : app = [a EXCEPT !.rules = <<>>]
  /\ router = [state |-> "new", tables |-> NoTables]
  /\ conn = NewConnection
  /\ asked = NothingAsked
  /\ said = NoAnswer

\* CROW_ROUTE
Declare ==
  /\ router.state = "new"
  /\ \E a \in Apps :
       /\ [a EXCEPT !.rules = app.rules] = app /\ IsStrictPrefix(app.rules, a.rules)
       /\ app' = [app EXCEPT !.rules = Append(@, a.rules[Len(@) + 1])]
  /\ UNCHANGED <<router, conn, asked, said>>

Validate ==
  /\ router.state = "new" /\ app \in Apps
  /\ \E v \in {Validated(app.rules)} :
       router' = IF v.ok THEN [state |-> "serving", tables |-> v.tables] ELSE [state |-> "failed", tables |-> NoTables]
  /\ UNCHANGED <<app, conn, asked, said>>

\* handle_url(), with an answer at once if there is neither a rule nor a
\* catch-all rule to wait for; the parser then stops, and the connection is closed.
\* add_keep_alive_ is still that of the request before on the connection.
HandleUrl(c) ==
  \E d \in {HandleInitial(c, router.tables)} :
    IF d.found.rule = 0 /\ ~d.found.catchAll
    THEN /\ conn' = [NewConnection EXCEPT !.phase = "closed", !.method = c.method, !.url = c.url, !.target = c.target]
         /\ said' = CompleteRequest(d, asked.keep).sent
    ELSE conn' = [d EXCEPT !.phase = "url"] /\ said' = NoAnswer

\* A request's line is read, or its target up to the end of a read.
RequestLine ==
  /\ router.state = "serving" /\ conn.phase = "idle"
  /\ \E q \in app.requests : \E k \in 1 .. Len(q.url) :
       /\ HandleUrl([conn EXCEPT !.method = q.method, !.url = SubSeq(q.url, 1, k), !.target = q.url])
       /\ asked' = [asked EXCEPT !.whole = (k = Len(q.url)), !.expect = FALSE, !.kept = asked.keep]
  /\ UNCHANGED <<app, router>>

RestOfUrl ==
  /\ conn.phase = "url" /\ conn.url # conn.target
  /\ HandleUrl([conn EXCEPT !.url = conn.target])
  /\ UNCHANGED <<app, router, asked>>

\* handle_header(): "100 Continue" is written, which clears the response.
Continue ==
  /\ conn.phase = "url" /\ conn.url = conn.target /\ ~asked.expect
  /\ conn' = [conn EXCEPT !.res = Clear(@)]
  /\ asked' = [asked EXCEPT !.expect = TRUE]
  /\ UNCHANGED <<app, router, said>>

\* handle()
Answer(host, keep) ==
  LET c == [conn EXCEPT !.hooked = TRUE]
      d == CASE ~host -> CompleteRequest([conn EXCEPT !.res = Replaced(@, Response(400, 0))], keep)
             [] host /\ conn.res.completed -> CompleteRequest(conn, keep)
             [] OTHER -> LET e == Handle(c, router, app.catchAll, keep)
                             IN IF keep THEN [e EXCEPT !.res.keep = TRUE] ELSE e
  IN /\ conn' = [d EXCEPT !.phase = "idle", !.sent = NoAnswer]
     /\ said' = d.sent
     /\ asked' = [asked EXCEPT !.host = host, !.keep = keep,
                    !.probed = @ \/ (~host /\ conn.res.skip),
                    !.caught = @ \/ (host /\ conn.found.catchAll /\ app.catchAll.kind \in {"returns", "file"})]

HandleRequest ==
  /\ conn.phase = "url" /\ conn.url = conn.target
  /\ \E host, keep \in BOOLEAN : Answer(host, keep)
  /\ UNCHANGED <<app, router>>

\* A peer connects.
Connect ==
  /\ conn.phase \in {"idle", "closed"} /\ conn # NewConnection
  /\ conn' = NewConnection
  /\ asked' = NothingAsked
  /\ said' = NoAnswer
  /\ UNCHANGED <<app, router>>

ExchangeNext == Declare \/ Validate \/ RequestLine \/ RestOfUrl \/ Continue \/ HandleRequest \/ Connect

ExchangeSpec == ExchangeInit /\ [][ExchangeNext]_exchangeVars
=============================================================================
