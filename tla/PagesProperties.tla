--------------------------- MODULE PagesProperties ---------------------------
(***************************************************************************)
(* The rules of the program and what its pages ask for, put together by    *)
(* the router.                                                             *)
(***************************************************************************)
EXTENDS ExchangeProperties, Pages

FoundFor(q) == Route(router.tables, q.method, Chars(q.url))

\* The answer to what a browser asks for: the rule that was found, and its file.
AnswerTo(q, found) ==
  LET rule == RuleOf(router.tables[q.method], found.rule)
      path == SubSeq(q.url, Len("/assets/") + 1, Len(q.url))
      pages == {n \in {r.handler.page : r \in Range(Rules)} \cup {"contact", "privacy", "terms_service"} : Html(n) = path}
  IN CASE found.rule = 0 -> [rule |-> NoRule, code |-> 404, type |-> "", pages |-> {}]
       [] found.rule # 0 /\ rule = Assets ->
            [rule |-> rule, code |-> Asset(path).code, type |-> Asset(path).type, pages |-> pages]
       [] OTHER -> [rule |-> rule, code |-> rule.handler.code, type |-> "", pages |-> {rule.handler.page} \ {""}]

\* What a browser gets that starts from some pages and follows everything.
RECURSIVE Visited(_, _)
Visited(pages, answers) ==
  LET new == UNION {AskedBy(p) : p \in pages} \ DOMAIN answers
      more == [q \in new |-> AnswerTo(q, FoundFor(q))]
  IN IF new = {} THEN answers ELSE Visited(UNION {more[q].pages : q \in new}, answers @@ more)

DeadLinks ==
  Reads({"/html//terms.html", "/html/terms.html"}) \cup Writes({"/submit_contact"})

IdleRules == {Get("/me"), MenuBar, StaticDir}

Sheet(url) == Extension(url) = ".css"

\* main() starts, and from the landing page on everything a page or its script
\* asks for has a rule and a file, style sheets are sent as such, and every rule
\* is asked for by some page: but for the links to the terms and the contact form,
\* which nothing answers, and three rules nobody asks for.
PagesFindWhatTheyAsk ==
  app.rules = Rules =>
    /\ router.state # "failed"
    /\ router.state = "serving" /\ conn = NewConnection =>
         \E answers \in {Visited({"landing"}, <<>>)} :
           /\ {q \in DOMAIN answers : answers[q].code = 404} = DeadLinks
           /\ \A q \in DOMAIN answers : Sheet(q.url) => answers[q].type = "text/css"
           /\ Range(Rules) \ {answers[q].rule : q \in DOMAIN answers} = IdleRules
==============================================================================
