------------------------- MODULE ExchangeProperties -------------------------
(***************************************************************************)
(* What a target finds, and what a request is answered.                    *)
(***************************************************************************)
EXTENDS Exchange

-----------------------------------------------------------------------------
\* The rules, read one by one.

\* What a symbol of a rule takes of a target.
TakenFor(c, s) ==
  CASE c \in DOMAIN ParamTraits -> Taken(s, ParamTraits[c])
    [] c \notin DOMAIN ParamTraits /\ s # <<>> /\ Head(s) = c -> 1
    [] OTHER -> 0

NoFit == [fits |-> FALSE, params |-> <<>>]

\* What a symbol reads that takes so many of the last n of a target, if "below" is what those behind it read.
ReadingBy(taken, below, c, url, n) ==
  IF taken = 0 THEN NoFit
  ELSE IF c \notin DOMAIN ParamTraits THEN below[n - taken]
  ELSE [below[n - taken] EXCEPT !.params = <<<<ParamTraits[c], SubSeq(Ending(url, n), 1, taken)>>>> \o @]

ReadingFrom(below, c, url, n) == ReadingBy(TakenFor(c, Ending(url, n)), below, c, url, n)

\* Whether the last j symbols of a rule fit the last n of a target, and what its parameters take of them.
Reading(rule, url) ==
  LET reading[j \in 0 .. Len(rule)] == [n \in 0 .. Len(url) |->
        IF j = 0 THEN [fits |-> n = 0, params |-> <<>>]
        ELSE ReadingFrom(reading[j - 1], rule[Len(rule) - j + 1], url, n)]
  IN reading[Len(rule)][Len(url)]

Fits(rule, url) == Reading(rule, url).fits

ParamsOf(rule, url) == Reading(rule, url).params

RulesFor(method) == {i \in DOMAIN app.rules : method \in app.rules[i].methods}

\* Targets that are sent on to the one with a slash, and the first rule that fits.
Redirected(method, url) ==
  \E i \in RulesFor(method) : HasSlash(app.rules[i].url) /\ Fits(Front(app.rules[i].url), url)

FirstRule(method, url) == SelectInSeq(app.rules, LAMBDA r : method \in r.methods /\ Fits(r.url, url))

\* Two targets are the same if their parameters take the same.
SameUrl(u, v) == Len(u) = Len(v) /\ \A i \in DOMAIN u : NodeOf(u[i]) = NodeOf(v[i])

\* What is declared twice for a method, a rule with a slash counting as one without.
UrlsOf(rule) == {rule.url} \cup IF HasSlash(rule.url) THEN {Front(rule.url)} ELSE {}

Twice(method) ==
  \E i, j \in RulesFor(method) :
    i # j /\ \E u \in UrlsOf(app.rules[i]), v \in UrlsOf(app.rules[j]) : SameUrl(u, v)

UrlsAsked == {q.url : q \in UNION {a.requests : a \in Apps}}

\* The trie finds, whatever is in it and in whatever order it was added, the rule
\* that was declared first of those that fit, with the same parameters, and a
\* redirection before any rule.  An application starts unless two rules are the same.
LookupIsTheReference ==
  /\ router.state = "failed" => \E m \in Methods : Twice(m)
  /\ router.state = "serving" => \A m \in Methods : ~Twice(m)
  /\ router.state = "serving" /\ conn = NewConnection =>
       \A m \in Methods, url \in UrlsAsked :
         LET found == Route(router.tables, m, url)
             first == FirstRule(m, url)
         IN CASE Redirected(m, url) -> found.rule = RuleSpecialRedirectSlash
              [] ~Redirected(m, url) /\ first = 0 -> found = NotFound
              [] OTHER -> /\ RuleOf(router.tables[m], found.rule) = app.rules[first]
                          /\ found.params = ParamsOf(app.rules[first].url, url)

-----------------------------------------------------------------------------
Known(code) == IF code \in StatusCodes THEN code ELSE 500

HasRoute(method, url) == Redirected(method, url) \/ FirstRule(method, url) # 0

\* The handler a request is for, the codes it answers with, and whether it replaces the response.
HandlerFor(method, url) ==
  LET actual == IF method = "HEAD" /\ ~HasRoute("HEAD", url) THEN "GET" ELSE method
      rule == FirstRule(actual, url)
  IN IF Redirected(actual, url) THEN [kind |-> "returns", code |-> 301, size |-> 0]
     ELSE IF rule # 0 THEN app.rules[rule].handler ELSE app.catchAll

CodeBy(h, method, url, routed) ==
  CASE method = "OPTIONS" -> IF routed # {} \/ url = <<"/", "*">> THEN 204 ELSE 404
    [] method = "HEAD" /\ {"HEAD", "GET"} \cap routed = {} -> 404
    [] OTHER ->
         CASE h.kind \in {"returns", "throws"} -> Known(h.code)
           [] h.kind = "file" -> IF h.size = None THEN 404 ELSE 200
           [] OTHER -> IF method \in routed \cup {"HEAD"} THEN 200 ELSE IF routed = {} THEN 404 ELSE 405

CodeOf(method, url) == CodeBy(HandlerFor(method, url), method, url, {m \in Methods : HasRoute(m, url)})

Replaces(method, url) == HandlerFor(method, url).kind \in {"returns", "throws"}

\* Each request is answered by the rule it is for, a request without a rule by
\* 404 or 405, OPTIONS by what is allowed, however many requests came before on
\* the connection.  The code does not keep this of a target that was read in two
\* pieces, or of one that asked to continue, if its handler fills the response
\* that is there; nor after a catch-all handler that returned its answer or named
\* a file, which the router ends a second time.
AnswersAreRouted ==
  said # NoAnswer /\ ~asked.caught =>
    /\ conn.phase = "closed" => conn.method \in {"HEAD", "OPTIONS"} /\ said.code = CodeOf(conn.method, conn.url)
    /\ conn.phase = "idle" /\ ~asked.host => said.code = 400
    /\ conn.phase = "idle" /\ asked.host /\ ((asked.whole /\ ~asked.expect) \/ Replaces(conn.method, conn.target)) =>
         said.code = CodeOf(conn.method, conn.target)
    /\ conn.method = "OPTIONS" /\ said.code = 204 /\ conn.url # <<"/", "*">> =>
         said.allow = {"OPTIONS", "HEAD"} \cup {m \in Methods : HasRoute(m, conn.url)}

\* The length an answer names is that of what follows, so that the next one is
\* found where it begins; an answer to HEAD has nothing behind it.  The code does not
\* keep this of HEAD for errors and files, nor after a HEAD without a host, whose
\* skip_body stays for the next answer, nor after a catch-all handler that ended its
\* own answer.  An answer says Keep-Alive if it was asked to, or if it fills the
\* response of a request that was; one that is given before its request is read, and
\* closes the connection, says what the request before it had asked.
AnswersAreFramed ==
  said # NoAnswer /\ ~asked.probed /\ ~asked.caught =>
    /\ conn.method # "HEAD" => said.length = said.bytes
    /\ conn.method = "HEAD" /\ conn.phase = "idle" /\ said.code < 400 /\ HandlerFor("HEAD", conn.target).kind # "file" =>
         said.bytes = 0 /\ said.length # None
    /\ conn.phase = "idle" /\ said.keep => asked.keep \/ (asked.kept /\ ~Replaces(conn.method, conn.target))
    /\ asked.keep => said.keep
    /\ conn.phase = "closed" /\ said.keep => asked.keep
=============================================================================
