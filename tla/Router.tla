------------------------------- MODULE Router -------------------------------
(***************************************************************************)
(* How a target finds its handler (crow/routing.h): the rules of an        *)
(* application are added to a trie for each method, which is optimized     *)
(* once and then searched.                                                 *)
(*                                                                         *)
(* A symbol of a rule or a target stands for a byte, "<int>" and the like  *)
(* for the piece of a rule that takes a parameter.  Numbers are written    *)
(* without exponents here.  Blueprints, which the program has none of, are *)
(* left out.                                                               *)
(***************************************************************************)
EXTENDS Applications, FiniteSets, FiniteSetsExt, SequencesExt, Functions

\* The parameters of a rule, and what they take.
ParamTraits ==
  [c \in {"<int>", "<uint>", "<float>", "<double>", "<str>", "<string>", "<path>"} |->
     CASE c = "<int>" -> "INT"
       [] c = "<uint>" -> "UINT"
       [] c \in {"<float>", "<double>"} -> "DOUBLE"
       [] c \in {"<str>", "<string>"} -> "STRING"
       [] OTHER -> "PATH"]

Figures == {"0", "1"}

-----------------------------------------------------------------------------
\* Trie.  A node has a key or takes a parameter, the rule that ends there, and
\* children, which are named by their numbers; the first node is head_.

Node(key, param) == [rule |-> 0, key |-> key, param |-> param, children |-> {}]

NodeOf(c) == IF c \in DOMAIN ParamTraits THEN Node(<<>>, ParamTraits[c]) ELSE Node(<<c>>, "MAX")

NewTrie == <<Node(<<>>, "MAX")>>

\* The children a symbol of a rule leads to, one at most.
ChildrenFor(trie, at, c) ==
  {k \in trie[at].children : trie[k].key = NodeOf(c).key /\ trie[k].param = NodeOf(c).param}

\* From a node on along a symbol, to a new child if there is none.
Follow(w, c) ==
  LET there == ChildrenFor(w.trie, w.at, c)
      new == Len(w.trie) + 1
  IN IF there # {} THEN [w EXCEPT !.at = CHOOSE k \in there : TRUE]
     ELSE [trie |-> Append([w.trie EXCEPT ![w.at].children = @ \cup {new}], NodeOf(c)), at |-> new]

Walk(trie, url) ==
  LET walk[i \in 0 .. Len(url)] == IF i = 0 THEN [trie |-> trie, at |-> 1] ELSE Follow(walk[i - 1], url[i])
  IN walk[Len(url)]

\* add(): a target that has a rule already throws, and nothing more is added.
AddEntry(added, url, index) ==
  LET w == Walk(added.trie, url)
  IN IF ~added.ok \/ w.trie[w.at].rule # 0 THEN [added EXCEPT !.ok = FALSE]
     ELSE [added EXCEPT !.trie = [w.trie EXCEPT ![w.at].rule = index]]

\* A faulty condition: a rule may end at a simple node.
IsSimple(trie, i) ==
  /\ Cardinality(trie[i].children) < 2
  /\ trie[i].param = "MAX" /\ \A k \in trie[i].children : trie[k].param = "MAX"

IsSimpleNode(trie, i) ==
  /\ trie[i].rule = 0
  /\ Cardinality(trie[i].children) < 2
  /\ trie[i].param = "MAX" /\ \A k \in trie[i].children : trie[k].param = "MAX"

\* optimize(): below the head, a simple node becomes one with its child.
Optimize(trie) ==
  LET optimized[i \in DOMAIN trie] ==
        IF trie[i].children # {} /\ IsSimpleNode(trie, i)
        THEN [optimized[CHOOSE k \in trie[i].children : TRUE] EXCEPT !.key = trie[i].key \o @]
        ELSE trie[i]
  IN [i \in DOMAIN trie |-> IF i = 1 THEN trie[1] ELSE optimized[i]]

IsNumeral(s, param) ==
  LET digits == IF s # <<>> /\ s[1] \in {"+", "-"} THEN Tail(s) ELSE s
      points == {i \in DOMAIN digits : digits[i] = "."}
  IN /\ Range(digits) \cap Figures # {}
     /\ Range(digits) \subseteq Figures \cup (IF param = "DOUBLE" THEN {"."} ELSE {})
     /\ Cardinality(points) <= 1
     /\ param = "UINT" => s[1] # "-"

\* How many symbols in front of s a parameter takes, 0 for none.  A number takes
\* as much as strtoll() reads, and nothing if that is out of range.
Taken(s, param) ==
  LET numerals == {k \in DOMAIN s : IsNumeral(SubSeq(s, 1, k), param)}
      number == IF numerals = {} THEN 0 ELSE Max(numerals)
      tooLong == Cardinality({i \in 1 .. number : s[i] \in Figures}) > MaxDigits
      slash == SelectInSeq(s, LAMBDA c : c = "/")
  IN CASE param = "STRING" -> IF slash = 0 THEN Len(s) ELSE slash - 1
       [] param = "PATH" -> Len(s)
       [] param = "DOUBLE" -> number
       [] OTHER -> IF tooLong THEN 0 ELSE number

NotFound == [rule |-> 0, params |-> <<>>]

\* How much of a target a node of the trie takes, 0 if it does not fit.
TakenBy(n, url) ==
  IF n.param # "MAX" THEN Taken(url, n.param) ELSE IF IsPrefix(n.key, url) THEN Len(n.key) ELSE 0

\* Of several rules the one that was added first counts.
FirstOf(found) ==
  LET rules == {r \in found : r.rule # 0}
  IN IF rules = {} THEN NotFound ELSE CHOOSE r \in rules : \A q \in rules : r.rule <= q.rule

\* What is found below a node that took s, if it takes a parameter.
WithParam(n, s, r) ==
  IF n.param = "MAX" \/ r.rule = 0 THEN r ELSE [r EXCEPT !.params = <<<<n.param, s>>>> \o @]

\* The last n symbols of a target.
Ending(url, n) == SubSeq(url, Len(url) - n + 1, Len(url))

\* find(), from a node on for what is left of a target.
Find(trie, url) ==
  LET found[n \in 0 .. Len(url)] == [i \in DOMAIN trie |->
        IF n = 0 THEN [rule |-> trie[i].rule, params |-> <<>>]
        ELSE LET taken(k) == TakenBy(trie[k], Ending(url, n))
             IN FirstOf({WithParam(trie[k], SubSeq(Ending(url, n), 1, taken(k)), found[n - taken(k)][k]) :
                           k \in {c \in trie[i].children : taken(c) > 0}})]
  IN found[Len(url)][1]

-----------------------------------------------------------------------------
\* Router.  A rule has its target, its methods and its handler.

RuleSpecialRedirectSlash == 1

NoRule == [url |-> <<>>, methods |-> {}, handler |-> [kind |-> "none"]]

\* For each method, its rules, of which the first two stand for none and for a redirection, and its trie.
NoTables == [m \in Methods |-> [rules |-> <<NoRule, NoRule>>, trie |-> NewTrie]]

RuleOf(table, index) == table.rules[index + 1]

HasSlash(url) == Len(url) > 1 /\ Last(url) = "/"

\* What internal_add_rule_object() adds for a rule to the trie of a method.
AddEntries(trie, url, index) ==
  LET added == AddEntry([ok |-> TRUE, trie |-> trie], url, index)
  IN IF HasSlash(url) THEN AddEntry(added, Front(url), RuleSpecialRedirectSlash) ELSE added

AddRule(router, rule) ==
  LET old(m) == router.tables[m]
      new(m) == AddEntries(old(m).trie, rule.url, Len(old(m).rules))
  IN [ok |-> router.ok /\ \A m \in rule.methods : new(m).ok,
      tables |-> [m \in Methods |->
                    IF m \in rule.methods THEN [rules |-> Append(old(m).rules, rule), trie |-> new(m).trie] ELSE old(m)]]

\* Router::validate(), which throws for a trie with a head that is not simple.
Validated(rules) ==
  LET added[i \in 0 .. Len(rules)] ==
        IF i = 0 THEN [ok |-> TRUE, tables |-> NoTables] ELSE AddRule(added[i - 1], rules[i])
      router == added[Len(rules)]
  IN [ok |-> router.ok /\ \A m \in Methods : IsSimpleNode(router.tables[m].trie, 1),
      tables |-> [m \in Methods |-> [router.tables[m] EXCEPT !.trie = Optimize(@)]]]

Route(tables, method, url) == Find(tables[method].trie, url)

\* The methods a target has a rule for.
RoutedMethods(tables, url) == {m \in Methods : Route(tables, m, url).rule # 0}
=============================================================================
