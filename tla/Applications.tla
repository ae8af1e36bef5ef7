---------------------------- MODULE Applications ----------------------------
(***************************************************************************)
(* What a program makes of Crow: the rules it declares with CROW_ROUTE and *)
(* the handlers behind them, as crow/routing.h and crow/app.h take them.   *)
(***************************************************************************)
EXTENDS Integers, Sequences

CONSTANTS
  Methods,    \* the methods of the requests, "HEAD" and "OPTIONS" among them
  MaxDigits,  \* digits of the largest number that strtoll() reads
  Apps        \* what applications declare, their rules in order and a catch-all handler, and what is asked of them

\* A handler returns another response, throws, which is answered by another,
\* fills the response there is, or names a file, of size -1 if there is none.
IsHandler(h) ==
  \/ h.kind \in {"returns", "throws", "writes"} /\ h.code \in Nat /\ h.size \in Nat
  \/ h.kind = "file" /\ h.size \in Nat \cup {-1}

\* TaggedRule::validate(): a target begins with a slash.
IsRule(r) ==
  /\ r.url \in Seq(STRING) /\ r.url # <<>> /\ r.url[1] = "/"
  /\ r.methods \subseteq Methods
  /\ IsHandler(r.handler)

IsApp(a) ==
  /\ a.rules \in Seq({a.rules[i] : i \in DOMAIN a.rules}) /\ \A i \in DOMAIN a.rules : IsRule(a.rules[i])
  /\ a.catchAll.kind = "none" \/ IsHandler(a.catchAll)
  /\ \A q \in a.requests : q.method \in Methods /\ q.url \in Seq(STRING)

ASSUME MethodsAssumption == {"GET", "HEAD", "OPTIONS"} \subseteq Methods

ASSUME AppsAssumption == \A a \in Apps : IsApp(a)
=============================================================================
