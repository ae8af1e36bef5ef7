-------------------------- MODULE HttpParserProofs --------------------------
(***************************************************************************)
(* Proof that the reads a connection's bytes come in do not matter to what *)
(* the parser makes of them, for any bytes and any number of reads: the    *)
(* parser that was interrupted, and had to hand on a half of a name, value *)
(* or body, goes along with one that read all the bytes at once.           *)
(***************************************************************************)
EXTENDS HttpParserProperties, Induction

-----------------------------------------------------------------------------
(* The parser symbol by symbol. *)

\* The symbol that follows one, if it is in this read.
Following(data, i) == IF i = Len(data) THEN "" ELSE data[i + 1]

Symbol(x, data, i) == Step(x, data[i], Following(data, i))

Steps(after, x, data, n) ==
  after = [i \in 0 .. n |-> IF i = 0 THEN Resumed(x) ELSE Symbol(after[i - 1], data, i)]

\* What Steps says of each symbol.
LEMMA StepsAt ==
  ASSUME NEW x, NEW data, NEW n \in Nat, NEW after, Steps(after, x, data, n)
  PROVE  /\ after[0] = Resumed(x)
         /\ \A i \in 0 .. n : i # 0 => after[i] = Symbol(after[i - 1], data, i)
BY DEF Steps

\* There is such a function for every number of symbols.
LEMMA StepsExist ==
  ASSUME NEW x, NEW data
  PROVE  \A n \in Nat : \E after : Steps(after, x, data, n)
<1> DEFINE S == {n \in Nat : \E after : Steps(after, x, data, n)}
<1>1. 0 \in S
  <2>1. Steps([i \in 0 .. 0 |-> Resumed(x)], x, data, 0)
    BY DEF Steps
  <2> QED
    BY <2>1
<1>2. ASSUME NEW n \in Nat, n \in S PROVE n + 1 \in S
  <2>1. PICK after : Steps(after, x, data, n)
    BY <1>2
  <2> DEFINE next == [i \in 0 .. n + 1 |-> IF i = n + 1 THEN Symbol(after[n], data, n + 1) ELSE after[i]]
  <2> DEFINE goal == [i \in 0 .. n + 1 |-> IF i = 0 THEN Resumed(x) ELSE Symbol(next[i - 1], data, i)]
  <2>2. ASSUME NEW i \in 0 .. n + 1 PROVE next[i] = goal[i]
    <3>1. CASE i = n + 1
      <4>1. i # 0 /\ i - 1 = n /\ n \in 0 .. n + 1 /\ n # n + 1
        BY <3>1
      <4>2. next[i] = Symbol(after[n], data, i) /\ next[n] = after[n]
        BY <3>1, <4>1
      <4> QED
        BY <4>1, <4>2
    <3>2. CASE i # n + 1
      <4>1. i \in 0 .. n /\ next[i] = after[i]
        BY <3>2
      <4>2. i # 0 => i - 1 \in 0 .. n + 1 /\ i - 1 # n + 1
        BY <3>2
      <4>3. i # 0 => next[i - 1] = after[i - 1]
        BY <4>2
      <4>4. after[0] = Resumed(x) /\ (i # 0 => after[i] = Symbol(after[i - 1], data, i))
        BY <2>1, <4>1, StepsAt
      <4> QED
        BY <4>1, <4>3, <4>4
    <3> QED
      BY <3>1, <3>2
  <2>3. next = goal
    BY <2>2, Zenon
  <2>4. Steps(next, x, data, n + 1)
    BY <2>3 DEF Steps
  <2> QED
    BY <2>4
<1>3. Nat \subseteq S
  <2> HIDE DEF S
  <2> QED
    BY <1>1, <1>2, NumbersInduct
<1> QED
  BY <1>3

\* Two of them agree as far as both go.
LEMMA StepsAgree ==
  ASSUME NEW x, NEW data, NEW n \in Nat, NEW m \in Nat, n <= m,
         NEW f, NEW g, Steps(f, x, data, n), Steps(g, x, data, m)
  PROVE  f[n] = g[n]
<1> DEFINE S == {i \in Nat : i <= n => f[i] = g[i]}
<1>1. 0 \in S
  BY StepsAt
<1>2. ASSUME NEW i \in Nat, i \in S PROVE i + 1 \in S
  <2> SUFFICES ASSUME i + 1 <= n PROVE f[i + 1] = g[i + 1]
    OBVIOUS
  <2>1. f[i] = g[i]
    BY <1>2
  <2>2. i + 1 \in 0 .. n /\ i + 1 \in 0 .. m /\ i + 1 # 0 /\ (i + 1) - 1 = i
    OBVIOUS
  <2>3. f[i + 1] = Symbol(f[i], data, i + 1)
    <3>1. \A k \in 0 .. n : k # 0 => f[k] = Symbol(f[k - 1], data, k)
      BY StepsAt
    <3> QED
      BY <2>2, <3>1
  <2>4. g[i + 1] = Symbol(g[i], data, i + 1)
    <3>1. \A k \in 0 .. m : k # 0 => g[k] = Symbol(g[k - 1], data, k)
      BY StepsAt
    <3> QED
      BY <2>2, <3>1
  <2> QED
    BY <2>1, <2>3, <2>4
<1>3. Nat \subseteq S
  <2> HIDE DEF S
  <2> QED
    BY <1>1, <1>2, NumbersInduct
<1> QED
  BY <1>3

\* The parser after n + 1 symbols is that after n and one symbol more.
LEMMA AfterStep ==
  ASSUME NEW x, NEW data
  PROVE  /\ After(x, data, 0) = Resumed(x)
         /\ \A n \in Nat : After(x, data, n + 1) = Symbol(After(x, data, n), data, n + 1)
<1> DEFINE chosen(n) == CHOOSE after : Steps(after, x, data, n)
<1>1. \A n \in Nat : Steps(chosen(n), x, data, n)
  BY StepsExist
<1>2. \A n \in Nat : After(x, data, n) = chosen(n)[n]
  BY DEF After, Steps, Symbol, Following
<1>3. After(x, data, 0) = Resumed(x)
  <2> HIDE DEF chosen
  <2>1. Steps(chosen(0), x, data, 0)
    BY <1>1
  <2> QED
    BY <1>2, <2>1, StepsAt
<1>4. ASSUME NEW n \in Nat PROVE After(x, data, n + 1) = Symbol(After(x, data, n), data, n + 1)
  <2> HIDE DEF chosen
  <2>1. PICK f : f = chosen(n)
    OBVIOUS
  <2>2. PICK g : g = chosen(n + 1)
    OBVIOUS
  <2>3. Steps(f, x, data, n) /\ Steps(g, x, data, n + 1) /\ n + 1 \in Nat /\ n <= n + 1
    BY <1>1, <2>1, <2>2
  <2>4. f[n] = g[n]
    BY <2>3, StepsAgree
  <2>5. g[n + 1] = Symbol(g[n], data, n + 1)
    <3>1. \A i \in 0 .. n + 1 : i # 0 => g[i] = Symbol(g[i - 1], data, i)
      <4>1. PICK m \in Nat : m = n + 1
        OBVIOUS
      <4>2. Steps(g, x, data, m)
        BY <2>3, <4>1
      <4>3. \A i \in 0 .. m : i # 0 => g[i] = Symbol(g[i - 1], data, i)
        BY <4>2, StepsAt
      <4> QED
        BY <4>1, <4>3
    <3>2. n + 1 \in 0 .. n + 1 /\ n + 1 # 0 /\ (n + 1) - 1 = n
      OBVIOUS
    <3> QED
      BY <3>1, <3>2
  <2> QED
    BY <1>2, <2>1, <2>2, <2>4, <2>5
<1> QED
  BY <1>3, <1>4

-----------------------------------------------------------------------------
(* Sequences whose members nobody asks about. *)

IsSeq(s) == \E U : s \in Seq(U)

LEMMA IsSeqLen == ASSUME NEW s, IsSeq(s) PROVE Len(s) \in Nat /\ DOMAIN s = 1 .. Len(s)
BY DEF IsSeq

LEMMA IsSeqEmpty == IsSeq(<<>>)
<1>1. <<>> \in Seq({})
  OBVIOUS
<1> QED
  BY <1>1 DEF IsSeq

LEMMA IsSeqBoth ==
  ASSUME NEW s, NEW t, IsSeq(s), IsSeq(t)
  PROVE  \E U : s \in Seq(U) /\ t \in Seq(U)
<1>1. PICK U : s \in Seq(U)
  BY DEF IsSeq
<1>2. PICK V : t \in Seq(V)
  BY DEF IsSeq
<1>3. s \in Seq(U \cup V)
  BY <1>1
<1>4. t \in Seq(U \cup V)
  BY <1>2
<1> QED
  BY <1>3, <1>4

LEMMA IsSeqAppend ==
  ASSUME NEW s, IsSeq(s), NEW e
  PROVE  /\ IsSeq(Append(s, e))
         /\ Len(Append(s, e)) = Len(s) + 1
         /\ Append(s, e)[Len(s) + 1] = e
         /\ \A i \in 1 .. Len(s) : Append(s, e)[i] = s[i]
<1>1. PICK U : s \in Seq(U)
  BY DEF IsSeq
<1>2. s \in Seq(U \cup {e}) /\ e \in U \cup {e}
  BY <1>1
<1>3. Append(s, e) \in Seq(U \cup {e})
  BY <1>2
<1>4. IsSeq(Append(s, e))
  BY <1>3 DEF IsSeq
<1> QED
  BY <1>2, <1>4

LEMMA IsSeqConcat ==
  ASSUME NEW s, NEW t, IsSeq(s), IsSeq(t)
  PROVE  IsSeq(s \o t)
<1>1. PICK U : s \in Seq(U) /\ t \in Seq(U)
  BY IsSeqBoth
<1>2. s \o t \in Seq(U)
  BY <1>1
<1> QED
  BY <1>2 DEF IsSeq

\* What was known before a symbol, and the symbol.
LEMMA ConcatAppend ==
  ASSUME NEW s, NEW t, NEW e, IsSeq(s), IsSeq(t)
  PROVE  s \o Append(t, e) = Append(s \o t, e)
<1>1. PICK U : s \in Seq(U) /\ t \in Seq(U)
  BY IsSeqBoth
<1>2. PICK V : V = U \cup {e}
  OBVIOUS
<1>3. s \in Seq(V) /\ t \in Seq(V) /\ e \in V
  BY <1>1, <1>2
<1>4. Append(t, e) \in Seq(V) /\ s \o t \in Seq(V)
  BY <1>3
<1>5. s \o Append(t, e) \in Seq(V) /\ Append(s \o t, e) \in Seq(V)
  BY <1>3, <1>4
<1>6. Len(s \o Append(t, e)) = Len(Append(s \o t, e))
  BY <1>3, <1>4
<1>7. \A i \in 1 .. Len(Append(s \o t, e)) : (s \o Append(t, e))[i] = Append(s \o t, e)[i]
  BY <1>3, <1>4
<1> QED
  BY <1>5, <1>6, <1>7

LEMMA ConcatEmpty ==
  ASSUME NEW s, IsSeq(s)
  PROVE  s \o <<>> = s
<1>1. PICK U : s \in Seq(U)
  BY DEF IsSeq
<1>2. <<>> \in Seq(U)
  OBVIOUS
<1>3. s \o <<>> \in Seq(U) /\ Len(s \o <<>>) = Len(s)
  BY <1>1, <1>2
<1>4. \A i \in 1 .. Len(s) : (s \o <<>>)[i] = s[i]
  BY <1>1, <1>2
<1> QED
  BY <1>1, <1>3, <1>4

-----------------------------------------------------------------------------
(* A parser between two symbols. *)

\* What every step of the state machine reads and sets.
Control == {"state", "header", "index", "flags", "encoded", "length", "method", "version", "errno", "upgrade",
            "nread", "complete"}

RequestControl == {"method", "version", "keep", "close", "upgrade"}

\* What a step that takes no symbol and hands nothing on leaves alone.
Rest == {"building", "field", "value", "mark", "text", "p", "next", "left", "rest", "handled", "early"}

ParserFields == Control \cup Rest \cup {"qs", "req", "start", "cut"}

RequestFields == RequestControl \cup {"raw", "url", "headers", "body", "whole"}

Shaped(x) ==
  /\ DOMAIN x = ParserFields /\ DOMAIN x.req = RequestFields
  /\ IsSeq(x.text) /\ IsSeq(x.field) /\ IsSeq(x.value) /\ IsSeq(x.handled)
  /\ IsSeq(x.req.raw) /\ IsSeq(x.req.body) /\ IsSeq(x.req.headers)
  /\ x.p \in Nat /\ x.start \in Nat
  /\ x.mark = "none" => x.text = <<>>

\* The states a body is read in: what is known of it may have been handed on.
HalfBody == {"body_identity", "chunk_data", "chunk_data_almost_done"}

BeforeTarget == {"start_req", "req_method", "spaces_before_url"}

Elsewhere == {"http_start", "http_HT", "http_major", "http_dot", "http_minor", "http_end", "line_almost_done",
              "field_start", "discard_ws", "discard_ws_almost_done", "discard_lws", "header_almost_done",
              "value_lws", "headers_almost_done", "chunk_size_start", "chunk_size", "chunk_parameters",
              "chunk_size_almost_done", "chunk_data_done"}

\* The states Consume goes on from.
Reading == BeforeTarget \cup UrlStates \cup HalfBody \cup Elsewhere \cup {"field", "value"}

\* The mark a read in the middle of a name, a value or a target begins with.
MarkOf(state) ==
  CASE state = "field" -> "field" [] state = "value" -> "value" [] state \in UrlStates -> "url" [] OTHER -> "none"

\* Marks are set where the state says so; a parser that reads on has no message
\* that is complete, and the socket of any other was given away.
Placed(x) ==
  /\ x.state \in Reading => ~x.complete /\ ~x.req.upgrade
  /\ x.state \notin Reading => /\ x.left /\ x.state = "headers_done"
                               /\ x.handled # <<>> /\ GivenAway(Last(x.handled))
  /\ x.left => x.state \in {"start_req", "headers_done"}
  /\ x.mark = MarkOf(x.state) \/ (x.state \in HalfBody /\ x.mark = "body")
  /\ x.state \in BeforeTarget => x.qs = 0
  /\ x.state \in UrlStates /\ x.req.whole => x.start # 0

Sound(x) == Shaped(x) /\ (x.errno = "OK" => Placed(x))

\* The name and value of the header as they will be once what is marked has
\* been handed on, with the headers before it; and the target and the body.
FieldHeld(x) ==
  IF x.building = 1 THEN <<1, x.field \o x.text, x.value, x.req.headers>>
  ELSE IF x.value # <<>> THEN <<1, x.text, <<>>, Append(x.req.headers, <<x.field, x.value>>)>>
  ELSE <<1, x.text, x.value, x.req.headers>>

ValueHeld(x) ==
  IF x.building = 0 THEN <<0, x.field, x.value \o x.text, x.req.headers>>
  ELSE <<0, x.field, x.text, x.req.headers>>

HeaderHeld(x) ==
  IF x.mark = "field" THEN FieldHeld(x)
  ELSE IF x.mark = "value" THEN ValueHeld(x)
  ELSE <<x.building, x.field, x.value, x.req.headers>>

RawHeld(x) == IF x.mark = "url" THEN x.req.raw \o x.text ELSE x.req.raw

BodyHeld(x) == IF x.mark = "body" THEN x.req.body \o x.text ELSE x.req.body

\* The requests handled, without what depends on the parts their targets came in.
Masked(r) == [r EXCEPT !.url = <<>>, !.whole = TRUE]

Masks(x) == [i \in DOMAIN x.handled |-> Masked(x.handled[i])]

\* Two parsers that have seen the same bytes, in different reads.
Alike(a, b) ==
  /\ \A f \in Control : a[f] = b[f]
  /\ \A f \in RequestControl : a.req[f] = b.req[f]
  /\ HeaderHeld(a) = HeaderHeld(b) /\ RawHeld(a) = RawHeld(b) /\ BodyHeld(a) = BodyHeld(b)
  /\ Masks(a) = Masks(b)
  /\ a.left => b.left

\* In the middle of a target that came whole to both, both know how far its
\* query is from its first byte.
Query(a, b) ==
  a.state \in UrlStates /\ a.req.whole /\ b.req.whole => a.qs = b.qs /\ a.p - a.start = b.p - b.start

\* What the property does not speak of: a read that ended where it matters,
\* more after a request for another protocol, and errors, which end the reading.
Apart(a, b) == a.cut \/ b.cut \/ a.errno # "OK"

\* A step that only moves the machine, or only hands on what is marked.
Kept(x, y) ==
  /\ Shaped(y)
  /\ HeaderHeld(y) = HeaderHeld(x) /\ RawHeld(y) = RawHeld(x) /\ BodyHeld(y) = BodyHeld(x)
  /\ Masks(y) = Masks(x) /\ y.handled = x.handled
  /\ y.left = x.left /\ y.rest = x.rest /\ y.p = x.p
  /\ x.cut => y.cut

Moved(x, y) ==
  /\ DOMAIN y = ParserFields /\ DOMAIN y.req = RequestFields
  /\ \A f \in Rest : y[f] = x[f]
  /\ \A f \in {"raw", "headers", "body"} : y.req[f] = x.req[f]
  /\ y.start \in Nat
  /\ x.cut => y.cut

\* The machine is in the same state.
SameControl(x, y) == \A f \in Control : x[f] = y[f]

LEMMA MovedKeeps ==
  ASSUME NEW x, NEW y, Shaped(x), Moved(x, y)
  PROVE  Kept(x, y) /\ y.mark = x.mark /\ y.next = x.next
<1>1. /\ y.building = x.building /\ y.field = x.field /\ y.value = x.value /\ y.mark = x.mark
      /\ y.text = x.text /\ y.p = x.p /\ y.next = x.next /\ y.left = x.left /\ y.rest = x.rest
      /\ y.handled = x.handled /\ y.early = x.early
  BY DEF Moved, Rest
<1>2. y.req.raw = x.req.raw /\ y.req.headers = x.req.headers /\ y.req.body = x.req.body
  BY DEF Moved
<1>3. Shaped(y)
  BY <1>1, <1>2 DEF Shaped, Moved
<1>4. HeaderHeld(y) = HeaderHeld(x) /\ RawHeld(y) = RawHeld(x) /\ BodyHeld(y) = BodyHeld(x)
  BY <1>1, <1>2 DEF HeaderHeld, RawHeld, BodyHeld, FieldHeld, ValueHeld
<1> QED
  BY <1>1, <1>3, <1>4 DEF Kept, Masks, Moved

LEMMA AlikeKept ==
  ASSUME NEW a, NEW b, NEW x, NEW y, Alike(a, b), Kept(a, x), Kept(b, y),
         \A f \in Control : x[f] = y[f], \A f \in RequestControl : x.req[f] = y.req[f]
  PROVE  Alike(x, y)
BY DEF Alike, Kept

LEMMA AlikeMoved ==
  ASSUME NEW a, NEW b, NEW x, NEW y, Shaped(a), Shaped(b), Alike(a, b), Moved(a, x), Moved(b, y),
         \A f \in Control : x[f] = y[f], \A f \in RequestControl : x.req[f] = y.req[f]
  PROVE  Alike(x, y)
BY AlikeKept, MovedKeeps

-----------------------------------------------------------------------------
(* A symbol is taken. *)

LEMMA TakeKeeps ==
  ASSUME NEW x, Shaped(x), NEW kind \in {"url", "field", "value", "body"}, NEW c
  PROVE  LET y == Take(x, kind, c)
         IN /\ Shaped(y) /\ y.mark = kind /\ y.text = Append(x.text, c)
            /\ \A f \in ParserFields \ {"mark", "text"} : y[f] = x[f]
<1> DEFINE y == Take(x, kind, c)
<1>1. \A f \in ParserFields \ {"mark", "text"} : y[f] = x[f]
  BY DEF Take, Shaped, ParserFields, Rest
<1>2. y.mark = kind /\ y.text = Append(x.text, c) /\ DOMAIN y = ParserFields
  BY DEF Take, Shaped, ParserFields, Rest
<1>3. IsSeq(y.text)
  BY <1>2, IsSeqAppend DEF Shaped
<1>4. y.req = x.req /\ y.field = x.field /\ y.value = x.value /\ y.handled = x.handled /\ y.p = x.p /\ y.start = x.start
  BY <1>1 DEF ParserFields, Rest
<1> HIDE DEF y
<1>5. Shaped(y)
  BY <1>2, <1>3, <1>4 DEF Shaped
<1> QED
  BY <1>1, <1>2, <1>5 DEF y

\* What a taken symbol adds to what is held.
LEMMA TakeHeld ==
  ASSUME NEW x, Shaped(x), NEW kind \in {"url", "field", "value", "body"}, NEW c,
         NEW y, y = Take(x, kind, c),
         x.mark = kind \/ x.mark = "none"
  PROVE  /\ kind = "url" => RawHeld(y) = Append(RawHeld(x), c)
         /\ kind # "url" => RawHeld(y) = RawHeld(x)
         /\ kind = "body" => BodyHeld(y) = Append(BodyHeld(x), c)
         /\ kind # "body" => BodyHeld(y) = BodyHeld(x)
         /\ kind \in {"url", "body"} => HeaderHeld(y) = HeaderHeld(x)
         /\ kind = "field" /\ x.mark = "field" =>
              HeaderHeld(y) = <<HeaderHeld(x)[1], Append(HeaderHeld(x)[2], c), HeaderHeld(x)[3], HeaderHeld(x)[4]>>
         /\ kind = "value" /\ x.mark = "value" =>
              HeaderHeld(y) = <<HeaderHeld(x)[1], HeaderHeld(x)[2], Append(HeaderHeld(x)[3], c), HeaderHeld(x)[4]>>
<1>1. /\ Shaped(y) /\ y.mark = kind /\ y.text = Append(x.text, c)
      /\ y.req = x.req /\ y.building = x.building /\ y.field = x.field /\ y.value = x.value
  <2>1. /\ Shaped(y) /\ y.mark = kind /\ y.text = Append(x.text, c)
        /\ \A f \in ParserFields \ {"mark", "text"} : y[f] = x[f]
    BY TakeKeeps
  <2> QED
    BY <2>1 DEF ParserFields, Rest
<1>2. ASSUME NEW s, IsSeq(s)
      PROVE  /\ s \o y.text = Append(s \o x.text, c)
             /\ x.mark = "none" => s \o y.text = Append(s, c)
  <2>1. s \o y.text = Append(s \o x.text, c)
    BY <1>1, <1>2, ConcatAppend DEF Shaped
  <2>2. x.mark = "none" => s \o x.text = s
    BY <1>2, ConcatEmpty DEF Shaped
  <2> QED
    BY <2>1, <2>2
<1>3. /\ kind = "url" => RawHeld(y) = Append(RawHeld(x), c)
      /\ kind # "url" => RawHeld(y) = RawHeld(x)
  <2>1. IsSeq(x.req.raw)
    BY DEF Shaped
  <2>2. x.req.raw \o y.text = Append(x.req.raw \o x.text, c) /\ (x.mark = "none" => x.req.raw \o y.text = Append(x.req.raw, c))
    BY <1>2, <2>1
  <2> QED
    BY <1>1, <2>2 DEF RawHeld
<1>4. /\ kind = "body" => BodyHeld(y) = Append(BodyHeld(x), c)
      /\ kind # "body" => BodyHeld(y) = BodyHeld(x)
  <2>1. IsSeq(x.req.body)
    BY DEF Shaped
  <2>2. x.req.body \o y.text = Append(x.req.body \o x.text, c) /\ (x.mark = "none" => x.req.body \o y.text = Append(x.req.body, c))
    BY <1>2, <2>1
  <2> QED
    BY <1>1, <2>2 DEF BodyHeld
<1>5. kind \in {"url", "body"} => HeaderHeld(y) = HeaderHeld(x)
  BY <1>1 DEF HeaderHeld
<1>6. ASSUME kind = "field" /\ x.mark = "field"
      PROVE  HeaderHeld(y) = <<HeaderHeld(x)[1], Append(HeaderHeld(x)[2], c), HeaderHeld(x)[3], HeaderHeld(x)[4]>>
  <2>1. x.field \o y.text = Append(x.field \o x.text, c)
    BY <1>2 DEF Shaped
  <2>2. HeaderHeld(x) = FieldHeld(x) /\ HeaderHeld(y) = FieldHeld(y)
    BY <1>1, <1>6 DEF HeaderHeld
  <2>3. CASE x.building = 1
    <3>1. PICK u : u = x.field \o x.text
      OBVIOUS
    <3>2. FieldHeld(x) = <<1, u, x.value, x.req.headers>>
      BY <2>3, <3>1 DEF FieldHeld
    <3>3. FieldHeld(y) = <<1, Append(u, c), x.value, x.req.headers>>
      BY <1>1, <2>1, <2>3, <3>1 DEF FieldHeld
    <3> QED
      BY <2>2, <3>2, <3>3
  <2>4. CASE x.building # 1 /\ x.value = <<>>
    BY <1>1, <2>2, <2>4 DEF FieldHeld
  <2>5. CASE x.building # 1 /\ x.value # <<>>
    BY <1>1, <2>2, <2>5 DEF FieldHeld
  <2> QED
    BY <2>3, <2>4, <2>5
<1>7. ASSUME kind = "value" /\ x.mark = "value"
      PROVE  HeaderHeld(y) = <<HeaderHeld(x)[1], HeaderHeld(x)[2], Append(HeaderHeld(x)[3], c), HeaderHeld(x)[4]>>
  <2>1. x.value \o y.text = Append(x.value \o x.text, c)
    BY <1>2 DEF Shaped
  <2>2. HeaderHeld(x) = ValueHeld(x) /\ HeaderHeld(y) = ValueHeld(y)
    BY <1>1, <1>7 DEF HeaderHeld
  <2>3. CASE x.building = 0
    <3>1. PICK u : u = x.value \o x.text
      OBVIOUS
    <3>2. ValueHeld(x) = <<0, x.field, u, x.req.headers>>
      BY <2>3, <3>1 DEF ValueHeld
    <3>3. ValueHeld(y) = <<0, x.field, Append(u, c), x.req.headers>>
      BY <1>1, <2>1, <2>3, <3>1 DEF ValueHeld
    <3> QED
      BY <2>2, <3>2, <3>3
  <2>4. CASE x.building # 0
    BY <1>1, <2>2, <2>4 DEF ValueHeld
  <2> QED
    BY <2>3, <2>4
<1> QED
  BY <1>3, <1>4, <1>5, <1>6, <1>7

\* Both take the same symbol: a body in parts, or where both have marked
\* nothing, or both the same.
LEMMA TakeAlike ==
  ASSUME NEW a, NEW b, Shaped(a), Shaped(b), Alike(a, b), NEW c,
         NEW kind \in {"url", "field", "value", "body"},
         \/ a.mark = kind /\ b.mark = kind
         \/ a.mark = "none" /\ b.mark = "none"
         \/ kind = "body" /\ a.mark \in {"none", "body"} /\ b.mark \in {"none", "body"}
  PROVE  Alike(Take(a, kind, c), Take(b, kind, c))
<1>1. PICK x : x = Take(a, kind, c)
  OBVIOUS
<1>2. PICK y : y = Take(b, kind, c)
  OBVIOUS
<1>3. /\ \A f \in ParserFields \ {"mark", "text"} : x[f] = a[f] /\ y[f] = b[f]
      /\ x.mark = kind /\ y.mark = kind /\ x.text = Append(a.text, c) /\ y.text = Append(b.text, c)
  BY <1>1, <1>2, TakeKeeps
<1>4. /\ x.req = a.req /\ y.req = b.req /\ x.handled = a.handled /\ y.handled = b.handled
      /\ x.left = a.left /\ y.left = b.left
  BY <1>3 DEF ParserFields, Rest
<1>5. \A f \in Control : x[f] = y[f]
  BY <1>3 DEF Alike, ParserFields, Control
<1>6. RawHeld(x) = RawHeld(y) /\ BodyHeld(x) = BodyHeld(y)
  BY <1>1, <1>2, TakeHeld DEF Alike
<1>7. HeaderHeld(x) = HeaderHeld(y)
  <2>1. CASE kind \in {"url", "body"}
    BY <1>1, <1>2, <2>1, TakeHeld DEF Alike
  <2>2. CASE kind \in {"field", "value"} /\ a.mark = kind /\ b.mark = kind
    <3>1. HeaderHeld(a) = HeaderHeld(b)
      BY DEF Alike
    <3>2. CASE kind = "field"
      <4>1. HeaderHeld(x) = <<HeaderHeld(a)[1], Append(HeaderHeld(a)[2], c), HeaderHeld(a)[3], HeaderHeld(a)[4]>>
        BY <1>1, <2>2, <3>2, TakeHeld
      <4>2. HeaderHeld(y) = <<HeaderHeld(b)[1], Append(HeaderHeld(b)[2], c), HeaderHeld(b)[3], HeaderHeld(b)[4]>>
        BY <1>2, <2>2, <3>2, TakeHeld
      <4> QED
        BY <3>1, <4>1, <4>2
    <3>3. CASE kind = "value"
      <4>1. HeaderHeld(x) = <<HeaderHeld(a)[1], HeaderHeld(a)[2], Append(HeaderHeld(a)[3], c), HeaderHeld(a)[4]>>
        BY <1>1, <2>2, <3>3, TakeHeld
      <4>2. HeaderHeld(y) = <<HeaderHeld(b)[1], HeaderHeld(b)[2], Append(HeaderHeld(b)[3], c), HeaderHeld(b)[4]>>
        BY <1>2, <2>2, <3>3, TakeHeld
      <4> QED
        BY <3>1, <4>1, <4>2
    <3> QED
      BY <2>2, <3>2, <3>3
  <2>3. CASE kind \in {"field", "value"} /\ a.mark = "none" /\ b.mark = "none"
    <3>1. x.text = y.text
      BY <1>3, <2>3 DEF Shaped
    <3>2. /\ a.building = b.building /\ a.field = b.field /\ a.value = b.value
          /\ a.req.headers = b.req.headers
      BY <2>3 DEF Alike, HeaderHeld
    <3>3. /\ x.building = y.building /\ x.field = y.field /\ x.value = y.value
          /\ x.req.headers = y.req.headers
      BY <1>3, <1>4, <3>2 DEF ParserFields, Rest
    <3> QED
      BY <1>3, <3>1, <3>3 DEF HeaderHeld, FieldHeld, ValueHeld
  <2> QED
    BY <2>1, <2>2, <2>3
<1>8. Masks(x) = Masks(y)
  BY <1>4 DEF Alike, Masks
<1> QED
  BY <1>1, <1>2, <1>4, <1>5, <1>6, <1>7, <1>8 DEF Alike

-----------------------------------------------------------------------------
(* What is marked is handed on. *)

\* A name or a value that was handed on is what was held.
LEMMA FlushedKeeps ==
  ASSUME NEW x, Shaped(x), x.mark \in {"field", "value"}, NEW y,
         DOMAIN y = ParserFields, DOMAIN y.req = RequestFields, y.mark = "none", y.text = <<>>,
         <<y.building, y.field, y.value, y.req.headers>> = HeaderHeld(x),
         \A f \in ParserFields \ {"mark", "text", "building", "field", "value", "req"} : y[f] = x[f],
         \A f \in RequestFields \ {"headers"} : y.req[f] = x.req[f],
         IsSeq(y.field), IsSeq(y.value), IsSeq(y.req.headers)
  PROVE  /\ Kept(x, y)
         /\ \A f \in Control \cup {"next", "qs", "start", "cut"} : y[f] = x[f]
         /\ \A f \in RequestControl \cup {"whole"} : y.req[f] = x.req[f]
<1>1. /\ y.req.raw = x.req.raw /\ y.req.body = x.req.body /\ y.handled = x.handled /\ y.p = x.p /\ y.start = x.start
      /\ y.left = x.left /\ y.rest = x.rest /\ y.cut = x.cut
  BY DEF ParserFields, Rest, RequestFields
<1>2. Shaped(y)
  BY <1>1, IsSeqEmpty DEF Shaped
<1>3. HeaderHeld(y) = HeaderHeld(x)
  <2>1. HeaderHeld(y) = <<y.building, y.field, y.value, y.req.headers>>
    BY DEF HeaderHeld
  <2> QED
    BY <2>1
<1>4. RawHeld(y) = RawHeld(x) /\ BodyHeld(y) = BodyHeld(x) /\ Masks(y) = Masks(x)
  BY <1>1 DEF RawHeld, BodyHeld, Masks
<1> QED
  BY <1>1, <1>2, <1>3, <1>4 DEF Kept, ParserFields, Rest, RequestFields, Control, RequestControl

\* A name, a value or a part of a body, or nothing: what is held stays.
LEMMA FlushKeeps ==
  ASSUME NEW x, Shaped(x), x.mark \in {"none", "field", "value", "body"}, NEW y, y = Flush(x)
  PROVE  /\ Kept(x, y) /\ y.mark = "none"
         /\ \A f \in Control \cup {"next", "qs", "start", "cut"} : y[f] = x[f]
         /\ \A f \in RequestControl \cup {"whole"} : y.req[f] = x.req[f]
<1>1. CASE x.mark = "none"
  <2>1. y = [x EXCEPT !.mark = "none", !.text = <<>>]
    BY <1>1 DEF Flush
  <2>2. \A f \in ParserFields : y[f] = x[f]
    BY <1>1, <2>1 DEF Shaped
  <2>3. DOMAIN y = ParserFields
    BY <2>1 DEF Shaped
  <2>4. Moved(x, y)
    BY <2>2, <2>3 DEF Moved, Shaped, ParserFields, Rest
  <2> QED
    BY <1>1, <2>2, <2>4, MovedKeeps DEF ParserFields, Rest
<1>2. CASE x.mark = "field"
  <2>1. y = [OnField(x) EXCEPT !.mark = "none", !.text = <<>>]
    BY <1>2 DEF Flush
  <2>2. /\ DOMAIN y = ParserFields /\ DOMAIN y.req = RequestFields
        /\ y.mark = "none" /\ y.text = <<>>
        /\ <<y.building, y.field, y.value, y.req.headers>> = FieldHeld(x)
        /\ \A f \in ParserFields \ {"mark", "text", "building", "field", "value", "req"} : y[f] = x[f]
        /\ \A f \in RequestFields \ {"headers"} : y.req[f] = x.req[f]
    <3>1. CASE x.building = 1
      BY <2>1, <3>1 DEF OnField, Shaped, ParserFields, Rest, RequestFields, FieldHeld
    <3>2. CASE x.building # 1 /\ x.value = <<>>
      BY <2>1, <3>2 DEF OnField, Shaped, ParserFields, Rest, RequestFields, FieldHeld
    <3>3. CASE x.building # 1 /\ x.value # <<>>
      <4>1. PICK e : e = Emplace(x)
        OBVIOUS
      <4>2. /\ DOMAIN e = ParserFields /\ DOMAIN e.req = RequestFields
            /\ e.field = <<>> /\ e.value = <<>>
            /\ e.req.headers = Append(x.req.headers, <<x.field, x.value>>)
            /\ \A f \in ParserFields \ {"field", "value", "req"} : e[f] = x[f]
            /\ \A f \in RequestFields \ {"headers"} : e.req[f] = x.req[f]
        BY <4>1 DEF Emplace, Shaped, ParserFields, Rest, RequestFields
      <4>3. y = [e EXCEPT !.field = x.text, !.building = 1, !.mark = "none", !.text = <<>>]
        BY <2>1, <3>3, <4>1 DEF OnField
      <4>4. /\ y.building = 1 /\ y.field = x.text /\ y.value = e.value /\ y.req = e.req
            /\ y.mark = "none" /\ y.text = <<>> /\ DOMAIN y = ParserFields
            /\ \A f \in ParserFields \ {"mark", "text", "building", "field"} : y[f] = e[f]
        BY <4>2, <4>3 DEF ParserFields, Rest
      <4>5. <<y.building, y.field, y.value, y.req.headers>> = FieldHeld(x)
        BY <3>3, <4>2, <4>4 DEF FieldHeld
      <4>6. \A f \in ParserFields \ {"mark", "text", "building", "field", "value", "req"} : y[f] = x[f]
        BY <4>2, <4>4
      <4> QED
        BY <4>2, <4>4, <4>5, <4>6
    <3> QED
      BY <3>1, <3>2, <3>3
  <2>3. IsSeq(y.field) /\ IsSeq(y.value) /\ IsSeq(y.req.headers)
    <3>1. IsSeq(x.field \o x.text) /\ IsSeq(<<>>) /\ IsSeq(Append(x.req.headers, <<x.field, x.value>>))
      BY IsSeqConcat, IsSeqEmpty, IsSeqAppend DEF Shaped
    <3> QED
      BY <2>2, <3>1 DEF FieldHeld, Shaped
  <2>4. HeaderHeld(x) = FieldHeld(x)
    BY <1>2 DEF HeaderHeld
  <2> QED
    BY <1>2, <2>2, <2>3, <2>4, FlushedKeeps
<1>3. CASE x.mark = "value"
  <2>1. y = [OnValue(x) EXCEPT !.mark = "none", !.text = <<>>]
    BY <1>3 DEF Flush
  <2>2. /\ DOMAIN y = ParserFields /\ DOMAIN y.req = RequestFields
        /\ y.mark = "none" /\ y.text = <<>>
        /\ <<y.building, y.field, y.value, y.req.headers>> = ValueHeld(x)
        /\ \A f \in ParserFields \ {"mark", "text", "building", "field", "value", "req"} : y[f] = x[f]
        /\ \A f \in RequestFields \ {"headers"} : y.req[f] = x.req[f]
    <3>1. CASE x.building = 0
      BY <2>1, <3>1 DEF OnValue, Shaped, ParserFields, Rest, RequestFields, ValueHeld
    <3>2. CASE x.building # 0
      BY <2>1, <3>2 DEF OnValue, Shaped, ParserFields, Rest, RequestFields, ValueHeld
    <3> QED
      BY <3>1, <3>2
  <2>3. IsSeq(y.field) /\ IsSeq(y.value) /\ IsSeq(y.req.headers)
    <3>1. IsSeq(x.value \o x.text)
      BY IsSeqConcat DEF Shaped
    <3> QED
      BY <2>2, <3>1 DEF ValueHeld, Shaped
  <2>4. HeaderHeld(x) = ValueHeld(x)
    BY <1>3 DEF HeaderHeld
  <2> QED
    BY <1>3, <2>2, <2>3, <2>4, FlushedKeeps
<1>4. CASE x.mark = "body"
  <2>1. y = [OnBody(x) EXCEPT !.mark = "none", !.text = <<>>]
    BY <1>4 DEF Flush
  <2>2. /\ DOMAIN y = ParserFields /\ DOMAIN y.req = RequestFields
        /\ y.mark = "none" /\ y.text = <<>> /\ y.req.body = x.req.body \o x.text
        /\ \A f \in ParserFields \ {"mark", "text", "req"} : y[f] = x[f]
        /\ \A f \in RequestFields \ {"body"} : y.req[f] = x.req[f]
    <3>1. PICK u : u = x.req.body \o x.text
      OBVIOUS
    <3>2. PICK r : r = [x.req EXCEPT !.body = u]
      OBVIOUS
    <3>3. DOMAIN r = RequestFields /\ r.body = u /\ \A f \in RequestFields \ {"body"} : r[f] = x.req[f]
      BY <3>2 DEF Shaped, RequestFields
    <3>4. y = [x EXCEPT !.req = r, !.mark = "none", !.text = <<>>]
      BY <2>1, <3>1, <3>2 DEF OnBody
    <3>5. /\ DOMAIN y = ParserFields /\ y.req = r /\ y.mark = "none" /\ y.text = <<>>
          /\ \A f \in ParserFields \ {"mark", "text", "req"} : y[f] = x[f]
      BY <3>4 DEF Shaped, ParserFields, Rest
    <3> QED
      BY <3>1, <3>3, <3>5
  <2>3. /\ y.building = x.building /\ y.field = x.field /\ y.value = x.value /\ y.req.headers = x.req.headers
        /\ y.req.raw = x.req.raw /\ y.handled = x.handled /\ y.p = x.p /\ y.start = x.start
        /\ y.left = x.left /\ y.rest = x.rest /\ y.cut = x.cut
    BY <2>2 DEF ParserFields, Rest, RequestFields
  <2>4. IsSeq(y.req.body)
    BY <2>2, IsSeqConcat DEF Shaped
  <2>5. Kept(x, y)
    BY <1>4, <2>2, <2>3, <2>4, IsSeqEmpty DEF Kept, Shaped, HeaderHeld, RawHeld, BodyHeld, Masks
  <2> QED
    BY <2>2, <2>5 DEF ParserFields, Rest, RequestFields, Control, RequestControl
<1> QED
  BY <1>1, <1>2, <1>3, <1>4

LEMMA FlushAlike ==
  ASSUME NEW a, NEW b, Shaped(a), Shaped(b), Alike(a, b),
         a.mark \in {"none", "field", "value", "body"}, b.mark \in {"none", "field", "value", "body"}
  PROVE  Alike(Flush(a), Flush(b))
<1>1. PICK x : x = Flush(a)
  OBVIOUS
<1>2. PICK y : y = Flush(b)
  OBVIOUS
<1>3. /\ Kept(a, x) /\ (\A f \in Control : x[f] = a[f]) /\ (\A f \in RequestControl : x.req[f] = a.req[f])
  BY <1>1, FlushKeeps
<1>4. /\ Kept(b, y) /\ (\A f \in Control : y[f] = b[f]) /\ (\A f \in RequestControl : y.req[f] = b.req[f])
  BY <1>2, FlushKeeps
<1>5. \A f \in Control : x[f] = y[f]
  BY <1>3, <1>4 DEF Alike
<1>6. \A f \in RequestControl : x.req[f] = y.req[f]
  BY <1>3, <1>4 DEF Alike
<1> QED
  BY <1>1, <1>2, <1>3, <1>4, <1>5, <1>6, AlikeKept

\* What the router is asked for, and whether it answers by itself.
TargetOf(x) ==
  IF x.qs = 0 \/ x.qs > Len(RawHeld(x)) THEN RawHeld(x) ELSE SubSeq(RawHeld(x), 1, x.qs)

AnsweredByRouter(x) ==
  x.req.method = "OPTIONS" \/ (x.req.method = "HEAD" /\ TargetOf(x) \notin Routed)

\* A target, or a part of one, is handed on: it is answered early, which is an
\* error of the parser, or what is held stays.
LEMMA FlushTarget ==
  ASSUME NEW x, Shaped(x), x.mark = "url", x.errno = "OK", x.state \notin {"dead", "start_req"},
         NEW y, y = Flush(x)
  PROVE  /\ Shaped(y) /\ y.mark = "none"
         /\ \A f \in {"left", "rest", "p", "next"} : y[f] = x[f]
         /\ x.cut => y.cut
         /\ x.req.method = "HEAD" /\ ~x.req.whole => y.cut
         /\ AnsweredByRouter(x) => y.errno # "OK"
         /\ ~AnsweredByRouter(x) =>
              /\ Kept(x, y)
              /\ \A f \in Control \cup {"qs", "start"} : y[f] = x[f]
              /\ \A f \in RequestControl \cup {"whole"} : y.req[f] = x.req[f]
<1>1. PICK raw : raw = x.req.raw \o x.text
  OBVIOUS
<1>2. PICK url : url = IF x.qs = 0 \/ x.qs > Len(raw) THEN raw ELSE SubSeq(raw, 1, x.qs)
  OBVIOUS
<1>3. raw = RawHeld(x) /\ url = TargetOf(x) /\ IsSeq(raw)
  BY <1>1, <1>2, IsSeqConcat DEF RawHeld, TargetOf, Shaped
<1>4. PICK r : r = [x.req EXCEPT !.raw = raw, !.url = url]
  OBVIOUS
<1>5. /\ DOMAIN r = RequestFields /\ r.raw = raw /\ r.url = url
      /\ \A f \in RequestFields \ {"raw", "url"} : r[f] = x.req[f]
  BY <1>4 DEF Shaped, RequestFields
<1>6. PICK z : z = [x EXCEPT !.req = r, !.cut = @ \/ (x.req.method = "HEAD" /\ ~x.req.whole)]
  OBVIOUS
<1>7. /\ DOMAIN z = ParserFields /\ z.req = r /\ z.cut = (x.cut \/ (x.req.method = "HEAD" /\ ~x.req.whole))
      /\ \A f \in ParserFields \ {"req", "cut"} : z[f] = x[f]
  BY <1>6 DEF Shaped, ParserFields, Rest
<1>8. OnUrl(x) = UrlHandled(z)
  BY <1>1, <1>2, <1>4, <1>6 DEF OnUrl
<1>9. y = [UrlHandled(z) EXCEPT !.mark = "none", !.text = <<>>]
  BY <1>8 DEF Flush
<1>10. /\ z.req.method = x.req.method /\ z.state = x.state /\ z.errno = "OK"
       /\ z.p = x.p /\ z.start = x.start /\ z.handled = x.handled
  BY <1>5, <1>7 DEF ParserFields, Rest, RequestFields, Control, RequestControl
<1>11. CASE AnsweredByRouter(x)
  <2>1. UrlHandled(z) = [ClearParser(Done(z)) EXCEPT !.early = Append(@, z.req)]
    BY <1>3, <1>5, <1>7, <1>10, <1>11 DEF UrlHandled, AnsweredByRouter
  <2>2. Done(z) = Fail(z, "INVALID_EOF_STATE")
    BY <1>10 DEF Done
  <2>3. PICK d : d = Fail(z, "INVALID_EOF_STATE")
    OBVIOUS
  <2>4. DOMAIN d = ParserFields /\ d.errno = "INVALID_EOF_STATE" /\ \A f \in ParserFields \ {"errno"} : d[f] = z[f]
    BY <1>7, <2>3 DEF Fail, ParserFields, Control, Rest
  <2>5. PICK e : e = ClearParser(d)
    OBVIOUS
  <2>6. /\ DOMAIN e = ParserFields /\ e.req = NoRequest /\ e.field = <<>> /\ e.value = <<>> /\ e.building = 0
        /\ \A f \in ParserFields \ {"req", "field", "value", "building", "qs", "complete", "state"} : e[f] = d[f]
    BY <2>4, <2>5 DEF ClearParser, ParserFields, Control, Rest
  <2>7. y = [e EXCEPT !.early = Append(@, z.req), !.mark = "none", !.text = <<>>]
    BY <1>9, <2>1, <2>2, <2>3, <2>5
  <2>8. /\ DOMAIN y = ParserFields /\ y.mark = "none" /\ y.text = <<>>
        /\ \A f \in ParserFields \ {"early", "mark", "text"} : y[f] = e[f]
    BY <2>6, <2>7 DEF ParserFields, Control, Rest
  <2>9. /\ y.req = NoRequest /\ y.field = <<>> /\ y.value = <<>> /\ y.errno = "INVALID_EOF_STATE"
        /\ y.handled = x.handled /\ y.p = x.p /\ y.start = x.start /\ y.left = x.left /\ y.rest = x.rest
        /\ y.next = x.next /\ y.cut = z.cut
    BY <1>7, <1>10, <2>4, <2>6, <2>8 DEF ParserFields, Control, Rest
  <2>10. Shaped(y)
    <3>1. DOMAIN NoRequest = RequestFields
      BY DEF NoRequest, RequestFields, RequestControl
    <3>2. NoRequest.raw = <<>> /\ NoRequest.headers = <<>> /\ NoRequest.body = <<>>
      BY DEF NoRequest
    <3> QED
      BY <2>8, <2>9, <3>1, <3>2, IsSeqEmpty DEF Shaped
  <2> QED
    BY <1>7, <1>11, <2>8, <2>9, <2>10
<1>12. CASE ~AnsweredByRouter(x)
  <2>1. UrlHandled(z) = z
    BY <1>3, <1>5, <1>7, <1>10, <1>12 DEF UrlHandled, AnsweredByRouter
  <2>2. y = [z EXCEPT !.mark = "none", !.text = <<>>]
    BY <1>9, <2>1
  <2>3. /\ DOMAIN y = ParserFields /\ y.mark = "none" /\ y.text = <<>> /\ y.req = r /\ y.cut = z.cut
        /\ \A f \in ParserFields \ {"req", "cut", "mark", "text"} : y[f] = x[f]
    BY <1>7, <2>2 DEF ParserFields, Control, Rest
  <2>4. /\ y.building = x.building /\ y.field = x.field /\ y.value = x.value /\ y.handled = x.handled
        /\ y.p = x.p /\ y.start = x.start /\ y.left = x.left /\ y.rest = x.rest /\ y.next = x.next
    BY <2>3 DEF ParserFields, Control, Rest
  <2>5. y.req.headers = x.req.headers /\ y.req.body = x.req.body /\ y.req.raw = raw
    BY <1>5, <2>3 DEF RequestFields, RequestControl
  <2>6. Shaped(y)
    BY <1>3, <1>5, <2>3, <2>4, <2>5, IsSeqEmpty DEF Shaped
  <2>7. RawHeld(y) = RawHeld(x) /\ BodyHeld(y) = BodyHeld(x) /\ HeaderHeld(y) = HeaderHeld(x)
    BY <1>3, <2>3, <2>4, <2>5 DEF RawHeld, BodyHeld, HeaderHeld
  <2>8. Kept(x, y)
    BY <1>7, <2>3, <2>4, <2>6, <2>7 DEF Kept, Masks
  <2>9. \A f \in Control \cup {"qs", "start"} : y[f] = x[f]
    BY <2>3 DEF ParserFields, Control, Rest
  <2>10. \A f \in RequestControl \cup {"whole"} : y.req[f] = x.req[f]
    BY <1>5, <2>3 DEF RequestFields, RequestControl
  <2> QED
    BY <1>7, <1>12, <2>3, <2>4, <2>6, <2>8, <2>9, <2>10
<1> QED
  BY <1>11, <1>12

\* Both hand a target on: only that of a HEAD has to have come whole to be
\* looked up alike.
LEMMA FlushTargetAlike ==
  ASSUME NEW a, NEW b, Shaped(a), Shaped(b), Alike(a, b), a.mark = "url", b.mark = "url",
         a.errno = "OK", a.state \notin {"dead", "start_req"},
         a.req.whole /\ b.req.whole => a.qs = b.qs
  PROVE  Alike(Flush(a), Flush(b)) \/ Apart(Flush(a), Flush(b))
<1>1. PICK x : x = Flush(a)
  OBVIOUS
<1>2. PICK y : y = Flush(b)
  OBVIOUS
<1> SUFFICES ASSUME ~Apart(x, y) PROVE Alike(x, y)
  BY <1>1, <1>2
<1>3. b.errno = "OK" /\ b.state = a.state /\ b.req.method = a.req.method /\ RawHeld(a) = RawHeld(b)
  BY DEF Alike, Control, RequestControl
<1>4. ~AnsweredByRouter(a) /\ ~(a.req.method = "HEAD" /\ ~a.req.whole)
  BY <1>1, FlushTarget DEF Apart
<1>5. ~(b.req.method = "HEAD" /\ ~b.req.whole)
  BY <1>2, <1>3, FlushTarget DEF Apart
<1>6. ~AnsweredByRouter(b)
  BY <1>3, <1>4, <1>5 DEF AnsweredByRouter, TargetOf
<1>7. Kept(a, x) /\ (\A f \in Control : x[f] = a[f]) /\ (\A f \in RequestControl : x.req[f] = a.req[f])
  BY <1>1, <1>4, FlushTarget
<1>8. Kept(b, y) /\ (\A f \in Control : y[f] = b[f]) /\ (\A f \in RequestControl : y.req[f] = b.req[f])
  BY <1>2, <1>3, <1>6, FlushTarget
<1>9. (\A f \in Control : x[f] = y[f]) /\ (\A f \in RequestControl : x.req[f] = y.req[f])
  BY <1>7, <1>8 DEF Alike
<1> QED
  BY <1>7, <1>8, <1>9, AlikeKept

-----------------------------------------------------------------------------
(* The headers and the message are complete. *)

LEMMA HeadersComplete ==
  ASSUME NEW x, Shaped(x), x.mark = "none", NEW y, y = OnHeadersComplete(x)
  PROVE  /\ Shaped(y)
         /\ \A f \in Control \cup {"mark", "left", "rest", "p", "next", "cut", "handled", "building"} : y[f] = x[f]
         /\ y.field = (IF x.field = <<>> THEN x.field ELSE <<>>)
         /\ y.value = (IF x.field = <<>> THEN x.value ELSE <<>>)
         /\ y.req.headers = (IF x.field = <<>> THEN x.req.headers
                             ELSE Append(x.req.headers, <<x.field, x.value>>))
         /\ y.req.method = x.req.method /\ y.req.raw = x.req.raw /\ y.req.body = x.req.body
         /\ y.req.version = x.version /\ y.req.upgrade = x.upgrade
         /\ y.req.keep = (x.version = <<1, 1>> \/ (x.version = <<1, 0>> /\ "KEEP_ALIVE" \in x.flags))
         /\ y.req.close = ((x.version = <<1, 0>> /\ "KEEP_ALIVE" \notin x.flags)
                             \/ (x.version = <<1, 1>> /\ "CLOSE" \in x.flags))
<1>1. PICK e : e = IF x.field # <<>> THEN Emplace(x) ELSE x
  OBVIOUS
<1>2. /\ DOMAIN e = ParserFields /\ DOMAIN e.req = RequestFields
      /\ \A f \in ParserFields \ {"field", "value", "req"} : e[f] = x[f]
      /\ \A f \in RequestFields \ {"headers"} : e.req[f] = x.req[f]
      /\ e.field = (IF x.field = <<>> THEN x.field ELSE <<>>)
      /\ e.value = (IF x.field = <<>> THEN x.value ELSE <<>>)
      /\ e.req.headers = (IF x.field = <<>> THEN x.req.headers
                          ELSE Append(x.req.headers, <<x.field, x.value>>))
  <2>1. CASE x.field = <<>>
    BY <1>1, <2>1 DEF Shaped
  <2>2. CASE x.field # <<>>
    <3>1. PICK r : r = [x.req EXCEPT !.headers = Append(@, <<x.field, x.value>>)]
      OBVIOUS
    <3>2. /\ DOMAIN r = RequestFields /\ r.headers = Append(x.req.headers, <<x.field, x.value>>)
          /\ \A f \in RequestFields \ {"headers"} : r[f] = x.req[f]
      BY <3>1 DEF Shaped, RequestFields
    <3>3. e = [x EXCEPT !.req = r, !.field = <<>>, !.value = <<>>]
      BY <1>1, <2>2, <3>1 DEF Emplace
    <3>4. /\ DOMAIN e = ParserFields /\ e.req = r /\ e.field = <<>> /\ e.value = <<>>
          /\ \A f \in ParserFields \ {"field", "value", "req"} : e[f] = x[f]
      BY <3>3 DEF Shaped, ParserFields, Rest
    <3> QED
      BY <2>2, <3>2, <3>4
  <2> QED
    BY <2>1, <2>2
<1>3. PICK old, new : old = (e.version = <<1, 0>>) /\ new = (e.version = <<1, 1>>)
  OBVIOUS
<1>4. PICK keep, close : /\ keep = (new \/ (old /\ "KEEP_ALIVE" \in e.flags))
                         /\ close = ((old /\ "KEEP_ALIVE" \notin e.flags) \/ (new /\ "CLOSE" \in e.flags))
  OBVIOUS
<1>5. PICK r : r = [e.req EXCEPT !.version = e.version, !.upgrade = e.upgrade, !.keep = keep, !.close = close]
  OBVIOUS
<1>6. /\ DOMAIN r = RequestFields /\ r.version = e.version /\ r.upgrade = e.upgrade /\ r.keep = keep /\ r.close = close
      /\ \A f \in RequestFields \ {"version", "upgrade", "keep", "close"} : r[f] = e.req[f]
  BY <1>2, <1>5 DEF RequestFields, RequestControl
<1>7. y = [e EXCEPT !.req = r]
  <2>1. y = WithParameters(e)
    BY <1>1 DEF OnHeadersComplete
  <2> QED
    BY <1>2, <1>3, <1>4, <1>5, <2>1 DEF WithParameters, ParserFields, Control, Rest, RequestFields, RequestControl
<1>8. DOMAIN y = ParserFields /\ y.req = r /\ \A f \in ParserFields \ {"req"} : y[f] = e[f]
  BY <1>2, <1>7 DEF ParserFields, Rest
<1>9. e.version = x.version /\ e.flags = x.flags /\ e.upgrade = x.upgrade
  BY <1>2 DEF ParserFields, Control
<1>10. /\ \A f \in Control \cup {"mark", "left", "rest", "p", "next", "cut", "handled", "building"} : y[f] = x[f]
       /\ y.text = x.text /\ y.start = x.start /\ y.p = x.p /\ y.mark = x.mark /\ y.handled = x.handled
       /\ y.field = e.field /\ y.value = e.value
  BY <1>2, <1>8 DEF ParserFields, Control, Rest
<1>11. /\ y.req.headers = e.req.headers /\ y.req.method = x.req.method /\ y.req.raw = x.req.raw
       /\ y.req.body = x.req.body /\ DOMAIN y.req = RequestFields
  BY <1>2, <1>6, <1>8 DEF RequestFields, RequestControl
<1>12. Shaped(y)
  <2>1. IsSeq(e.field) /\ IsSeq(e.value) /\ IsSeq(e.req.headers)
    BY <1>2, IsSeqEmpty, IsSeqAppend DEF Shaped
  <2> QED
    BY <1>8, <1>10, <1>11, <2>1 DEF Shaped
<1>13. y.req.version = x.version /\ y.req.upgrade = x.upgrade /\ y.req.keep = keep /\ y.req.close = close
  BY <1>6, <1>8, <1>9
<1> QED
  BY <1>2, <1>3, <1>4, <1>9, <1>10, <1>11, <1>12, <1>13

LEMMA HeadersCompleteControl ==
  ASSUME NEW x, Shaped(x), x.mark = "none", NEW y, y = OnHeadersComplete(x)
  PROVE  \A f \in Control \cup {"mark", "left", "rest", "p", "next", "cut", "handled", "building"} : y[f] = x[f]
<1>1. PICK e : e = IF x.field # <<>> THEN Emplace(x) ELSE x
  OBVIOUS
<1>2. DOMAIN e = ParserFields /\ \A f \in ParserFields \ {"field", "value", "req"} : e[f] = x[f]
  BY <1>1 DEF Emplace, Shaped, ParserFields, Rest
<1>3. y = WithParameters(e)
  BY <1>1 DEF OnHeadersComplete
<1>4. \A f \in ParserFields \ {"req"} : y[f] = e[f]
  BY <1>2, <1>3 DEF WithParameters, ParserFields, Control, Rest
<1> QED
  BY <1>2, <1>4 DEF ParserFields, Control, Rest

LEMMA HeadersAlike ==
  ASSUME NEW a, NEW b, Shaped(a), Shaped(b), Alike(a, b), a.mark = "none", b.mark = "none"
  PROVE  Alike(OnHeadersComplete(a), OnHeadersComplete(b))
<1>1. PICK x : x = OnHeadersComplete(a)
  OBVIOUS
<1>2. PICK y : y = OnHeadersComplete(b)
  OBVIOUS
<1>3. /\ a.building = b.building /\ a.field = b.field /\ a.value = b.value /\ a.req.headers = b.req.headers
      /\ a.req.raw = b.req.raw /\ a.req.body = b.req.body
      /\ a.version = b.version /\ a.flags = b.flags /\ a.upgrade = b.upgrade /\ a.req.method = b.req.method
  BY DEF Alike, HeaderHeld, RawHeld, BodyHeld, Control, RequestControl
<1>a. /\ \A f \in Control \cup {"mark", "left", "rest", "p", "next", "cut", "handled", "building"} : x[f] = a[f]
      /\ x.field = (IF a.field = <<>> THEN a.field ELSE <<>>)
      /\ x.value = (IF a.field = <<>> THEN a.value ELSE <<>>)
      /\ x.req.headers = (IF a.field = <<>> THEN a.req.headers ELSE Append(a.req.headers, <<a.field, a.value>>))
      /\ x.req.method = a.req.method /\ x.req.raw = a.req.raw /\ x.req.body = a.req.body
      /\ x.req.version = a.version /\ x.req.upgrade = a.upgrade
      /\ x.req.keep = (a.version = <<1, 1>> \/ (a.version = <<1, 0>> /\ "KEEP_ALIVE" \in a.flags))
      /\ x.req.close = ((a.version = <<1, 0>> /\ "KEEP_ALIVE" \notin a.flags)
                            \/ (a.version = <<1, 1>> /\ "CLOSE" \in a.flags))
  BY <1>1, HeadersComplete
<1>b. /\ \A f \in Control \cup {"mark", "left", "rest", "p", "next", "cut", "handled", "building"} : y[f] = b[f]
      /\ y.field = (IF b.field = <<>> THEN b.field ELSE <<>>)
      /\ y.value = (IF b.field = <<>> THEN b.value ELSE <<>>)
      /\ y.req.headers = (IF b.field = <<>> THEN b.req.headers ELSE Append(b.req.headers, <<b.field, b.value>>))
      /\ y.req.method = b.req.method /\ y.req.raw = b.req.raw /\ y.req.body = b.req.body
      /\ y.req.version = b.version /\ y.req.upgrade = b.upgrade
      /\ y.req.keep = (b.version = <<1, 1>> \/ (b.version = <<1, 0>> /\ "KEEP_ALIVE" \in b.flags))
      /\ y.req.close = ((b.version = <<1, 0>> /\ "KEEP_ALIVE" \notin b.flags)
                            \/ (b.version = <<1, 1>> /\ "CLOSE" \in b.flags))
  BY <1>2, HeadersComplete
<1>4. /\ x.building = a.building /\ x.mark = a.mark /\ x.handled = a.handled /\ x.left = a.left
      /\ y.building = b.building /\ y.mark = b.mark /\ y.handled = b.handled /\ y.left = b.left
  BY <1>a, <1>b DEF Control
<1>5. /\ x.field = y.field /\ x.value = y.value /\ x.req.headers = y.req.headers
      /\ x.req.raw = y.req.raw /\ x.req.body = y.req.body
      /\ x.req.method = y.req.method /\ x.req.version = y.req.version /\ x.req.upgrade = y.req.upgrade
  BY <1>3, <1>a, <1>b
<1>6. x.req.keep = y.req.keep /\ x.req.close = y.req.close
  BY <1>3, <1>a, <1>b
<1>7. HeaderHeld(x) = HeaderHeld(y) /\ RawHeld(x) = RawHeld(y) /\ BodyHeld(x) = BodyHeld(y)
  BY <1>3, <1>4, <1>5 DEF HeaderHeld, RawHeld, BodyHeld
<1>8. \A f \in RequestControl : x.req[f] = y.req[f]
  BY <1>5, <1>6 DEF RequestControl
<1>9. \A f \in Control : x[f] = y[f]
  <2>1. \A f \in Control : x[f] = a[f]
    BY <1>a
  <2>2. \A f \in Control : y[f] = b[f]
    BY <1>b
  <2> QED
    BY <2>1, <2>2 DEF Alike
<1> QED
  BY <1>1, <1>2, <1>4, <1>7, <1>8, <1>9 DEF Alike, Masks

LEMMA MessageComplete ==
  ASSUME NEW x, Shaped(x), x.mark = "none", NEW y, y = OnMessageComplete(x)
  PROVE  /\ Shaped(y)
         /\ \A f \in (Control \ {"state", "complete"}) \cup {"mark", "left", "rest", "p", "next", "cut"} : y[f] = x[f]
         /\ y.handled = Append(x.handled, x.req)
         /\ GivenAway(x.req) => /\ y.state = x.state /\ y.complete = TRUE /\ y.req = x.req
                                /\ y.building = x.building /\ y.field = x.field /\ y.value = x.value
         /\ ~GivenAway(x.req) => /\ y.state = "start_req" /\ y.complete = FALSE /\ y.req = NoRequest /\ y.qs = 0
                                 /\ y.building = 0 /\ y.field = <<>> /\ y.value = <<>>
<1>1. PICK z : z = [x EXCEPT !.handled = Append(@, x.req), !.complete = TRUE]
  OBVIOUS
<1>2. /\ DOMAIN z = ParserFields /\ z.handled = Append(x.handled, x.req) /\ z.complete = TRUE
      /\ \A f \in ParserFields \ {"handled", "complete"} : z[f] = x[f]
  BY <1>1 DEF Shaped, ParserFields, Rest, Control
<1>3. IsSeq(z.handled)
  BY <1>2, IsSeqAppend DEF Shaped
<1>4. CASE GivenAway(x.req)
  <2>1. y = z
    BY <1>1, <1>4 DEF OnMessageComplete
  <2>2. /\ z.text = x.text /\ z.field = x.field /\ z.value = x.value /\ z.req = x.req /\ z.p = x.p /\ z.start = x.start
        /\ z.mark = x.mark /\ z.state = x.state /\ z.building = x.building
    BY <1>2 DEF ParserFields, Control, Rest
  <2>3. Shaped(z)
    BY <1>2, <1>3, <2>2 DEF Shaped
  <2>4. \A f \in (Control \ {"state", "complete"}) \cup {"mark", "left", "rest", "p", "next", "cut"} : z[f] = x[f]
    BY <1>2 DEF ParserFields, Control, Rest
  <2> QED
    BY <1>2, <1>4, <2>1, <2>2, <2>3, <2>4
<1>5. CASE ~GivenAway(x.req)
  <2>1. y = ClearParser(z)
    BY <1>1, <1>5 DEF OnMessageComplete
  <2>2. /\ DOMAIN y = ParserFields /\ y.req = NoRequest /\ y.field = <<>> /\ y.value = <<>> /\ y.building = 0
        /\ y.qs = 0 /\ y.complete = FALSE /\ y.state = "start_req"
        /\ \A f \in ParserFields \ {"req", "field", "value", "building", "qs", "complete", "state"} : y[f] = z[f]
    BY <1>2, <2>1 DEF ClearParser, ParserFields, Control, Rest
  <2>3. y.text = x.text /\ y.p = x.p /\ y.start = x.start /\ y.mark = x.mark /\ y.handled = z.handled
    BY <1>2, <2>2 DEF ParserFields, Control, Rest
  <2>4. Shaped(y)
    <3>1. DOMAIN NoRequest = RequestFields
      BY DEF NoRequest, RequestFields, RequestControl
    <3>2. NoRequest.raw = <<>> /\ NoRequest.headers = <<>> /\ NoRequest.body = <<>>
      BY DEF NoRequest
    <3> QED
      BY <1>3, <2>2, <2>3, <3>1, <3>2, IsSeqEmpty DEF Shaped
  <2>5. \A f \in (Control \ {"state", "complete"}) \cup {"mark", "left", "rest", "p", "next", "cut"} : y[f] = x[f]
    BY <1>2, <2>2 DEF ParserFields, Control, Rest
  <2> QED
    BY <1>2, <1>5, <2>2, <2>3, <2>4, <2>5
<1> QED
  BY <1>4, <1>5

\* One more request was handled, and it was the same for both.
LEMMA MasksAppend ==
  ASSUME NEW a, NEW b, IsSeq(a.handled), IsSeq(b.handled), Masks(a) = Masks(b),
         DOMAIN a.req = RequestFields, DOMAIN b.req = RequestFields,
         \A f \in RequestFields \ {"url", "whole"} : a.req[f] = b.req[f],
         NEW x, NEW y, x.handled = Append(a.handled, a.req), y.handled = Append(b.handled, b.req)
  PROVE  Masks(x) = Masks(y)
<1>1. Masked(a.req) = Masked(b.req)
  <2>1. PICK r : r = Masked(a.req)
    OBVIOUS
  <2>2. PICK s : s = Masked(b.req)
    OBVIOUS
  <2>3. r = [f \in RequestFields |-> IF f = "whole" THEN TRUE ELSE IF f = "url" THEN <<>> ELSE a.req[f]]
    BY <2>1 DEF Masked, RequestFields
  <2>4. s = [f \in RequestFields |-> IF f = "whole" THEN TRUE ELSE IF f = "url" THEN <<>> ELSE b.req[f]]
    BY <2>2 DEF Masked, RequestFields
  <2>5. r = s
    BY <2>3, <2>4
  <2> QED
    BY <2>1, <2>2, <2>5
<1>2. Len(a.handled) = Len(b.handled) /\ \A i \in 1 .. Len(a.handled) : Masked(a.handled[i]) = Masked(b.handled[i])
  <2>1. DOMAIN Masks(a) = 1 .. Len(a.handled) /\ DOMAIN Masks(b) = 1 .. Len(b.handled)
    BY IsSeqLen DEF Masks
  <2>2. Len(a.handled) \in Nat /\ Len(b.handled) \in Nat
    BY IsSeqLen
  <2>3. 1 .. Len(a.handled) = 1 .. Len(b.handled)
    BY <2>1
  <2>4. Len(a.handled) = Len(b.handled)
    BY <2>2, <2>3
  <2>5. \A i \in 1 .. Len(a.handled) : Masks(a)[i] = Masked(a.handled[i]) /\ Masks(b)[i] = Masked(b.handled[i])
    BY <2>4, IsSeqLen DEF Masks
  <2> QED
    BY <2>4, <2>5
<1>3. PICK n \in Nat : n = Len(a.handled)
  BY IsSeqLen
<1>4. /\ DOMAIN x.handled = 1 .. n + 1 /\ DOMAIN y.handled = 1 .. n + 1
      /\ x.handled[n + 1] = a.req /\ y.handled[n + 1] = b.req
      /\ \A i \in 1 .. n : x.handled[i] = a.handled[i] /\ y.handled[i] = b.handled[i]
  BY <1>2, <1>3, IsSeqAppend, IsSeqLen
<1>5. \A i \in 1 .. n + 1 : Masked(x.handled[i]) = Masked(y.handled[i])
  <2> SUFFICES ASSUME NEW i \in 1 .. n + 1 PROVE Masked(x.handled[i]) = Masked(y.handled[i])
    OBVIOUS
  <2>1. CASE i = n + 1
    BY <1>1, <1>4, <2>1
  <2>2. CASE i # n + 1
    <3>1. i \in 1 .. n
      BY <2>2
    <3> QED
      BY <1>2, <1>3, <1>4, <3>1
  <2> QED
    BY <2>1, <2>2
<1> QED
  BY <1>4, <1>5 DEF Masks

LEMMA MessageAlike ==
  ASSUME NEW a, NEW b, Shaped(a), Shaped(b), Alike(a, b), a.mark = "none", b.mark = "none"
  PROVE  /\ Alike(OnMessageComplete(a), OnMessageComplete(b))
         /\ GivenAway(a.req) <=> GivenAway(b.req)
<1>1. PICK x : x = OnMessageComplete(a)
  OBVIOUS
<1>2. PICK y : y = OnMessageComplete(b)
  OBVIOUS
<1>3. /\ a.building = b.building /\ a.field = b.field /\ a.value = b.value /\ a.req.headers = b.req.headers
      /\ a.req.raw = b.req.raw /\ a.req.body = b.req.body /\ a.state = b.state
  BY DEF Alike, HeaderHeld, RawHeld, BodyHeld, Control
<1>4. \A f \in RequestFields \ {"url", "whole"} : a.req[f] = b.req[f]
  BY <1>3 DEF Alike, RequestFields, RequestControl
<1>5. a.req.upgrade = b.req.upgrade /\ a.req.version = b.req.version
  BY <1>4 DEF RequestFields, RequestControl
<1>6. GivenAway(a.req) <=> GivenAway(b.req)
  BY <1>3, <1>5 DEF GivenAway, HasHeader
<1>7. x.handled = Append(a.handled, a.req) /\ y.handled = Append(b.handled, b.req)
  BY <1>1, <1>2, MessageComplete
<1>8. Masks(x) = Masks(y)
  BY <1>4, <1>7, MasksAppend DEF Shaped, Alike
<1>a. /\ \A f \in (Control \ {"state", "complete"}) \cup {"mark", "left", "rest", "p", "next", "cut"} : x[f] = a[f]
      /\ GivenAway(a.req) => /\ x.state = a.state /\ x.complete = TRUE /\ x.req = a.req
                               /\ x.building = a.building /\ x.field = a.field /\ x.value = a.value
      /\ ~GivenAway(a.req) => /\ x.state = "start_req" /\ x.complete = FALSE /\ x.req = NoRequest
                                /\ x.building = 0 /\ x.field = <<>> /\ x.value = <<>>
  BY <1>1, MessageComplete
<1>b. /\ \A f \in (Control \ {"state", "complete"}) \cup {"mark", "left", "rest", "p", "next", "cut"} : y[f] = b[f]
      /\ GivenAway(b.req) => /\ y.state = b.state /\ y.complete = TRUE /\ y.req = b.req
                               /\ y.building = b.building /\ y.field = b.field /\ y.value = b.value
      /\ ~GivenAway(b.req) => /\ y.state = "start_req" /\ y.complete = FALSE /\ y.req = NoRequest
                                /\ y.building = 0 /\ y.field = <<>> /\ y.value = <<>>
  BY <1>2, MessageComplete
<1>9. /\ \A f \in (Control \ {"state", "complete"}) : x[f] = a[f] /\ y[f] = b[f]
      /\ x.mark = "none" /\ y.mark = "none" /\ x.left = a.left /\ y.left = b.left
  BY <1>a, <1>b
<1>10. /\ x.state = y.state /\ x.complete = y.complete
       /\ x.building = y.building /\ x.field = y.field /\ x.value = y.value
       /\ \A f \in RequestFields \ {"url", "whole"} : x.req[f] = y.req[f]
  BY <1>3, <1>4, <1>6, <1>a, <1>b
<1>11. \A f \in Control : x[f] = y[f]
  BY <1>9, <1>10 DEF Alike, Control
<1>12. /\ x.req.raw = y.req.raw /\ x.req.headers = y.req.headers /\ x.req.body = y.req.body
       /\ \A f \in RequestControl : x.req[f] = y.req[f]
  BY <1>10 DEF RequestFields, RequestControl
<1>13. HeaderHeld(x) = HeaderHeld(y) /\ RawHeld(x) = RawHeld(y) /\ BodyHeld(x) = BodyHeld(y)
  BY <1>9, <1>10, <1>12 DEF HeaderHeld, RawHeld, BodyHeld
<1>14. x.left => y.left
  BY <1>9 DEF Alike
<1> QED
  BY <1>1, <1>2, <1>6, <1>8, <1>11, <1>12, <1>13, <1>14 DEF Alike

-----------------------------------------------------------------------------
(* One symbol is consumed. *)

\* A parser that is about to consume a symbol.
Going(x) == Shaped(x) /\ Placed(x) /\ x.errno = "OK" /\ x.state \in Reading /\ ~x.left /\ x.p # 0

\* What consuming it leaves of one parser.
Fine(x, y) == Sound(y) /\ (x.cut => y.cut) /\ y.rest = x.rest /\ y.p = x.p

\* Two parsers that may go on together, and what a symbol leaves of them.
Same(a, b) == Alike(a, b) /\ Query(a, b)

Together(a, b) == Going(a) /\ Going(b) /\ Same(a, b) /\ (a.next = b.next \/ a.next = "" \/ b.next = "")

Agree(x, y) == Same(x, y) \/ Apart(x, y)

\* Steps that only move the machine, or fail.
LEMMA MovedIsFine ==
  ASSUME NEW x, NEW y, Going(x), Moved(x, y),
         y.errno = "OK" =>
           /\ y.state \in Reading /\ y.complete = x.complete /\ y.req.upgrade = x.req.upgrade
           /\ x.mark = MarkOf(y.state) \/ (y.state \in HalfBody /\ x.mark = "body")
           /\ y.state \in BeforeTarget => y.qs = 0
           /\ y.state \in UrlStates /\ y.req.whole => y.start # 0
  PROVE  Fine(x, y)
<1>1. Kept(x, y) /\ y.mark = x.mark
  BY MovedKeeps DEF Going
<1>2. Shaped(y) /\ (x.cut => y.cut) /\ y.rest = x.rest /\ y.p = x.p /\ y.left = x.left
  BY <1>1 DEF Kept
<1>3. y.errno = "OK" => Placed(y)
  BY <1>1, <1>2 DEF Placed, Going
<1> QED
  BY <1>2, <1>3 DEF Fine, Sound

LEMMA MovedAgree ==
  ASSUME NEW a, NEW b, NEW x, NEW y, Together(a, b), Moved(a, x), Moved(b, y),
         \A f \in Control : x[f] = y[f],
         \A f \in RequestControl : x.req[f] = y.req[f],
         x.state \notin UrlStates
  PROVE  Agree(x, y)
<1>1. Alike(x, y)
  BY AlikeMoved DEF Together, Going, Same
<1> QED
  BY <1>1 DEF Agree, Same, Query

\* What Alike says of the fields the steps read.
LEMMA AlikeControl ==
  ASSUME NEW a, NEW b, Alike(a, b)
  PROVE  /\ a.state = b.state /\ a.header = b.header /\ a.index = b.index /\ a.flags = b.flags
         /\ a.encoded = b.encoded /\ a.length = b.length /\ a.method = b.method /\ a.version = b.version
         /\ a.errno = b.errno /\ a.upgrade = b.upgrade /\ a.nread = b.nread /\ a.complete = b.complete
         /\ a.req.method = b.req.method /\ a.req.version = b.req.version /\ a.req.keep = b.req.keep
         /\ a.req.close = b.req.close /\ a.req.upgrade = b.req.upgrade
BY DEF Alike, Control, RequestControl

LEMMA StartRequestMoves ==
  ASSUME NEW x, Shaped(x), NEW c, NEW y, y = StartRequest(x, c)
  PROVE  /\ Moved(x, y) /\ y.req = x.req /\ y.qs = x.qs /\ y.complete = x.complete
         /\ y.errno = "OK" => y.state \in {x.state, "req_method"}
BY DEF StartRequest, Go, Fail, Moved, Shaped, ParserFields, Rest, Control

LEMMA StartRequestControl ==
  ASSUME NEW a, NEW b, Shaped(a), Shaped(b), Alike(a, b), NEW c,
         NEW x, x = StartRequest(a, c), NEW y, y = StartRequest(b, c)
  PROVE  \A f \in Control : x[f] = y[f]
BY DEF StartRequest, Go, Fail, Shaped, ParserFields, Rest, Control, Alike

LEMMA MethodMoves ==
  ASSUME NEW x, Shaped(x), NEW c, NEW y, y = Method(x, c)
  PROVE  /\ Moved(x, y) /\ y.req.upgrade = x.req.upgrade /\ y.qs = x.qs /\ y.complete = x.complete
         /\ y.errno = "OK" => y.state \in {x.state, "spaces_before_url"}
BY DEF Method, OnMethod, Go, Fail, Moved, Shaped, ParserFields, Rest, Control, RequestFields, RequestControl

LEMMA MethodControl ==
  ASSUME NEW a, NEW b, Shaped(a), Shaped(b), Alike(a, b), NEW c,
         NEW x, x = Method(a, c), NEW y, y = Method(b, c)
  PROVE  (\A f \in Control : x[f] = y[f]) /\ (\A f \in RequestControl : x.req[f] = y.req[f])
<1>1. a.index = b.index /\ a.method = b.method /\ \A f \in Control : a[f] = b[f]
  BY AlikeControl DEF Alike
<1>2. \A f \in RequestControl : a.req[f] = b.req[f]
  BY DEF Alike
<1>3. CASE c = " " /\ a.index = 2
  <2>1. a.index # 1 /\ b.index # 1 /\ b.index = 2
    <3>1. PICK i : i = a.index
      OBVIOUS
    <3>2. i = 2
      BY <1>3, <3>1
    <3>3. i # 1
      BY <3>2
    <3> QED
      BY <1>1, <3>1, <3>2, <3>3, Zenon
  <2>2. x = OnMethod(Go(a, "spaces_before_url"), a.method)
    BY <1>3, <2>1, Zenon DEF Method
  <2>3. y = OnMethod(Go(b, "spaces_before_url"), b.method)
    BY <1>3, <2>1, Zenon DEF Method
  <2> QED
    BY <1>1, <1>2, <2>2, <2>3
       DEF OnMethod, Go, Shaped, ParserFields, Control, RequestFields, RequestControl
<1>4. CASE a.index = 1 /\ c = MethodRest[a.method]
  BY <1>1, <1>2, <1>4 DEF Method, OnMethod, Shaped, ParserFields, Control, RequestFields, RequestControl
<1>5. CASE ~(c = " " /\ a.index = 2) /\ ~(a.index = 1 /\ c = MethodRest[a.method])
  <2>1. CASE a.index = 1 /\ a.method = "POST" /\ c = MethodRest.PUT
    BY <1>1, <1>2, <1>5, <2>1 DEF Method, OnMethod, Shaped, ParserFields, Control, RequestFields, RequestControl
  <2>2. CASE ~(a.index = 1 /\ a.method = "POST" /\ c = MethodRest.PUT)
    BY <1>1, <1>2, <1>5, <2>2 DEF Method, Fail, Shaped, ParserFields, Control
  <2> QED
    BY <2>1, <2>2
<1> QED
  BY <1>3, <1>4, <1>5

LEMMA HttpWordMoves ==
  ASSUME NEW x, Shaped(x), NEW c, NEW y, y = HttpWord(x, c)
  PROVE  /\ Moved(x, y) /\ y.req = x.req /\ y.complete = x.complete
         /\ y.errno = "OK" => y.state \in {x.state, "http_HT", "http_major"}
BY DEF HttpWord, Go, Fail, Moved, Shaped, ParserFields, Rest, Control

LEMMA HttpWordControl ==
  ASSUME NEW a, NEW b, Shaped(a), Shaped(b), Alike(a, b), NEW c,
         NEW x, x = HttpWord(a, c), NEW y, y = HttpWord(b, c)
  PROVE  \A f \in Control : x[f] = y[f]
BY DEF HttpWord, Go, Fail, Shaped, ParserFields, Rest, Control, Alike

LEMMA HttpVersionMoves ==
  ASSUME NEW x, Shaped(x), NEW c, NEW y, y = HttpVersion(x, c)
  PROVE  /\ Moved(x, y) /\ y.req = x.req /\ y.complete = x.complete
         /\ y.errno = "OK" => y.state \in {"http_dot", "http_minor", "http_end", "line_almost_done", "field_start"}
BY DEF HttpVersion, Go, Fail, Moved, Shaped, ParserFields, Rest, Control

LEMMA HttpVersionControl ==
  ASSUME NEW a, NEW b, Shaped(a), Shaped(b), Alike(a, b), NEW c,
         NEW x, x = HttpVersion(a, c), NEW y, y = HttpVersion(b, c)
  PROVE  \A f \in Control : x[f] = y[f]
BY DEF HttpVersion, Go, Fail, Shaped, ParserFields, Rest, Control, Alike

LEMMA ChunkSizeMoves ==
  ASSUME NEW x, Shaped(x), NEW c, NEW y, y = ChunkSize(x, c)
  PROVE  /\ Moved(x, y) /\ y.req = x.req /\ y.complete = x.complete
         /\ y.errno = "OK" => y.state \in {x.state, "chunk_size", "chunk_size_almost_done", "chunk_parameters"}
BY DEF ChunkSize, Go, Fail, Moved, Shaped, ParserFields, Rest, Control

LEMMA ChunkSizeControl ==
  ASSUME NEW a, NEW b, Shaped(a), Shaped(b), Alike(a, b), NEW c,
         NEW x, x = ChunkSize(a, c), NEW y, y = ChunkSize(b, c)
  PROVE  \A f \in Control : x[f] = y[f]
<1>1. a.state = b.state /\ a.length = b.length /\ \A f \in Control : a[f] = b[f]
  BY AlikeControl DEF Alike
<1>2. CASE a.state = "chunk_size_start"
  BY <1>1, <1>2 DEF ChunkSize, Go, Fail, Shaped, ParserFields, Rest, Control
<1>3. CASE a.state = "chunk_size" /\ c \in Digits
  <2>1. PICK tooLong : tooLong = ((MaxLength - 16) \div 16 < a.length)
    OBVIOUS
  <2>2. PICK longer : longer = a.length * 16 + Value[c]
    OBVIOUS
  <2>3. a.state # "chunk_size_start" /\ b.state # "chunk_size_start" /\ b.state = "chunk_size"
    BY <1>1, <1>3
  <2>4. ASSUME NEW u, u.state = "chunk_size", u.state # "chunk_size_start", u.length = a.length
        PROVE  ChunkSize(u, c) = IF tooLong THEN Fail(u, "INVALID_CONTENT_LENGTH") ELSE [u EXCEPT !.length = longer]
    <3>1. ChunkSize(u, c) = IF (MaxLength - 16) \div 16 < u.length THEN Fail(u, "INVALID_CONTENT_LENGTH")
                            ELSE [u EXCEPT !.length = @ * 16 + Value[c]]
      <4>1. c # "cr" /\ c \notin {";", " "} /\ u.state # "chunk_parameters"
        BY <1>3, <2>4 DEF Digits
      <4> QED
        BY <1>3, <2>4, <4>1, Zenon DEF ChunkSize
    <3> QED
      BY <2>1, <2>2, <2>4, <3>1
  <2>5. x = IF tooLong THEN Fail(a, "INVALID_CONTENT_LENGTH") ELSE [a EXCEPT !.length = longer]
    BY <1>3, <2>3, <2>4
  <2>6. y = IF tooLong THEN Fail(b, "INVALID_CONTENT_LENGTH") ELSE [b EXCEPT !.length = longer]
    BY <1>1, <2>3, <2>4
  <2> QED
    BY <1>1, <2>5, <2>6 DEF Fail, Shaped, ParserFields, Control
<1>4. CASE a.state # "chunk_size_start" /\ ~(a.state = "chunk_size" /\ c \in Digits)
  BY <1>1, <1>4 DEF ChunkSize, Go, Fail, Shaped, ParserFields, Rest, Control
<1> QED
  BY <1>2, <1>3, <1>4

LEMMA ChunkSizeAlmostDoneMoves ==
  ASSUME NEW x, Shaped(x), NEW c, NEW y, y = ChunkSizeAlmostDone(x, c)
  PROVE  /\ Moved(x, y) /\ y.req = x.req /\ y.complete = x.complete
         /\ y.errno = "OK" => y.state \in {"field_start", "chunk_data"}
BY DEF ChunkSizeAlmostDone, Go, Fail, Raise, Moved, Shaped, ParserFields, Rest, Control

LEMMA ChunkSizeAlmostDoneControl ==
  ASSUME NEW a, NEW b, Shaped(a), Shaped(b), Alike(a, b), NEW c,
         NEW x, x = ChunkSizeAlmostDone(a, c), NEW y, y = ChunkSizeAlmostDone(b, c)
  PROVE  \A f \in Control : x[f] = y[f]
BY DEF ChunkSizeAlmostDone, Go, Fail, Raise, Shaped, ParserFields, Rest, Control, Alike

\* Steps to a state in which nothing is marked and the target is behind.
LEMMA MovedOnIsFine ==
  ASSUME NEW x, NEW y, Going(x), Moved(x, y), x.mark = "none",
         y.complete = x.complete, y.req.upgrade = x.req.upgrade,
         y.errno = "OK" => y.state \in Elsewhere \cup {"chunk_data", "body_identity"}
  PROVE  Fine(x, y)
<1>1. y.errno = "OK" => /\ y.state \in Reading /\ y.state \notin BeforeTarget /\ y.state \notin UrlStates
                        /\ x.mark = MarkOf(y.state)
  BY DEF Elsewhere, Reading, HalfBody, BeforeTarget, UrlStates, MarkOf
<1> QED
  BY <1>1, MovedIsFine

LEMMA MovedOnAgree ==
  ASSUME NEW a, NEW b, NEW x, NEW y, Together(a, b), Moved(a, x), Moved(b, y),
         \A f \in Control : x[f] = y[f],
         \A f \in RequestControl : x.req[f] = y.req[f],
         x.errno = "OK" => x.state \notin UrlStates
  PROVE  Agree(x, y)
<1>1. CASE x.errno = "OK"
  BY <1>1, MovedAgree
<1>2. CASE x.errno # "OK"
  BY <1>2 DEF Agree, Apart
<1> QED
  BY <1>1, <1>2

\* Nothing is marked outside a name, a value, a target or a body.
LEMMA NothingMarked ==
  ASSUME NEW x, Going(x), x.state \in BeforeTarget \cup Elsewhere
  PROVE  x.mark = "none"
BY DEF Going, Placed, BeforeTarget, Elsewhere, MarkOf, UrlStates, HalfBody

LEMMA StartRequestFine ==
  ASSUME NEW x, Going(x), x.state = "start_req", NEW c
  PROVE  Fine(x, StartRequest(x, c))
<1>1. PICK y : y = StartRequest(x, c)
  OBVIOUS
<1>2. /\ Moved(x, y) /\ y.req = x.req /\ y.qs = x.qs /\ y.complete = x.complete
      /\ y.errno = "OK" => y.state \in {"start_req", "req_method"}
  BY <1>1, StartRequestMoves DEF Going
<1>3. x.mark = "none" /\ x.qs = 0
  BY NothingMarked DEF Going, Placed, BeforeTarget
<1>4. y.errno = "OK" => y.state \in Reading /\ y.state \notin UrlStates /\ x.mark = MarkOf(y.state)
  BY <1>2, <1>3 DEF Reading, BeforeTarget, UrlStates, MarkOf
<1> QED
  BY <1>1, <1>2, <1>3, <1>4, MovedIsFine

LEMMA StartRequestAgree ==
  ASSUME NEW a, NEW b, Together(a, b), a.state = "start_req", NEW c
  PROVE  Agree(StartRequest(a, c), StartRequest(b, c))
<1>1. PICK x : x = StartRequest(a, c)
  OBVIOUS
<1>2. PICK y : y = StartRequest(b, c)
  OBVIOUS
<1>0. Shaped(a) /\ Shaped(b) /\ Alike(a, b)
  BY DEF Together, Going, Same
<1>3. Moved(a, x) /\ x.req = a.req /\ (x.errno = "OK" => x.state \in {"start_req", "req_method"})
  BY <1>0, <1>1, StartRequestMoves
<1>4. Moved(b, y) /\ y.req = b.req
  BY <1>0, <1>2, StartRequestMoves
<1>5. \A f \in Control : x[f] = y[f]
  BY <1>0, <1>1, <1>2, StartRequestControl
<1>6. \A f \in RequestControl : x.req[f] = y.req[f]
  BY <1>3, <1>4 DEF Together, Same, Alike
<1>7. x.errno = "OK" => x.state \notin UrlStates
  BY <1>3 DEF UrlStates
<1> QED
  BY <1>1, <1>2, <1>3, <1>4, <1>5, <1>6, <1>7, MovedOnAgree

LEMMA MethodFine ==
  ASSUME NEW x, Going(x), x.state = "req_method", NEW c
  PROVE  Fine(x, Method(x, c))
<1>1. PICK y : y = Method(x, c)
  OBVIOUS
<1>2. /\ Moved(x, y) /\ y.req.upgrade = x.req.upgrade /\ y.qs = x.qs /\ y.complete = x.complete
      /\ y.errno = "OK" => y.state \in {"req_method", "spaces_before_url"}
  BY <1>1, MethodMoves DEF Going
<1>3. x.mark = "none" /\ x.qs = 0
  BY NothingMarked DEF Going, Placed, BeforeTarget
<1>4. y.errno = "OK" => y.state \in Reading /\ y.state \notin UrlStates /\ x.mark = MarkOf(y.state)
  BY <1>2, <1>3 DEF Reading, BeforeTarget, UrlStates, MarkOf
<1> QED
  BY <1>1, <1>2, <1>3, <1>4, MovedIsFine

LEMMA MethodAgree ==
  ASSUME NEW a, NEW b, Together(a, b), a.state = "req_method", NEW c
  PROVE  Agree(Method(a, c), Method(b, c))
<1>1. PICK x : x = Method(a, c)
  OBVIOUS
<1>2. PICK y : y = Method(b, c)
  OBVIOUS
<1>0. Shaped(a) /\ Shaped(b) /\ Alike(a, b)
  BY DEF Together, Going, Same
<1>3. Moved(a, x) /\ (x.errno = "OK" => x.state \in {"req_method", "spaces_before_url"})
  BY <1>0, <1>1, MethodMoves
<1>4. Moved(b, y)
  BY <1>0, <1>2, MethodMoves
<1>5. (\A f \in Control : x[f] = y[f]) /\ (\A f \in RequestControl : x.req[f] = y.req[f])
  BY <1>0, <1>1, <1>2, MethodControl
<1>6. x.errno = "OK" => x.state \notin UrlStates
  BY <1>3 DEF UrlStates
<1> QED
  BY <1>1, <1>2, <1>3, <1>4, <1>5, <1>6, MovedOnAgree

LEMMA HttpWordFine ==
  ASSUME NEW x, Going(x), x.state \in {"http_start", "http_HT"}, NEW c
  PROVE  Fine(x, HttpWord(x, c))
<1>1. PICK y : y = HttpWord(x, c)
  OBVIOUS
<1>2. /\ Moved(x, y) /\ y.req = x.req /\ y.complete = x.complete
      /\ y.errno = "OK" =>
           y.state \in {"http_start", "http_HT", "http_major"}
  BY <1>1, HttpWordMoves DEF Going
<1>3. x.mark = "none"
  BY NothingMarked DEF Elsewhere
<1>4. y.errno = "OK" => y.state \in Elsewhere \cup {"chunk_data", "body_identity"}
  BY <1>2 DEF Elsewhere
<1> QED
  BY <1>1, <1>2, <1>3, <1>4, MovedOnIsFine

LEMMA HttpWordAgree ==
  ASSUME NEW a, NEW b, Together(a, b),
         a.state \in {"http_start", "http_HT"}, NEW c
  PROVE  Agree(HttpWord(a, c), HttpWord(b, c))
<1>1. PICK x : x = HttpWord(a, c)
  OBVIOUS
<1>2. PICK y : y = HttpWord(b, c)
  OBVIOUS
<1>0. Shaped(a) /\ Shaped(b) /\ Alike(a, b)
  BY DEF Together, Going, Same
<1>3. /\ Moved(a, x) /\ x.req = a.req
      /\ x.errno = "OK" =>
           x.state \in {"http_start", "http_HT", "http_major"}
  BY <1>0, <1>1, HttpWordMoves
<1>4. Moved(b, y) /\ y.req = b.req
  BY <1>0, <1>2, HttpWordMoves
<1>5. \A f \in Control : x[f] = y[f]
  BY <1>0, <1>1, <1>2, HttpWordControl
<1>6. \A f \in RequestControl : x.req[f] = y.req[f]
  BY <1>3, <1>4 DEF Together, Same, Alike
<1>7. x.errno = "OK" => x.state \notin UrlStates
  BY <1>3 DEF UrlStates
<1> QED
  BY <1>1, <1>2, <1>3, <1>4, <1>5, <1>6, <1>7, MovedOnAgree

LEMMA HttpVersionFine ==
  ASSUME NEW x, Going(x), x.state \in {"http_major", "http_dot", "http_minor", "http_end"}, NEW c
  PROVE  Fine(x, HttpVersion(x, c))
<1>1. PICK y : y = HttpVersion(x, c)
  OBVIOUS
<1>2. /\ Moved(x, y) /\ y.req = x.req /\ y.complete = x.complete
      /\ y.errno = "OK" =>
           y.state \in {"http_dot", "http_minor", "http_end", "line_almost_done", "field_start"}
  BY <1>1, HttpVersionMoves DEF Going
<1>3. x.mark = "none"
  BY NothingMarked DEF Elsewhere
<1>4. y.errno = "OK" => y.state \in Elsewhere \cup {"chunk_data", "body_identity"}
  BY <1>2 DEF Elsewhere
<1> QED
  BY <1>1, <1>2, <1>3, <1>4, MovedOnIsFine

LEMMA HttpVersionAgree ==
  ASSUME NEW a, NEW b, Together(a, b),
         a.state \in {"http_major", "http_dot", "http_minor", "http_end"}, NEW c
  PROVE  Agree(HttpVersion(a, c), HttpVersion(b, c))
<1>1. PICK x : x = HttpVersion(a, c)
  OBVIOUS
<1>2. PICK y : y = HttpVersion(b, c)
  OBVIOUS
<1>0. Shaped(a) /\ Shaped(b) /\ Alike(a, b)
  BY DEF Together, Going, Same
<1>3. /\ Moved(a, x) /\ x.req = a.req
      /\ x.errno = "OK" =>
           x.state \in {"http_dot", "http_minor", "http_end", "line_almost_done", "field_start"}
  BY <1>0, <1>1, HttpVersionMoves
<1>4. Moved(b, y) /\ y.req = b.req
  BY <1>0, <1>2, HttpVersionMoves
<1>5. \A f \in Control : x[f] = y[f]
  BY <1>0, <1>1, <1>2, HttpVersionControl
<1>6. \A f \in RequestControl : x.req[f] = y.req[f]
  BY <1>3, <1>4 DEF Together, Same, Alike
<1>7. x.errno = "OK" => x.state \notin UrlStates
  BY <1>3 DEF UrlStates
<1> QED
  BY <1>1, <1>2, <1>3, <1>4, <1>5, <1>6, <1>7, MovedOnAgree

LEMMA ChunkSizeFine ==
  ASSUME NEW x, Going(x), x.state \in {"chunk_size_start", "chunk_size", "chunk_parameters"}, NEW c
  PROVE  Fine(x, ChunkSize(x, c))
<1>1. PICK y : y = ChunkSize(x, c)
  OBVIOUS
<1>2. /\ Moved(x, y) /\ y.req = x.req /\ y.complete = x.complete
      /\ y.errno = "OK" =>
           y.state \in {"chunk_size_start", "chunk_size", "chunk_size_almost_done", "chunk_parameters"}
  BY <1>1, ChunkSizeMoves DEF Going
<1>3. x.mark = "none"
  BY NothingMarked DEF Elsewhere
<1>4. y.errno = "OK" => y.state \in Elsewhere \cup {"chunk_data", "body_identity"}
  BY <1>2 DEF Elsewhere
<1> QED
  BY <1>1, <1>2, <1>3, <1>4, MovedOnIsFine

LEMMA ChunkSizeAgree ==
  ASSUME NEW a, NEW b, Together(a, b),
         a.state \in {"chunk_size_start", "chunk_size", "chunk_parameters"}, NEW c
  PROVE  Agree(ChunkSize(a, c), ChunkSize(b, c))
<1>1. PICK x : x = ChunkSize(a, c)
  OBVIOUS
<1>2. PICK y : y = ChunkSize(b, c)
  OBVIOUS
<1>0. Shaped(a) /\ Shaped(b) /\ Alike(a, b)
  BY DEF Together, Going, Same
<1>3. /\ Moved(a, x) /\ x.req = a.req
      /\ x.errno = "OK" =>
           x.state \in {"chunk_size_start", "chunk_size", "chunk_size_almost_done", "chunk_parameters"}
  BY <1>0, <1>1, ChunkSizeMoves
<1>4. Moved(b, y) /\ y.req = b.req
  BY <1>0, <1>2, ChunkSizeMoves
<1>5. \A f \in Control : x[f] = y[f]
  BY <1>0, <1>1, <1>2, ChunkSizeControl
<1>6. \A f \in RequestControl : x.req[f] = y.req[f]
  BY <1>3, <1>4 DEF Together, Same, Alike
<1>7. x.errno = "OK" => x.state \notin UrlStates
  BY <1>3 DEF UrlStates
<1> QED
  BY <1>1, <1>2, <1>3, <1>4, <1>5, <1>6, <1>7, MovedOnAgree

LEMMA ChunkSizeAlmostDoneFine ==
  ASSUME NEW x, Going(x), x.state \in {"chunk_size_almost_done"}, NEW c
  PROVE  Fine(x, ChunkSizeAlmostDone(x, c))
<1>1. PICK y : y = ChunkSizeAlmostDone(x, c)
  OBVIOUS
<1>2. /\ Moved(x, y) /\ y.req = x.req /\ y.complete = x.complete
      /\ y.errno = "OK" =>
           y.state \in {"field_start", "chunk_data"}
  BY <1>1, ChunkSizeAlmostDoneMoves DEF Going
<1>3. x.mark = "none"
  BY NothingMarked DEF Elsewhere
<1>4. y.errno = "OK" => y.state \in Elsewhere \cup {"chunk_data", "body_identity"}
  BY <1>2 DEF Elsewhere
<1> QED
  BY <1>1, <1>2, <1>3, <1>4, MovedOnIsFine

LEMMA ChunkSizeAlmostDoneAgree ==
  ASSUME NEW a, NEW b, Together(a, b),
         a.state \in {"chunk_size_almost_done"}, NEW c
  PROVE  Agree(ChunkSizeAlmostDone(a, c), ChunkSizeAlmostDone(b, c))
<1>1. PICK x : x = ChunkSizeAlmostDone(a, c)
  OBVIOUS
<1>2. PICK y : y = ChunkSizeAlmostDone(b, c)
  OBVIOUS
<1>0. Shaped(a) /\ Shaped(b) /\ Alike(a, b)
  BY DEF Together, Going, Same
<1>3. /\ Moved(a, x) /\ x.req = a.req
      /\ x.errno = "OK" =>
           x.state \in {"field_start", "chunk_data"}
  BY <1>0, <1>1, ChunkSizeAlmostDoneMoves
<1>4. Moved(b, y) /\ y.req = b.req
  BY <1>0, <1>2, ChunkSizeAlmostDoneMoves
<1>5. \A f \in Control : x[f] = y[f]
  BY <1>0, <1>1, <1>2, ChunkSizeAlmostDoneControl
<1>6. \A f \in RequestControl : x.req[f] = y.req[f]
  BY <1>3, <1>4 DEF Together, Same, Alike
<1>7. x.errno = "OK" => x.state \notin UrlStates
  BY <1>3 DEF UrlStates
<1> QED
  BY <1>1, <1>2, <1>3, <1>4, <1>5, <1>6, <1>7, MovedOnAgree

-----------------------------------------------------------------------------
(* Steps are put together. *)

LEMMA FineGoing ==
  ASSUME NEW x, NEW y, Going(x), Fine(x, y), y.errno = "OK", y.state \in Reading, y.state # "start_req"
  PROVE  Going(y)
<1>1. "headers_done" \notin Reading
  BY DEF Reading, BeforeTarget, UrlStates, HalfBody, Elsewhere
<1> QED
  BY <1>1 DEF Going, Fine, Sound, Placed

LEMMA FineTwice ==
  ASSUME NEW x, NEW y, NEW z, Fine(x, y), Fine(y, z)
  PROVE  Fine(x, z)
BY DEF Fine

LEMMA GoMoves ==
  ASSUME NEW x, Shaped(x), NEW s, NEW y, y = Go(x, s)
  PROVE  /\ Moved(x, y) /\ y.state = s
         /\ \A f \in ParserFields \ {"state"} : y[f] = x[f]
         /\ y.req = x.req /\ y.complete = x.complete /\ y.mark = x.mark /\ y.errno = x.errno /\ y.next = x.next
         /\ y.cut = x.cut
BY DEF Go, Moved, Shaped, ParserFields, Rest, Control

LEMMA GoControl ==
  ASSUME NEW a, NEW b, Shaped(a), Shaped(b), Alike(a, b), NEW s
  PROVE  \A f \in Control : Go(a, s)[f] = Go(b, s)[f]
BY DEF Go, Shaped, ParserFields, Control, Alike

LEMMA FailMoves ==
  ASSUME NEW x, Shaped(x), NEW e, NEW y, y = Fail(x, e)
  PROVE  Moved(x, y) /\ y.errno = e /\ y.req = x.req /\ \A f \in ParserFields \ {"errno"} : y[f] = x[f]
BY DEF Fail, Moved, Shaped, ParserFields, Rest, Control

\* An error ends everything.
LEMMA FailFine ==
  ASSUME NEW x, Going(x), NEW e, e # "OK"
  PROVE  Fine(x, Fail(x, e))
<1>1. PICK y : y = Fail(x, e)
  OBVIOUS
<1>2. Moved(x, y) /\ y.errno = e
  BY <1>1, FailMoves DEF Going
<1> QED
  BY <1>1, <1>2, MovedIsFine

LEMMA FailAgree ==
  ASSUME NEW a, Shaped(a), NEW e, e # "OK", NEW y
  PROVE  Agree(Fail(a, e), y)
<1>1. PICK x : x = Fail(a, e)
  OBVIOUS
<1>2. x.errno = e
  BY <1>1, FailMoves
<1> QED
  BY <1>1, <1>2 DEF Agree, Apart

\* The machine goes to a state in which nothing is marked.
LEMMA GoFine ==
  ASSUME NEW x, Going(x), x.mark = "none", NEW s \in Elsewhere \cup {"chunk_data", "body_identity"},
         NEW y, y = Go(x, s)
  PROVE  Fine(x, y) /\ Going(y) /\ y.mark = "none" /\ y.state = s /\ y.next = x.next
<1>1. /\ Moved(x, y) /\ y.state = s /\ y.req = x.req /\ y.complete = x.complete /\ y.errno = x.errno
      /\ y.mark = x.mark /\ y.next = x.next
  BY GoMoves DEF Going
<1>2. Fine(x, y)
  BY <1>1, MovedOnIsFine
<1>3. y.state \in Reading /\ y.state # "start_req" /\ y.errno = "OK"
  BY <1>1 DEF Going, Elsewhere, Reading, HalfBody
<1> QED
  BY <1>1, <1>2, <1>3, FineGoing

LEMMA GoTogether ==
  ASSUME NEW a, NEW b, Together(a, b), a.mark = "none", b.mark = "none",
         NEW s \in Elsewhere \cup {"chunk_data", "body_identity"},
         NEW x, x = Go(a, s), NEW y, y = Go(b, s)
  PROVE  Together(x, y)
<1>1. Going(a) /\ Going(b) /\ Shaped(a) /\ Shaped(b) /\ Alike(a, b)
  BY DEF Together, Going, Same
<1>2. Going(x) /\ x.state = s /\ x.next = a.next
  BY <1>1, GoFine
<1>3. Going(y) /\ y.state = s /\ y.next = b.next
  BY <1>1, GoFine
<1>4. \A f \in Control : x[f] = y[f]
  BY <1>1, GoControl
<1>5. Moved(a, x) /\ x.req = a.req
  BY <1>1, GoMoves
<1>6. Moved(b, y) /\ y.req = b.req
  BY <1>1, GoMoves
<1>7. \A f \in RequestControl : x.req[f] = y.req[f]
  BY <1>1, <1>5, <1>6 DEF Alike
<1>8. Alike(x, y)
  BY <1>1, <1>4, <1>5, <1>6, <1>7, AlikeMoved
<1>9. x.state \notin UrlStates
  BY <1>2 DEF Elsewhere, UrlStates
<1> QED
  BY <1>2, <1>3, <1>8, <1>9 DEF Together, Same, Query

\* The machine goes on and what is marked is handed on.
LEMMA HandedOn ==
  ASSUME NEW x, Going(x), x.mark \in {"none", "field", "value", "body"}, NEW s \in Elsewhere,
         NEW y, y = Flush(Go(x, s))
  PROVE  Fine(x, y) /\ Going(y) /\ y.mark = "none" /\ y.state = s /\ y.next = x.next
<1>1. PICK z : z = Go(x, s)
  OBVIOUS
<1>2. /\ Moved(x, z) /\ z.state = s /\ z.req = x.req /\ z.complete = x.complete /\ z.errno = x.errno
      /\ z.mark = x.mark /\ z.next = x.next
  BY <1>1, GoMoves DEF Going
<1>3. Kept(x, z)
  BY <1>2, MovedKeeps DEF Going
<1>4. /\ Kept(z, y) /\ y.mark = "none"
      /\ \A f \in Control \cup {"next", "qs", "start", "cut"} : y[f] = z[f]
      /\ \A f \in RequestControl \cup {"whole"} : y.req[f] = z.req[f]
  BY <1>1, <1>2, <1>3, FlushKeeps DEF Kept
<1>5. /\ y.state = s /\ y.complete = x.complete /\ y.errno = x.errno /\ y.req.upgrade = x.req.upgrade
      /\ y.next = x.next
  BY <1>2, <1>4 DEF Control, RequestControl
<1>6. s \in Reading /\ s \notin BeforeTarget /\ s \notin UrlStates /\ MarkOf(s) = "none"
  BY DEF Elsewhere, Reading, HalfBody, BeforeTarget, UrlStates, MarkOf
<1>7. Shaped(y) /\ (x.cut => y.cut) /\ y.rest = x.rest /\ y.p = x.p /\ y.left = x.left
  BY <1>3, <1>4 DEF Kept
<1>8. Placed(y)
  BY <1>4, <1>5, <1>6, <1>7 DEF Placed, Going
<1>9. Fine(x, y)
  BY <1>7, <1>8 DEF Fine, Sound
<1> QED
  BY <1>4, <1>5, <1>6, <1>7, <1>8, <1>9 DEF Going

LEMMA HandedOnTogether ==
  ASSUME NEW a, NEW b, Together(a, b),
         a.mark \in {"none", "field", "value", "body"}, b.mark \in {"none", "field", "value", "body"},
         NEW s \in Elsewhere, NEW x, x = Flush(Go(a, s)), NEW y, y = Flush(Go(b, s))
  PROVE  Together(x, y)
<1>1. Going(a) /\ Going(b) /\ Shaped(a) /\ Shaped(b) /\ Alike(a, b)
  BY DEF Together, Going, Same
<1>2. Going(x) /\ x.state = s /\ x.next = a.next
  BY <1>1, HandedOn
<1>3. Going(y) /\ y.state = s /\ y.next = b.next
  BY <1>1, HandedOn
<1>4. PICK v : v = Go(a, s)
  OBVIOUS
<1>5. PICK w : w = Go(b, s)
  OBVIOUS
<1>6. Moved(a, v) /\ v.req = a.req /\ v.mark = a.mark
  BY <1>1, <1>4, GoMoves
<1>7. Moved(b, w) /\ w.req = b.req /\ w.mark = b.mark
  BY <1>1, <1>5, GoMoves
<1>8. \A f \in Control : v[f] = w[f]
  BY <1>1, <1>4, <1>5, GoControl
<1>9. \A f \in RequestControl : v.req[f] = w.req[f]
  BY <1>1, <1>6, <1>7 DEF Alike
<1>10. Alike(v, w)
  BY <1>1, <1>6, <1>7, <1>8, <1>9, AlikeMoved
<1>11. Shaped(v)
  BY <1>1, <1>6, MovedKeeps DEF Kept
<1>12. Shaped(w)
  BY <1>1, <1>7, MovedKeeps DEF Kept
<1>13. Alike(x, y)
  BY <1>4, <1>5, <1>6, <1>7, <1>10, <1>11, <1>12, FlushAlike
<1>14. x.state \notin UrlStates
  BY <1>2 DEF Elsewhere, UrlStates
<1> QED
  BY <1>2, <1>3, <1>13, <1>14 DEF Together, Same, Query

\* A symbol is taken after a step that only moves the machine.
LEMMA MovedAndTaken ==
  ASSUME NEW x, NEW z, Going(x), Moved(x, z), NEW kind \in {"url", "field", "value", "body"}, NEW c,
         z.errno = "OK" =>
           /\ z.state \in Reading /\ z.complete = x.complete /\ z.req.upgrade = x.req.upgrade
           /\ kind = MarkOf(z.state) \/ (z.state \in HalfBody /\ kind = "body")
           /\ z.state \notin BeforeTarget
           /\ z.state \in UrlStates /\ z.req.whole => z.start # 0,
         NEW y, y = Take(z, kind, c)
  PROVE  Fine(x, y) /\ \A f \in ParserFields \ {"mark", "text"} : y[f] = z[f]
<1>1. Kept(x, z)
  BY MovedKeeps DEF Going
<1>2. /\ Shaped(y) /\ y.mark = kind /\ \A f \in ParserFields \ {"mark", "text"} : y[f] = z[f]
  BY <1>1, TakeKeeps DEF Kept
<1>3. /\ y.state = z.state /\ y.complete = z.complete /\ y.req = z.req /\ y.errno = z.errno /\ y.start = z.start
      /\ y.cut = z.cut /\ y.rest = z.rest /\ y.p = z.p /\ y.left = z.left
  BY <1>2 DEF ParserFields, Rest, Control
<1>4. y.errno = "OK" => Placed(y)
  <2>1. y.left = x.left
    BY <1>1, <1>3 DEF Kept
  <2> QED
    BY <1>2, <1>3, <2>1 DEF Placed, Going
<1> QED
  BY <1>1, <1>2, <1>3, <1>4 DEF Fine, Sound, Kept

LEMMA TakenAgree ==
  ASSUME NEW a, NEW b, NEW v, NEW w, Together(a, b), Moved(a, v), Moved(b, w), NEW c,
         \A f \in Control : v[f] = w[f],
         \A f \in RequestControl : v.req[f] = w.req[f],
         NEW kind \in {"url", "field", "value", "body"},
         \/ a.mark = kind /\ b.mark = kind
         \/ a.mark = "none" /\ b.mark = "none"
         \/ kind = "body" /\ a.mark \in {"none", "body"} /\ b.mark \in {"none", "body"},
         v.errno = "OK" => Query(v, w),
         NEW x, x = Take(v, kind, c), NEW y, y = Take(w, kind, c)
  PROVE  Agree(x, y) /\ (v.errno = "OK" => Same(x, y))
<1>1. Shaped(a) /\ Shaped(b) /\ Alike(a, b)
  BY DEF Together, Going, Same
<1>2. Shaped(v) /\ v.mark = a.mark
  BY <1>1, MovedKeeps DEF Kept
<1>3. Shaped(w) /\ w.mark = b.mark
  BY <1>1, MovedKeeps DEF Kept
<1>4. Alike(v, w)
  BY <1>1, AlikeMoved
<1>5. Alike(x, y)
  BY <1>2, <1>3, <1>4, TakeAlike
<1>6. \A f \in ParserFields \ {"mark", "text"} : x[f] = v[f]
  BY <1>2, TakeKeeps
<1>7. \A f \in ParserFields \ {"mark", "text"} : y[f] = w[f]
  BY <1>3, TakeKeeps
<1>8. CASE v.errno = "OK"
  <2>1. Query(x, y)
    BY <1>6, <1>7, <1>8 DEF Query, ParserFields, Rest, Control
  <2> QED
    BY <1>5, <2>1 DEF Agree, Same
<1>9. CASE v.errno # "OK"
  <2>1. x.errno # "OK"
    BY <1>6, <1>9 DEF ParserFields, Control
  <2> QED
    BY <1>9, <2>1 DEF Agree, Apart
<1> QED
  BY <1>8, <1>9

LEMMA TogetherAgree ==
  ASSUME NEW a, NEW b, Together(a, b)
  PROVE  Agree(a, b)
BY DEF Together, Agree

LEMMA AlmostDoneFine ==
  ASSUME NEW x, Going(x), x.mark = "none", NEW s \in Elsewhere, NEW c, NEW e, e # "OK"
  PROVE  Fine(x, IF c = "lf" THEN Go(x, s) ELSE Fail(x, e))
<1>1. Fine(x, Go(x, s))
  BY GoFine
<1>2. Fine(x, Fail(x, e))
  BY FailFine
<1> QED
  BY <1>1, <1>2

LEMMA AlmostDoneAgree ==
  ASSUME NEW a, NEW b, Together(a, b), a.mark = "none", b.mark = "none", NEW s \in Elsewhere, NEW c, NEW e, e # "OK"
  PROVE  Agree(IF c = "lf" THEN Go(a, s) ELSE Fail(a, e), IF c = "lf" THEN Go(b, s) ELSE Fail(b, e))
<1>1. Agree(Go(a, s), Go(b, s))
  BY GoTogether, TogetherAgree
<1>2. Agree(Fail(a, e), Fail(b, e))
  BY FailAgree DEF Together, Going
<1> QED
  BY <1>1, <1>2

\* Where both are, nothing is marked for one if nothing is for the other.
LEMMA TogetherUnmarked ==
  ASSUME NEW a, NEW b, Together(a, b), a.state \in BeforeTarget \cup Elsewhere
  PROVE  a.mark = "none" /\ b.mark = "none" /\ b.state = a.state
<1>1. Going(a) /\ Going(b) /\ b.state = a.state
  BY DEF Together, Same, Alike, Control
<1> QED
  BY <1>1, NothingMarked

LEMMA LineAlmostDoneFine ==
  ASSUME NEW x, Going(x), x.state = "line_almost_done", NEW c
  PROVE  Fine(x, LineAlmostDone(x, c))
<1>1. x.mark = "none" /\ "field_start" \in Elsewhere
  BY NothingMarked DEF Elsewhere
<1> QED
  BY <1>1, AlmostDoneFine DEF LineAlmostDone

LEMMA LineAlmostDoneAgree ==
  ASSUME NEW a, NEW b, Together(a, b), a.state = "line_almost_done", NEW c
  PROVE  Agree(LineAlmostDone(a, c), LineAlmostDone(b, c))
<1>1. a.mark = "none" /\ b.mark = "none" /\ "field_start" \in Elsewhere
  BY TogetherUnmarked DEF Elsewhere
<1> QED
  BY <1>1, AlmostDoneAgree DEF LineAlmostDone

LEMMA HeaderAlmostDoneFine ==
  ASSUME NEW x, Going(x), x.state = "header_almost_done", NEW c
  PROVE  Fine(x, HeaderAlmostDone(x, c))
<1>1. x.mark = "none" /\ "value_lws" \in Elsewhere
  BY NothingMarked DEF Elsewhere
<1> QED
  BY <1>1, AlmostDoneFine DEF HeaderAlmostDone

LEMMA HeaderAlmostDoneAgree ==
  ASSUME NEW a, NEW b, Together(a, b), a.state = "header_almost_done", NEW c
  PROVE  Agree(HeaderAlmostDone(a, c), HeaderAlmostDone(b, c))
<1>1. a.mark = "none" /\ b.mark = "none" /\ "value_lws" \in Elsewhere
  BY TogetherUnmarked DEF Elsewhere
<1> QED
  BY <1>1, AlmostDoneAgree DEF HeaderAlmostDone

-----------------------------------------------------------------------------
(* Bodies. *)

\* A message is complete, and the connection was not given away.
LEMMA MessageFine ==
  ASSUME NEW x, Shaped(x), x.mark = "none", ~GivenAway(x.req), NEW y, y = OnMessageComplete(x)
  PROVE  /\ Sound(y) /\ y.state = "start_req" /\ y.mark = "none"
         /\ \A f \in {"left", "rest", "p", "next", "cut", "errno", "upgrade"} : y[f] = x[f]
<1>1. /\ Shaped(y) /\ y.state = "start_req" /\ y.complete = FALSE /\ y.req = NoRequest /\ y.qs = 0
      /\ \A f \in (Control \ {"state", "complete"}) \cup {"mark", "left", "rest", "p", "next", "cut"} : y[f] = x[f]
  BY MessageComplete
<1>2. NoRequest.upgrade = FALSE
  BY DEF NoRequest
<1>3. "start_req" \in Reading /\ "start_req" \notin UrlStates /\ MarkOf("start_req") = "none"
  BY DEF Reading, BeforeTarget, UrlStates, MarkOf
<1>4. y.mark = "none"
  BY <1>1
<1>5. Sound(y)
  BY <1>1, <1>2, <1>3, <1>4 DEF Sound, Placed
<1> QED
  BY <1>1, <1>4, <1>5 DEF Control

\* The next symbol of a body.
Counted(x, c) == Take([x EXCEPT !.length = @ - 1], "body", c)

LEMMA CountedFine ==
  ASSUME NEW x, Going(x), x.state \in HalfBody, NEW c, NEW y, y = Counted(x, c)
  PROVE  /\ Fine(x, y) /\ Going(y) /\ y.mark = "body" /\ y.state = x.state /\ y.next = x.next
         /\ y.req.upgrade = x.req.upgrade /\ y.complete = x.complete
<1>1. PICK z : z = [x EXCEPT !.length = @ - 1]
  OBVIOUS
<1>2. /\ Moved(x, z) /\ z.state = x.state /\ z.complete = x.complete /\ z.req = x.req /\ z.errno = x.errno
      /\ z.next = x.next
  BY <1>1 DEF Going, Moved, Shaped, ParserFields, Rest, Control
<1>3. z.state \in Reading /\ z.state \notin BeforeTarget /\ z.state \notin UrlStates /\ z.errno = "OK"
  BY <1>2 DEF HalfBody, Reading, BeforeTarget, UrlStates, Going
<1>4. y = Take(z, "body", c)
  BY <1>1 DEF Counted
<1>5. Fine(x, y) /\ \A f \in ParserFields \ {"mark", "text"} : y[f] = z[f]
  BY <1>2, <1>3, <1>4, MovedAndTaken
<1>6. y.state = x.state /\ y.errno = "OK" /\ y.req = x.req /\ y.complete = x.complete /\ y.next = x.next
  BY <1>2, <1>3, <1>5 DEF ParserFields, Rest, Control
<1>7. y.mark = "body"
  <2>1. Shaped(z)
    BY <1>2, MovedKeeps DEF Going, Kept
  <2> QED
    BY <1>4, <2>1, TakeKeeps
<1>8. y.state \in Reading /\ y.state # "start_req"
  BY <1>2, <1>3, <1>6 DEF BeforeTarget
<1> QED
  BY <1>5, <1>6, <1>7, <1>8, FineGoing

LEMMA CountedTogether ==
  ASSUME NEW a, NEW b, Together(a, b), a.state \in HalfBody, NEW c,
         NEW x, x = Counted(a, c), NEW y, y = Counted(b, c)
  PROVE  Together(x, y) /\ x.length = y.length /\ y.state = a.state
<1>1. Going(a) /\ Going(b) /\ Shaped(a) /\ Shaped(b) /\ Alike(a, b) /\ b.state = a.state
  BY DEF Together, Going, Same, Alike, Control
<1>2. PICK v : v = [a EXCEPT !.length = @ - 1]
  OBVIOUS
<1>3. PICK w : w = [b EXCEPT !.length = @ - 1]
  OBVIOUS
<1>4. Moved(a, v) /\ v.req = a.req /\ v.state = a.state /\ v.errno = a.errno
  BY <1>1, <1>2 DEF Moved, Shaped, ParserFields, Rest, Control
<1>5. Moved(b, w) /\ w.req = b.req
  BY <1>1, <1>3 DEF Moved, Shaped, ParserFields, Rest, Control
<1>6. \A f \in Control : v[f] = w[f]
  BY <1>1, <1>2, <1>3 DEF Alike, Shaped, ParserFields, Control
<1>7. \A f \in RequestControl : v.req[f] = w.req[f]
  BY <1>1, <1>4, <1>5 DEF Alike
<1>8. a.mark \in {"none", "body"} /\ b.mark \in {"none", "body"}
  BY <1>1 DEF Going, Placed, HalfBody, MarkOf, UrlStates
<1>9. v.errno = "OK" /\ Query(v, w)
  BY <1>1, <1>4 DEF Going, Query, HalfBody, UrlStates
<1>10. x = Take(v, "body", c) /\ y = Take(w, "body", c)
  BY <1>2, <1>3 DEF Counted
<1>11. Same(x, y)
  BY <1>4, <1>5, <1>6, <1>7, <1>8, <1>9, <1>10, TakenAgree
<1>12. Going(x) /\ x.next = a.next
  BY <1>1, CountedFine
<1>13. Going(y) /\ y.next = b.next /\ y.state = b.state
  BY <1>1, CountedFine
<1>14. x.length = y.length
  BY <1>11, AlikeControl DEF Same
<1> QED
  BY <1>1, <1>11, <1>12, <1>13, <1>14 DEF Together

LEMMA ChunkDataFine ==
  ASSUME NEW x, Going(x), x.state = "chunk_data", NEW c
  PROVE  Fine(x, ChunkData(x, c))
<1>1. PICK y : y = Counted(x, c)
  OBVIOUS
<1>2. Fine(x, y) /\ Going(y) /\ y.mark = "body"
  BY <1>1, CountedFine DEF HalfBody
<1>3. PICK z : z = Go(y, "chunk_data_almost_done")
  OBVIOUS
<1>4. Moved(y, z) /\ z.state = "chunk_data_almost_done" /\ z.req = y.req /\ z.complete = y.complete
  BY <1>2, <1>3, GoMoves DEF Going
<1>5. /\ "chunk_data_almost_done" \in Reading /\ "chunk_data_almost_done" \in HalfBody
      /\ "chunk_data_almost_done" \notin BeforeTarget /\ "chunk_data_almost_done" \notin UrlStates
  BY DEF Reading, HalfBody, BeforeTarget, UrlStates
<1>6. Fine(y, z)
  BY <1>2, <1>4, <1>5, MovedIsFine
<1>7. Fine(x, z)
  BY <1>2, <1>6, FineTwice
<1>8. ChunkData(x, c) = IF y.length = 0 THEN z ELSE y
  BY <1>1, <1>3 DEF ChunkData, Counted
<1> QED
  BY <1>2, <1>7, <1>8

LEMMA ChunkDataAgree ==
  ASSUME NEW a, NEW b, Together(a, b), a.state = "chunk_data", NEW c
  PROVE  Agree(ChunkData(a, c), ChunkData(b, c))
<1>1. PICK x : x = Counted(a, c)
  OBVIOUS
<1>2. PICK y : y = Counted(b, c)
  OBVIOUS
<1>3. Together(x, y) /\ x.length = y.length
  BY <1>1, <1>2, CountedTogether DEF HalfBody
<1>4. Shaped(x) /\ Shaped(y) /\ Alike(x, y)
  BY <1>3 DEF Together, Going, Same
<1>5. PICK v : v = Go(x, "chunk_data_almost_done")
  OBVIOUS
<1>6. PICK w : w = Go(y, "chunk_data_almost_done")
  OBVIOUS
<1>7. Moved(x, v) /\ v.req = x.req /\ v.state = "chunk_data_almost_done"
  BY <1>4, <1>5, GoMoves
<1>8. Moved(y, w) /\ w.req = y.req
  BY <1>4, <1>6, GoMoves
<1>9. (\A f \in Control : v[f] = w[f]) /\ (\A f \in RequestControl : v.req[f] = w.req[f])
  BY <1>4, <1>5, <1>6, <1>7, <1>8, GoControl DEF Alike
<1>10. Agree(v, w)
  BY <1>3, <1>7, <1>8, <1>9, MovedOnAgree DEF UrlStates
<1>11. ChunkData(a, c) = IF x.length = 0 THEN v ELSE x
  BY <1>1, <1>5 DEF ChunkData, Counted
<1>12. ChunkData(b, c) = IF y.length = 0 THEN w ELSE y
  BY <1>2, <1>6 DEF ChunkData, Counted
<1> QED
  BY <1>3, <1>10, <1>11, <1>12, TogetherAgree

LEMMA BodyIdentityFine ==
  ASSUME NEW x, Going(x), x.state = "body_identity", NEW c
  PROVE  Fine(x, BodyIdentity(x, c))
<1>1. PICK y : y = Counted(x, c)
  OBVIOUS
<1>2. /\ Fine(x, y) /\ Going(y) /\ y.mark = "body" /\ y.req.upgrade = x.req.upgrade
  BY <1>1, CountedFine DEF HalfBody
<1>3. PICK z : z = Go(y, "message_done")
  OBVIOUS
<1>4. Moved(y, z) /\ z.req = y.req /\ z.mark = "body" /\ z.errno = "OK"
  BY <1>2, <1>3, GoMoves DEF Going
<1>5. Kept(y, z)
  BY <1>2, <1>4, MovedKeeps DEF Going
<1>6. PICK w : w = Flush(z)
  OBVIOUS
<1>7. /\ Kept(z, w) /\ w.mark = "none" /\ w.errno = "OK" /\ w.req.upgrade = x.req.upgrade
  BY <1>2, <1>4, <1>5, <1>6, FlushKeeps DEF Kept, Control, RequestControl
<1>8. ~GivenAway(w.req)
  BY <1>7 DEF GivenAway, Going, Placed
<1>9. PICK m : m = OnMessageComplete(w)
  OBVIOUS
<1>10. Sound(m) /\ m.rest = w.rest /\ m.p = w.p /\ m.cut = w.cut
  BY <1>7, <1>8, <1>9, MessageFine DEF Kept
<1>11. Fine(x, m)
  BY <1>2, <1>5, <1>7, <1>10 DEF Fine, Kept
<1>12. BodyIdentity(x, c) = IF y.length = 0 THEN m ELSE y
  BY <1>1, <1>3, <1>6, <1>9 DEF BodyIdentity, Counted
<1> QED
  BY <1>2, <1>11, <1>12

LEMMA BodyIdentityAgree ==
  ASSUME NEW a, NEW b, Together(a, b), a.state = "body_identity", NEW c
  PROVE  Agree(BodyIdentity(a, c), BodyIdentity(b, c))
<1>1. PICK x : x = Counted(a, c)
  OBVIOUS
<1>2. PICK y : y = Counted(b, c)
  OBVIOUS
<1>3. Together(x, y) /\ x.length = y.length /\ x.mark = "body" /\ y.mark = "body"
  <2>1. Going(a) /\ Going(b) /\ b.state = a.state
    BY DEF Together, Same, Alike, Control
  <2>2. x.mark = "body"
    BY <1>1, <2>1, CountedFine DEF HalfBody
  <2>3. y.mark = "body"
    BY <1>2, <2>1, CountedFine DEF HalfBody
  <2> QED
    BY <1>1, <1>2, <2>2, <2>3, CountedTogether DEF HalfBody
<1>4. Shaped(x) /\ Shaped(y) /\ Alike(x, y) /\ ~x.req.upgrade
  BY <1>3 DEF Together, Going, Same, Placed
<1>5. PICK v : v = Go(x, "message_done")
  OBVIOUS
<1>6. PICK w : w = Go(y, "message_done")
  OBVIOUS
<1>7. Moved(x, v) /\ v.req = x.req /\ v.mark = x.mark
  BY <1>4, <1>5, GoMoves
<1>8. Moved(y, w) /\ w.req = y.req /\ w.mark = y.mark
  BY <1>4, <1>6, GoMoves
<1>9. (\A f \in Control : v[f] = w[f]) /\ (\A f \in RequestControl : v.req[f] = w.req[f])
  BY <1>4, <1>5, <1>6, <1>7, <1>8, GoControl DEF Alike
<1>10. Alike(v, w)
  BY <1>4, <1>7, <1>8, <1>9, AlikeMoved
<1>11. Shaped(v)
  BY <1>4, <1>7, MovedKeeps DEF Kept
<1>12. Shaped(w)
  BY <1>4, <1>8, MovedKeeps DEF Kept
<1>13. PICK i : i = Flush(v)
  OBVIOUS
<1>14. PICK j : j = Flush(w)
  OBVIOUS
<1>15. Alike(i, j)
  BY <1>3, <1>7, <1>8, <1>10, <1>11, <1>12, <1>13, <1>14, FlushAlike
<1>16. Shaped(i) /\ i.mark = "none" /\ i.req.upgrade = v.req.upgrade
  BY <1>3, <1>7, <1>11, <1>13, FlushKeeps DEF Kept, RequestControl
<1>17. Shaped(j) /\ j.mark = "none"
  BY <1>3, <1>8, <1>12, <1>14, FlushKeeps DEF Kept
<1>18. ~GivenAway(i.req)
  BY <1>4, <1>7, <1>16 DEF GivenAway
<1>19. PICK m : m = OnMessageComplete(i)
  OBVIOUS
<1>20. PICK n : n = OnMessageComplete(j)
  OBVIOUS
<1>21. Alike(m, n)
  BY <1>15, <1>16, <1>17, <1>19, <1>20, MessageAlike
<1>22. m.state = "start_req"
  BY <1>16, <1>18, <1>19, MessageFine
<1>23. Agree(m, n)
  BY <1>21, <1>22 DEF Agree, Same, Query, UrlStates
<1>24. BodyIdentity(a, c) = IF x.length = 0 THEN m ELSE x
  BY <1>1, <1>5, <1>13, <1>19 DEF BodyIdentity, Counted
<1>25. BodyIdentity(b, c) = IF y.length = 0 THEN n ELSE y
  BY <1>2, <1>6, <1>14, <1>20 DEF BodyIdentity, Counted
<1> QED
  BY <1>3, <1>23, <1>24, <1>25, TogetherAgree

LEMMA ChunkDataDoneFine ==
  ASSUME NEW x, Going(x), x.state \in {"chunk_data_almost_done", "chunk_data_done"}, NEW c
  PROVE  Fine(x, ChunkDataDone(x, c))
<1>1. CASE x.state = "chunk_data_almost_done" /\ c = "cr"
  <2>1. x.mark \in {"none", "field", "value", "body"} /\ "chunk_data_done" \in Elsewhere
    BY <1>1 DEF Going, Placed, MarkOf, UrlStates, Elsewhere
  <2>2. Fine(x, Flush(Go(x, "chunk_data_done")))
    BY <2>1, HandedOn
  <2> QED
    BY <1>1, <2>2 DEF ChunkDataDone
<1>2. CASE x.state = "chunk_data_done" /\ c = "lf"
  <2>1. PICK y : y = [Go(x, "chunk_size_start") EXCEPT !.nread = 0]
    OBVIOUS
  <2>2. Moved(x, y) /\ y.state = "chunk_size_start" /\ y.complete = x.complete /\ y.req = x.req
    BY <2>1 DEF Going, Go, Moved, Shaped, ParserFields, Rest, Control
  <2>3. x.mark = "none" /\ "chunk_size_start" \in Elsewhere
    BY <1>2, NothingMarked DEF Elsewhere
  <2>4. Fine(x, y)
    BY <2>2, <2>3, MovedOnIsFine
  <2> QED
    BY <1>2, <2>1, <2>4 DEF ChunkDataDone
<1>3. CASE ~(x.state = "chunk_data_almost_done" /\ c = "cr") /\ ~(x.state = "chunk_data_done" /\ c = "lf")
  BY <1>3, FailFine DEF ChunkDataDone
<1> QED
  BY <1>1, <1>2, <1>3

LEMMA ChunkDataDoneAgree ==
  ASSUME NEW a, NEW b, Together(a, b), a.state \in {"chunk_data_almost_done", "chunk_data_done"}, NEW c
  PROVE  Agree(ChunkDataDone(a, c), ChunkDataDone(b, c))
<1>1. Going(a) /\ Going(b) /\ Shaped(a) /\ Shaped(b) /\ Alike(a, b) /\ b.state = a.state
  BY DEF Together, Going, Same, Alike, Control
<1>2. CASE a.state = "chunk_data_almost_done" /\ c = "cr"
  <2>1. /\ a.mark \in {"none", "field", "value", "body"} /\ b.mark \in {"none", "field", "value", "body"}
        /\ "chunk_data_done" \in Elsewhere
    BY <1>1, <1>2 DEF Going, Placed, MarkOf, UrlStates, Elsewhere
  <2>2. Agree(Flush(Go(a, "chunk_data_done")), Flush(Go(b, "chunk_data_done")))
    BY <2>1, HandedOnTogether, TogetherAgree
  <2>3. ChunkDataDone(a, c) = Flush(Go(a, "chunk_data_done"))
    BY <1>2 DEF ChunkDataDone
  <2>4. ChunkDataDone(b, c) = Flush(Go(b, "chunk_data_done"))
    BY <1>1, <1>2 DEF ChunkDataDone
  <2> QED
    BY <2>2, <2>3, <2>4
<1>3. CASE a.state = "chunk_data_done" /\ c = "lf"
  <2>1. PICK x : x = [Go(a, "chunk_size_start") EXCEPT !.nread = 0]
    OBVIOUS
  <2>2. PICK y : y = [Go(b, "chunk_size_start") EXCEPT !.nread = 0]
    OBVIOUS
  <2>3. Moved(a, x) /\ x.state = "chunk_size_start" /\ x.req = a.req
    BY <1>1, <2>1 DEF Go, Moved, Shaped, ParserFields, Rest, Control
  <2>4. Moved(b, y) /\ y.req = b.req
    BY <1>1, <2>2 DEF Go, Moved, Shaped, ParserFields, Rest, Control
  <2>5. \A f \in Control : x[f] = y[f]
    BY <1>1, <2>1, <2>2 DEF Go, Alike, Shaped, ParserFields, Control
  <2>6. \A f \in RequestControl : x.req[f] = y.req[f]
    BY <1>1, <2>3, <2>4 DEF Alike
  <2>7. Agree(x, y)
    BY <2>3, <2>4, <2>5, <2>6, MovedOnAgree DEF UrlStates
  <2>8. ChunkDataDone(a, c) = x
    BY <1>3, <2>1 DEF ChunkDataDone
  <2>9. ChunkDataDone(b, c) = y
    BY <1>1, <1>3, <2>2 DEF ChunkDataDone
  <2> QED
    BY <2>7, <2>8, <2>9
<1>4. CASE ~(a.state = "chunk_data_almost_done" /\ c = "cr") /\ ~(a.state = "chunk_data_done" /\ c = "lf")
  <2>1. ChunkDataDone(a, c) = Fail(a, "STRICT")
    BY <1>4 DEF ChunkDataDone
  <2> QED
    BY <1>1, <2>1, FailAgree
<1> QED
  BY <1>2, <1>3, <1>4

-----------------------------------------------------------------------------
(* The headers end. *)

\* Behind the headers of a request, before its body.
Behind(x) ==
  Shaped(x) /\ x.mark = "none" /\ x.errno = "OK" /\ x.state = "headers_done" /\ ~x.complete /\ ~x.left
    /\ x.upgrade \in BOOLEAN /\ x.req.upgrade = x.upgrade

\* Another protocol: the rest of the read is not for the parser.
LEMMA MessageDoneFine ==
  ASSUME NEW x, Behind(x), NEW y, y = MessageDone(x)
  PROVE  Sound(y) /\ y.cut = x.cut /\ y.rest = x.rest /\ y.p = x.p /\ y.state \in {"start_req", "headers_done"}
<1>1. PICK m : m = OnMessageComplete(x)
  OBVIOUS
<1>0. Shaped(x) /\ x.mark = "none" /\ x.errno = "OK"
  BY DEF Behind
<1>2. m.upgrade = x.upgrade /\ m.errno = "OK"
  <2>1. \A f \in Control \ {"state", "complete"} : m[f] = x[f]
    BY <1>0, <1>1, MessageComplete
  <2> QED
    BY <1>0, <2>1 DEF Control
<1>3. Shaped(m) /\ m.cut = x.cut /\ m.rest = x.rest /\ m.p = x.p /\ m.mark = "none"
  <2>1. Shaped(m)
    BY <1>0, <1>1, MessageComplete
  <2>2. \A f \in (Control \ {"state", "complete"}) \cup {"mark", "left", "rest", "p", "next", "cut"} : m[f] = x[f]
    BY <1>0, <1>1, MessageComplete
  <2> QED
    BY <1>0, <2>1, <2>2
<1>4. y = IF m.upgrade THEN [m EXCEPT !.left = TRUE] ELSE m
  BY <1>1 DEF MessageDone
<1>5. ASSUME NEW z, z = [m EXCEPT !.left = TRUE]
      PROVE  Shaped(z) /\ z.left /\ \A f \in ParserFields \ {"left"} : z[f] = m[f]
  BY <1>3, <1>5 DEF Shaped, ParserFields, Rest
<1>6. CASE GivenAway(x.req)
  <2>1. m.state = "headers_done" /\ m.handled = Append(x.handled, x.req)
    BY <1>1, <1>6, MessageComplete DEF Behind
  <2>2. x.upgrade
    BY <1>6 DEF GivenAway, Behind
  <2>3. y = [m EXCEPT !.left = TRUE]
    BY <1>2, <1>4, <2>2
  <2>4. Shaped(y) /\ y.left /\ \A f \in ParserFields \ {"left"} : y[f] = m[f]
    BY <1>5, <2>3
  <2>5. /\ y.state = "headers_done" /\ y.handled = Append(x.handled, x.req) /\ y.mark = "none"
        /\ y.cut = x.cut /\ y.rest = x.rest /\ y.p = x.p
    BY <1>3, <2>1, <2>4 DEF ParserFields, Control, Rest
  <2>6. "headers_done" \notin Reading \cup UrlStates \cup BeforeTarget /\ MarkOf("headers_done") = "none"
    BY DEF Reading, UrlStates, BeforeTarget, HalfBody, Elsewhere, MarkOf
  <2>7. y.handled # <<>> /\ Last(y.handled) = x.req
    <3>1. PICK U : x.handled \in Seq(U)
      BY DEF Behind, Shaped, IsSeq
    <3>2. PICK V : V = U \cup {x.req}
      OBVIOUS
    <3>3. x.handled \in Seq(V) /\ x.req \in V
      BY <3>1, <3>2
    <3> QED
      BY <2>5, <3>3 DEF Last
  <2> QED
    BY <1>6, <2>4, <2>5, <2>6, <2>7 DEF Sound, Placed
<1>7. CASE ~GivenAway(x.req)
  <2>1. Sound(m) /\ m.state = "start_req"
    BY <1>1, <1>7, MessageFine DEF Behind
  <2>2. CASE m.upgrade
    <3>1. y = [m EXCEPT !.left = TRUE]
      BY <1>4, <2>2
    <3>2. Shaped(y) /\ y.left /\ \A f \in ParserFields \ {"left"} : y[f] = m[f]
      BY <1>5, <3>1
    <3>3. /\ y.state = m.state /\ y.complete = m.complete /\ y.req = m.req /\ y.mark = m.mark /\ y.qs = m.qs
          /\ y.errno = m.errno /\ y.cut = m.cut /\ y.rest = m.rest /\ y.p = m.p /\ y.start = m.start
          /\ y.handled = m.handled
      BY <3>2 DEF ParserFields, Control, Rest
    <3>4. m.state \in Reading
      BY <2>1 DEF Reading, BeforeTarget
    <3>5. Placed(y)
      BY <1>2, <2>1, <3>3, <3>4 DEF Sound, Placed
    <3> QED
      BY <1>3, <2>1, <3>2, <3>3, <3>5 DEF Sound
  <2>3. CASE ~m.upgrade
    BY <1>3, <1>4, <2>1, <2>3
  <2> QED
    BY <2>2, <2>3
<1> QED
  BY <1>6, <1>7

LEMMA MessageDoneAgree ==
  ASSUME NEW a, NEW b, Behind(a), Behind(b), Alike(a, b)
  PROVE  Agree(MessageDone(a), MessageDone(b))
<1>1. PICK x : x = OnMessageComplete(a)
  OBVIOUS
<1>2. PICK y : y = OnMessageComplete(b)
  OBVIOUS
<1>3. Alike(x, y)
  BY <1>1, <1>2, MessageAlike DEF Behind
<1>4. Shaped(x) /\ x.upgrade = a.upgrade /\ x.state \in {"start_req", "headers_done"}
  <2>1. Shaped(a) /\ a.mark = "none" /\ a.state = "headers_done"
    BY DEF Behind
  <2>2. \A f \in (Control \ {"state", "complete"}) \cup {"mark", "left", "rest", "p", "next", "cut"} : x[f] = a[f]
    BY <1>1, <2>1, MessageComplete
  <2>3. Shaped(x)
    BY <1>1, <2>1, MessageComplete
  <2>4. x.state \in {"start_req", "headers_done"}
    BY <1>1, <2>1, MessageComplete
  <2> QED
    BY <2>2, <2>3, <2>4 DEF Control
<1>5. Shaped(y) /\ y.upgrade = b.upgrade
  <2>1. Shaped(b) /\ b.mark = "none"
    BY DEF Behind
  <2>2. Shaped(y) /\ \A f \in Control \ {"state", "complete"} : y[f] = b[f]
    BY <1>2, <2>1, MessageComplete
  <2> QED
    BY <2>2 DEF Control
<1>6. a.upgrade = b.upgrade
  BY AlikeControl
<1>7. ASSUME NEW v, v = [x EXCEPT !.left = TRUE], NEW w, w = [y EXCEPT !.left = TRUE]
      PROVE  Alike(v, w) /\ v.state = x.state
  <2>1. v.left /\ w.left /\ (\A f \in ParserFields \ {"left"} : v[f] = x[f] /\ w[f] = y[f])
    BY <1>4, <1>5, <1>7 DEF Shaped, ParserFields, Rest
  <2>2. /\ v.req = x.req /\ v.mark = x.mark /\ v.text = x.text /\ v.building = x.building /\ v.field = x.field
        /\ v.value = x.value /\ v.handled = x.handled /\ v.state = x.state
        /\ w.req = y.req /\ w.mark = y.mark /\ w.text = y.text /\ w.building = y.building /\ w.field = y.field
        /\ w.value = y.value /\ w.handled = y.handled
    BY <2>1 DEF ParserFields, Control, Rest
  <2>3. \A f \in Control : v[f] = w[f]
    BY <1>3, <2>1 DEF Alike, ParserFields, Control
  <2>4. \A f \in RequestControl : v.req[f] = w.req[f]
    BY <1>3, <2>2 DEF Alike
  <2>5. HeaderHeld(v) = HeaderHeld(x) /\ RawHeld(v) = RawHeld(x) /\ BodyHeld(v) = BodyHeld(x) /\ Masks(v) = Masks(x)
    BY <2>2 DEF HeaderHeld, FieldHeld, ValueHeld, RawHeld, BodyHeld, Masks
  <2>6. HeaderHeld(w) = HeaderHeld(y) /\ RawHeld(w) = RawHeld(y) /\ BodyHeld(w) = BodyHeld(y) /\ Masks(w) = Masks(y)
    BY <2>2 DEF HeaderHeld, FieldHeld, ValueHeld, RawHeld, BodyHeld, Masks
  <2> QED
    BY <1>3, <2>1, <2>2, <2>3, <2>4, <2>5, <2>6 DEF Alike
<1>8. PICK v : v = [x EXCEPT !.left = TRUE]
  OBVIOUS
<1>9. PICK w : w = [y EXCEPT !.left = TRUE]
  OBVIOUS
<1>10. MessageDone(a) = IF a.upgrade THEN v ELSE x
  BY <1>1, <1>4, <1>8 DEF MessageDone
<1>11. MessageDone(b) = IF a.upgrade THEN w ELSE y
  BY <1>2, <1>5, <1>6, <1>9 DEF MessageDone
<1>12. Agree(x, y)
  BY <1>3, <1>4 DEF Agree, Same, Query, UrlStates
<1>13. Agree(v, w)
  BY <1>4, <1>7, <1>8, <1>9 DEF Agree, Same, Query, UrlStates
<1> QED
  BY <1>10, <1>11, <1>12, <1>13

\* The bytes that count towards the limit of the headers are counted anew.
Recount(x) == [x EXCEPT !.nread = 0]

LEMMA Recounted ==
  ASSUME NEW x, Shaped(x), NEW y, y = Recount(x)
  PROVE  /\ Moved(x, y) /\ y.nread = 0 /\ \A f \in ParserFields \ {"nread"} : y[f] = x[f]
         /\ y.state = x.state /\ y.complete = x.complete /\ y.req = x.req /\ y.errno = x.errno /\ y.upgrade = x.upgrade
         /\ y.flags = x.flags /\ y.encoded = x.encoded /\ y.length = x.length /\ y.mark = x.mark
         /\ y.cut = x.cut /\ y.rest = x.rest /\ y.p = x.p
BY DEF Recount, Moved, Shaped, ParserFields, Rest, Control

LEMMA RecountedAlike ==
  ASSUME NEW a, NEW b, Shaped(a), Shaped(b), Alike(a, b),
         NEW x, x = Recount(a), NEW y, y = Recount(b)
  PROVE  Alike(x, y)
<1>1. Moved(a, x) /\ x.req = a.req /\ x.nread = 0 /\ \A f \in ParserFields \ {"nread"} : x[f] = a[f]
  BY Recounted
<1>2. Moved(b, y) /\ y.req = b.req /\ y.nread = 0 /\ \A f \in ParserFields \ {"nread"} : y[f] = b[f]
  BY Recounted
<1>3. \A f \in Control : x[f] = y[f]
  BY <1>1, <1>2 DEF Alike, ParserFields, Control
<1>4. \A f \in RequestControl : x.req[f] = y.req[f]
  BY <1>1, <1>2 DEF Alike
<1> QED
  BY <1>1, <1>2, <1>3, <1>4, AlikeMoved

\* What HeadersDone does, arm by arm.
LEMMA HeadersDoneIs ==
  ASSUME NEW x, Shaped(x), x.upgrade \in BOOLEAN, NEW y, y = Recount(x)
  PROVE  /\ x.upgrade => HeadersDone(x) = MessageDone(y)
         /\ ~x.upgrade /\ "CHUNKED" \in x.flags => HeadersDone(x) = Go(y, "chunk_size_start")
         /\ ~x.upgrade /\ "CHUNKED" \notin x.flags /\ x.encoded =>
              HeadersDone(x) = Fail(y, "INVALID_TRANSFER_ENCODING")
         /\ ~x.upgrade /\ "CHUNKED" \notin x.flags /\ ~x.encoded /\ x.length \in {0, MaxLength} =>
              HeadersDone(x) = MessageDone(y)
         /\ ~x.upgrade /\ "CHUNKED" \notin x.flags /\ ~x.encoded /\ x.length \notin {0, MaxLength} =>
              HeadersDone(x) = Go(y, "body_identity")
<1>0. y.upgrade = x.upgrade /\ y.flags = x.flags /\ y.encoded = x.encoded /\ y.length = x.length
  BY Recounted
<1>1. HeadersDone(x) =
        CASE y.upgrade -> MessageDone(y)
          [] ~y.upgrade /\ "CHUNKED" \in y.flags -> Go(y, "chunk_size_start")
          [] ~y.upgrade /\ "CHUNKED" \notin y.flags ->
               IF y.encoded THEN Fail(y, "INVALID_TRANSFER_ENCODING")
               ELSE IF y.length \in {0, MaxLength} THEN MessageDone(y)
               ELSE Go(y, "body_identity")
  BY DEF HeadersDone, Recount
<1>2. CASE x.upgrade
  BY <1>0, <1>1, <1>2, Zenon
<1>3. CASE ~x.upgrade /\ "CHUNKED" \in x.flags
  BY <1>0, <1>1, <1>3, Zenon
<1>4. CASE ~x.upgrade /\ "CHUNKED" \notin x.flags
  <2>1. HeadersDone(x) = IF y.encoded THEN Fail(y, "INVALID_TRANSFER_ENCODING")
                         ELSE IF y.length \in {0, MaxLength} THEN MessageDone(y)
                         ELSE Go(y, "body_identity")
    BY <1>0, <1>1, <1>4, Zenon
  <2> QED
    BY <1>0, <1>4, <2>1, Zenon
<1> QED
  BY <1>2, <1>3, <1>4

LEMMA HeadersDoneFine ==
  ASSUME NEW x, Behind(x), NEW y, y = HeadersDone(x)
  PROVE  Sound(y) /\ y.cut = x.cut /\ y.rest = x.rest /\ y.p = x.p
<1>1. PICK z : z = Recount(x)
  OBVIOUS
<1>2. /\ Moved(x, z) /\ z.state = x.state /\ z.complete = x.complete /\ z.req = x.req /\ z.errno = x.errno
      /\ z.upgrade = x.upgrade /\ z.flags = x.flags /\ z.encoded = x.encoded /\ z.length = x.length
      /\ z.mark = x.mark /\ z.cut = x.cut /\ z.rest = x.rest /\ z.p = x.p
  BY <1>1, Recounted DEF Behind
<1>3. Behind(z)
  <2>1. Shaped(z) /\ z.left = x.left
    BY <1>2, MovedKeeps DEF Behind, Kept
  <2> QED
    BY <1>2, <2>1 DEF Behind
<1>4. ASSUME NEW s \in {"chunk_size_start", "body_identity"}, ~x.upgrade
      PROVE  LET w == Go(z, s) IN Sound(w) /\ w.cut = z.cut /\ w.rest = z.rest /\ w.p = z.p
  <2>1. PICK w : w = Go(z, s)
    OBVIOUS
  <2>2. /\ Moved(z, w) /\ w.state = s /\ w.req = z.req /\ w.complete = z.complete /\ w.mark = "none" /\ w.cut = z.cut
    BY <1>3, <2>1, GoMoves DEF Behind
  <2>3. Shaped(w) /\ w.rest = z.rest /\ w.p = z.p /\ w.left = z.left
    BY <1>3, <2>2, MovedKeeps DEF Behind, Kept
  <2>4. s \in Reading /\ s \notin BeforeTarget /\ s \notin UrlStates /\ MarkOf(s) = "none"
    BY DEF Reading, Elsewhere, HalfBody, BeforeTarget, UrlStates, MarkOf
  <2>5. Placed(w)
    BY <1>2, <1>3, <1>4, <2>2, <2>3, <2>4 DEF Placed, Behind
  <2> QED
    BY <2>1, <2>2, <2>3, <2>5 DEF Sound
<1>5. LET m == MessageDone(z) IN Sound(m) /\ m.cut = z.cut /\ m.rest = z.rest /\ m.p = z.p
  BY <1>3, MessageDoneFine
<1>6. LET w == Fail(z, "INVALID_TRANSFER_ENCODING")
      IN Sound(w) /\ w.cut = z.cut /\ w.rest = z.rest /\ w.p = z.p
  <2>1. PICK w : w = Fail(z, "INVALID_TRANSFER_ENCODING")
    OBVIOUS
  <2>2. Moved(z, w) /\ w.errno = "INVALID_TRANSFER_ENCODING" /\ \A f \in ParserFields \ {"errno"} : w[f] = z[f]
    BY <1>3, <2>1, FailMoves DEF Behind
  <2>3. Shaped(w)
    BY <1>3, <2>2, MovedKeeps DEF Behind, Kept
  <2> QED
    BY <2>1, <2>2, <2>3 DEF Sound, ParserFields, Rest
<1>7. x.upgrade \in BOOLEAN
  BY DEF Behind
<1>8. \/ y = MessageDone(z) \/ y = Fail(z, "INVALID_TRANSFER_ENCODING")
      \/ ~x.upgrade /\ (y = Go(z, "chunk_size_start") \/ y = Go(z, "body_identity"))
  BY <1>1, <1>7, HeadersDoneIs DEF Behind
<1> QED
  BY <1>2, <1>4, <1>5, <1>6, <1>8

LEMMA HeadersDoneAgree ==
  ASSUME NEW a, NEW b, Behind(a), Behind(b), Alike(a, b)
  PROVE  Agree(HeadersDone(a), HeadersDone(b))
<1>1. PICK x : x = Recount(a)
  OBVIOUS
<1>2. PICK y : y = Recount(b)
  OBVIOUS
<1>3. Shaped(a) /\ Shaped(b) /\ a.upgrade \in BOOLEAN /\ b.upgrade \in BOOLEAN
  BY DEF Behind
<1>4. /\ Moved(a, x) /\ x.state = a.state /\ x.complete = a.complete /\ x.req = a.req /\ x.errno = a.errno
      /\ x.upgrade = a.upgrade /\ x.flags = a.flags /\ x.encoded = a.encoded /\ x.length = a.length
      /\ x.mark = a.mark
  BY <1>1, <1>3, Recounted
<1>5. /\ Moved(b, y) /\ y.state = b.state /\ y.complete = b.complete /\ y.req = b.req /\ y.errno = b.errno
      /\ y.upgrade = b.upgrade /\ y.flags = b.flags /\ y.encoded = b.encoded /\ y.length = b.length
      /\ y.mark = b.mark
  BY <1>2, <1>3, Recounted
<1>6. Behind(x)
  BY <1>3, <1>4, MovedKeeps DEF Behind, Kept
<1>7. Behind(y)
  BY <1>3, <1>5, MovedKeeps DEF Behind, Kept
<1>8. Alike(x, y)
  BY <1>1, <1>2, <1>3, RecountedAlike
<1>9. b.upgrade = a.upgrade /\ b.flags = a.flags /\ b.encoded = a.encoded /\ b.length = a.length
  BY AlikeControl
<1>10. Agree(MessageDone(x), MessageDone(y))
  BY <1>6, <1>7, <1>8, MessageDoneAgree
<1>11. Shaped(x) /\ Shaped(y)
  BY <1>6, <1>7 DEF Behind
<1>12. ASSUME NEW s, s \notin UrlStates PROVE Agree(Go(x, s), Go(y, s))
  <2>1. PICK v : v = Go(x, s)
    OBVIOUS
  <2>2. PICK w : w = Go(y, s)
    OBVIOUS
  <2>3. Moved(x, v) /\ v.req = x.req /\ v.state = s
    BY <1>11, <2>1, GoMoves
  <2>4. Moved(y, w) /\ w.req = y.req
    BY <1>11, <2>2, GoMoves
  <2>5. \A f \in Control : v[f] = w[f]
    BY <1>8, <1>11, <2>1, <2>2, GoControl
  <2>6. \A f \in RequestControl : v.req[f] = w.req[f]
    BY <1>8, <2>3, <2>4 DEF Alike
  <2>7. Alike(v, w)
    BY <1>8, <1>11, <2>3, <2>4, <2>5, <2>6, AlikeMoved
  <2> QED
    BY <1>12, <2>1, <2>2, <2>3, <2>7 DEF Agree, Same, Query
<1>13. Agree(Fail(x, "INVALID_TRANSFER_ENCODING"), Fail(y, "INVALID_TRANSFER_ENCODING"))
  BY <1>11, FailAgree
<1>14. CASE a.upgrade \/ (~a.upgrade /\ "CHUNKED" \notin a.flags /\ ~a.encoded /\ a.length \in {0, MaxLength})
  <2>1. HeadersDone(a) = MessageDone(x)
    BY <1>1, <1>3, <1>14, HeadersDoneIs
  <2>2. HeadersDone(b) = MessageDone(y)
    BY <1>2, <1>3, <1>9, <1>14, HeadersDoneIs
  <2> QED
    BY <1>10, <2>1, <2>2
<1>15. CASE ~a.upgrade /\ "CHUNKED" \in a.flags
  <2>1. HeadersDone(a) = Go(x, "chunk_size_start")
    BY <1>1, <1>3, <1>15, HeadersDoneIs
  <2>2. HeadersDone(b) = Go(y, "chunk_size_start")
    BY <1>2, <1>3, <1>9, <1>15, HeadersDoneIs
  <2> QED
    BY <1>12, <2>1, <2>2 DEF UrlStates
<1>16. CASE ~a.upgrade /\ "CHUNKED" \notin a.flags /\ a.encoded
  <2>1. HeadersDone(a) = Fail(x, "INVALID_TRANSFER_ENCODING")
    BY <1>1, <1>3, <1>16, HeadersDoneIs
  <2>2. HeadersDone(b) = Fail(y, "INVALID_TRANSFER_ENCODING")
    BY <1>2, <1>3, <1>9, <1>16, HeadersDoneIs
  <2> QED
    BY <1>13, <2>1, <2>2
<1>17. CASE ~a.upgrade /\ "CHUNKED" \notin a.flags /\ ~a.encoded /\ a.length \notin {0, MaxLength}
  <2>1. HeadersDone(a) = Go(x, "body_identity")
    BY <1>1, <1>3, <1>17, HeadersDoneIs
  <2>2. HeadersDone(b) = Go(y, "body_identity")
    BY <1>2, <1>3, <1>9, <1>17, HeadersDoneIs
  <2> QED
    BY <1>12, <2>1, <2>2 DEF UrlStates
<1> QED
  BY <1>14, <1>15, <1>16, <1>17

\* The headers were complete: what the request is, and whether it asks for
\* another protocol.
Headed(x) == [Go(x, "headers_done") EXCEPT !.upgrade = "UPGRADE" \in x.flags \/ x.method = "CONNECT"]

LEMMA HeadedMoves ==
  ASSUME NEW x, Shaped(x), NEW y, y = Headed(x)
  PROVE  /\ Moved(x, y) /\ y.state = "headers_done" /\ y.req = x.req /\ y.complete = x.complete /\ y.errno = x.errno
         /\ y.upgrade = ("UPGRADE" \in x.flags \/ x.method = "CONNECT")
         /\ \A f \in ParserFields \ {"state", "upgrade"} : y[f] = x[f]
BY DEF Headed, Go, Moved, Shaped, ParserFields, Rest, Control

LEMMA HeadedBehind ==
  ASSUME NEW x, Going(x), x.mark = "none", NEW y, y = OnHeadersComplete(Headed(x))
  PROVE  Behind(y) /\ y.cut = x.cut /\ y.rest = x.rest /\ y.p = x.p
<1>1. PICK z : z = Headed(x)
  OBVIOUS
<1>2. /\ Moved(x, z) /\ z.state = "headers_done" /\ z.complete = x.complete /\ z.errno = x.errno
      /\ z.upgrade = ("UPGRADE" \in x.flags \/ x.method = "CONNECT") /\ z.cut = x.cut
  BY <1>1, HeadedMoves DEF Going, ParserFields
<1>3. Shaped(z) /\ z.mark = "none" /\ z.rest = x.rest /\ z.p = x.p /\ z.left = x.left
  BY <1>2, MovedKeeps DEF Going, Kept
<1>4. Shaped(y) /\ y.req.upgrade = z.upgrade
  BY <1>1, <1>3, HeadersComplete
<1>5. \A f \in Control \cup {"mark", "left", "rest", "p", "next", "cut", "handled", "building"} : y[f] = z[f]
  BY <1>1, <1>3, HeadersCompleteControl
<1>6. /\ y.state = z.state /\ y.complete = z.complete /\ y.errno = z.errno /\ y.upgrade = z.upgrade
      /\ y.mark = z.mark /\ y.cut = z.cut /\ y.rest = z.rest /\ y.p = z.p /\ y.left = z.left
  BY <1>5 DEF Control
<1>7. z.upgrade \in BOOLEAN
  BY <1>2
<1>8. ~x.complete /\ ~x.left /\ x.errno = "OK"
  BY DEF Going, Placed
<1> QED
  BY <1>2, <1>3, <1>4, <1>6, <1>7, <1>8 DEF Behind

LEMMA HeadedAlike ==
  ASSUME NEW a, NEW b, Shaped(a), Shaped(b), Alike(a, b), a.mark = "none", b.mark = "none"
  PROVE  Alike(OnHeadersComplete(Headed(a)), OnHeadersComplete(Headed(b)))
<1>1. PICK v : v = Headed(a)
  OBVIOUS
<1>2. PICK w : w = Headed(b)
  OBVIOUS
<1>3. /\ Moved(a, v) /\ v.state = "headers_done" /\ v.req = a.req
      /\ v.upgrade = ("UPGRADE" \in a.flags \/ a.method = "CONNECT")
      /\ \A f \in ParserFields \ {"state", "upgrade"} : v[f] = a[f]
  BY <1>1, HeadedMoves
<1>4. /\ Moved(b, w) /\ w.state = "headers_done" /\ w.req = b.req
      /\ w.upgrade = ("UPGRADE" \in b.flags \/ b.method = "CONNECT")
      /\ \A f \in ParserFields \ {"state", "upgrade"} : w[f] = b[f]
  BY <1>2, HeadedMoves
<1>5. a.flags = b.flags /\ a.method = b.method
  BY AlikeControl
<1>6. \A f \in Control : v[f] = w[f]
  BY <1>3, <1>4, <1>5 DEF Alike, Control, ParserFields
<1>7. \A f \in RequestControl : v.req[f] = w.req[f]
  BY <1>3, <1>4 DEF Alike
<1>8. Alike(v, w)
  BY <1>3, <1>4, <1>6, <1>7, AlikeMoved
<1>9. Shaped(v) /\ v.mark = "none"
  BY <1>3, MovedKeeps DEF Kept
<1>10. Shaped(w) /\ w.mark = "none"
  BY <1>4, MovedKeeps DEF Kept
<1> QED
  BY <1>1, <1>2, <1>8, <1>9, <1>10, HeadersAlike

LEMMA HeadersAlmostDoneIs ==
  ASSUME NEW x, NEW c, NEW trailing, trailing = ("TRAILING" \in x.flags),
         NEW both, both = (x.encoded /\ "CONTENTLENGTH" \in x.flags)
  PROVE  /\ c # "lf" => HeadersAlmostDone(x, c) = Fail(x, "STRICT")
         /\ c = "lf" /\ trailing => HeadersAlmostDone(x, c) = OnMessageComplete(x)
         /\ c = "lf" /\ ~trailing /\ both => HeadersAlmostDone(x, c) = Fail(x, "UNEXPECTED_CONTENT_LENGTH")
         /\ c = "lf" /\ ~trailing /\ ~both => HeadersAlmostDone(x, c) = HeadersDone(OnHeadersComplete(Headed(x)))
<1>1. HeadersAlmostDone(x, c) =
        CASE c # "lf" -> Fail(x, "STRICT")
          [] c = "lf" /\ "TRAILING" \in x.flags -> OnMessageComplete(x)
          [] c = "lf" /\ "TRAILING" \notin x.flags /\ x.encoded /\ "CONTENTLENGTH" \in x.flags ->
               Fail(x, "UNEXPECTED_CONTENT_LENGTH")
          [] OTHER -> HeadersDone(OnHeadersComplete(Headed(x)))
  BY DEF HeadersAlmostDone, Headed
<1>2. CASE c # "lf"
  BY <1>1, <1>2, Zenon
<1>3. CASE c = "lf" /\ trailing
  BY <1>1, <1>3, Zenon
<1>4. CASE c = "lf" /\ ~trailing /\ both
  BY <1>1, <1>4, Zenon
<1>5. CASE c = "lf" /\ ~trailing /\ ~both
  BY <1>1, <1>5, Zenon
<1> QED
  BY <1>2, <1>3, <1>4, <1>5

LEMMA HeadersAlmostDoneFine ==
  ASSUME NEW x, Going(x), x.mark = "none", NEW c
  PROVE  Fine(x, HeadersAlmostDone(x, c))
<1>1. Fine(x, Fail(x, "STRICT")) /\ Fine(x, Fail(x, "UNEXPECTED_CONTENT_LENGTH"))
  BY FailFine
<1>2. Fine(x, OnMessageComplete(x))
  <2>1. Shaped(x) /\ ~GivenAway(x.req)
    BY DEF Going, Placed, GivenAway
  <2>2. PICK y : y = OnMessageComplete(x)
    OBVIOUS
  <2>3. Sound(y) /\ \A f \in {"left", "rest", "p", "next", "cut", "errno", "upgrade"} : y[f] = x[f]
    BY <2>1, <2>2, MessageFine
  <2> QED
    BY <2>2, <2>3 DEF Fine
<1>3. Fine(x, HeadersDone(OnHeadersComplete(Headed(x))))
  <2>1. PICK h : h = OnHeadersComplete(Headed(x))
    OBVIOUS
  <2>2. Behind(h) /\ h.cut = x.cut /\ h.rest = x.rest /\ h.p = x.p
    BY <2>1, HeadedBehind
  <2>3. PICK y : y = HeadersDone(h)
    OBVIOUS
  <2>4. Sound(y) /\ y.cut = h.cut /\ y.rest = h.rest /\ y.p = h.p
    BY <2>2, <2>3, HeadersDoneFine
  <2> QED
    BY <2>1, <2>2, <2>3, <2>4 DEF Fine
<1>4. PICK trailing : trailing = ("TRAILING" \in x.flags)
  OBVIOUS
<1>5. PICK both : both = (x.encoded /\ "CONTENTLENGTH" \in x.flags)
  OBVIOUS
<1>6. HeadersAlmostDone(x, c) \in {Fail(x, "STRICT"), OnMessageComplete(x), Fail(x, "UNEXPECTED_CONTENT_LENGTH"),
                                   HeadersDone(OnHeadersComplete(Headed(x)))}
  BY <1>4, <1>5, HeadersAlmostDoneIs
<1> QED
  BY <1>1, <1>2, <1>3, <1>6

LEMMA HeadersAlmostDoneAgree ==
  ASSUME NEW a, NEW b, Together(a, b), a.mark = "none", b.mark = "none", NEW c
  PROVE  Agree(HeadersAlmostDone(a, c), HeadersAlmostDone(b, c))
<1>1. Going(a) /\ Going(b) /\ Shaped(a) /\ Shaped(b) /\ Alike(a, b) /\ ~a.req.upgrade
  BY DEF Together, Going, Same, Placed
<1>2. a.flags = b.flags /\ a.encoded = b.encoded
  BY <1>1, AlikeControl
<1>3. PICK trailing : trailing = ("TRAILING" \in a.flags)
  OBVIOUS
<1>4. PICK both : both = (a.encoded /\ "CONTENTLENGTH" \in a.flags)
  OBVIOUS
<1>5. /\ c # "lf" => HeadersAlmostDone(a, c) = Fail(a, "STRICT")
      /\ c = "lf" /\ trailing => HeadersAlmostDone(a, c) = OnMessageComplete(a)
      /\ c = "lf" /\ ~trailing /\ both => HeadersAlmostDone(a, c) = Fail(a, "UNEXPECTED_CONTENT_LENGTH")
      /\ c = "lf" /\ ~trailing /\ ~both => HeadersAlmostDone(a, c) = HeadersDone(OnHeadersComplete(Headed(a)))
  BY <1>3, <1>4, HeadersAlmostDoneIs
<1>6. /\ c = "lf" /\ trailing => HeadersAlmostDone(b, c) = OnMessageComplete(b)
      /\ c = "lf" /\ ~trailing /\ ~both => HeadersAlmostDone(b, c) = HeadersDone(OnHeadersComplete(Headed(b)))
  <2>1. trailing = ("TRAILING" \in b.flags) /\ both = (b.encoded /\ "CONTENTLENGTH" \in b.flags)
    BY <1>2, <1>3, <1>4
  <2> QED
    BY <2>1, HeadersAlmostDoneIs
<1>7. ASSUME NEW e \in {"STRICT", "UNEXPECTED_CONTENT_LENGTH"}, NEW y PROVE Agree(Fail(a, e), y)
  BY <1>1, FailAgree
<1>8. Agree(OnMessageComplete(a), OnMessageComplete(b))
  <2>1. PICK x : x = OnMessageComplete(a)
    OBVIOUS
  <2>2. ~GivenAway(a.req)
    BY <1>1 DEF GivenAway
  <2>3. x.state = "start_req"
    BY <1>1, <2>1, <2>2, MessageFine
  <2>4. Alike(x, OnMessageComplete(b))
    BY <1>1, <2>1, MessageAlike
  <2> QED
    BY <2>1, <2>3, <2>4 DEF Agree, Same, Query, UrlStates
<1>9. Agree(HeadersDone(OnHeadersComplete(Headed(a))), HeadersDone(OnHeadersComplete(Headed(b))))
  <2>1. PICK x : x = OnHeadersComplete(Headed(a))
    OBVIOUS
  <2>2. PICK y : y = OnHeadersComplete(Headed(b))
    OBVIOUS
  <2>3. Behind(x)
    BY <1>1, <2>1, HeadedBehind
  <2>4. Behind(y)
    BY <1>1, <2>2, HeadedBehind
  <2>5. Alike(x, y)
    BY <1>1, <2>1, <2>2, HeadedAlike
  <2> QED
    BY <2>1, <2>2, <2>3, <2>4, <2>5, HeadersDoneAgree
<1>10. CASE c # "lf"
  BY <1>5, <1>7, <1>10
<1>11. CASE c = "lf" /\ trailing
  BY <1>5, <1>6, <1>8, <1>11
<1>12. CASE c = "lf" /\ ~trailing /\ both
  BY <1>5, <1>7, <1>12
<1>13. CASE c = "lf" /\ ~trailing /\ ~both
  BY <1>5, <1>6, <1>9, <1>13
<1> QED
  BY <1>10, <1>11, <1>12, <1>13

-----------------------------------------------------------------------------
(* Names of headers. *)

\* No letter or digit ends a name or a line.
LEMMA Symbols ==
  \A c \in TokenSymbols : c \notin {"cr", "lf", ":", " "}
<1>1. \A u, v : Range(<<u, v>>) = {u, v}
  BY DEF Range
<1>2. \A u, v, w : Range(<<u, v, w>>) = {u, v, w}
  BY DEF Range
<1> DEFINE A == UNION {Range(Names[n]) : n \in DOMAIN Names}
<1> DEFINE B == UNION {Range(Words[w]) : w \in DOMAIN Words}
<1>3. A =
         {"connec", "tion", "proxy-", "content", "-length", "transfer", "-encoding", "up", "grade"}
  <2>1. DOMAIN Names = {"connection", "proxy", "length", "encoding", "upgrade"}
    BY DEF Names
  <2>2. /\ Range(Names["connection"]) = {"connec", "tion"} /\ Range(Names["proxy"]) = {"proxy-", "connec", "tion"}
        /\ Range(Names["length"]) = {"content", "-length"} /\ Range(Names["encoding"]) = {"transfer", "-encoding"}
        /\ Range(Names["upgrade"]) = {"up", "grade"}
    BY <1>1, <1>2 DEF Names
  <2> QED
    BY <2>1, <2>2
<1>4. B = {"chun", "ked", "keep", "-alive", "clo", "se"}
  <2>1. DOMAIN Words = {"chunked", "keep", "close"}
    BY DEF Words
  <2>2. /\ Range(Words["chunked"]) = {"chun", "ked"} /\ Range(Words["keep"]) = {"keep", "-alive"}
        /\ Range(Words["close"]) = {"clo", "se"}
    BY <1>1 DEF Words
  <2>3. UNION {Range(Words[w]) : w \in DOMAIN Words} =
          Range(Words["chunked"]) \cup Range(Words["keep"]) \cup Range(Words["close"])
    BY <2>1
  <2> QED
    BY <2>2, <2>3
<1>5. Letters = A \cup B \cup {"h", "host", "x"}
  BY DEF Letters
<1> HIDE DEF A, B
<1> SUFFICES ASSUME NEW c \in TokenSymbols PROVE c \notin {"cr", "lf", ":", " "}
  OBVIOUS
<1>6. c \in A \/ c \in B \/ c \in {"h", "host", "x"} \/ c \in Digits
  BY <1>5 DEF TokenSymbols
<1>7. CASE c \in A
  BY <1>3, <1>7
<1>8. CASE c \in B
  BY <1>4, <1>8
<1>9. CASE c \in {"h", "host", "x"}
  BY <1>9
<1>10. CASE c \in Digits
  BY <1>10 DEF Digits
<1> QED
  BY <1>6, <1>7, <1>8, <1>9, <1>10

LEMMA MatchNameMoves ==
  ASSUME NEW x, Shaped(x), NEW c, NEW y, y = MatchName(x, c)
  PROVE  Moved(x, y) /\ \A f \in ParserFields \ {"index", "header", "encoded"} : y[f] = x[f]
<1>1. PICK i : i = x.index + 1
  OBVIOUS
<1>2. PICK n : n = x.header[2]
  OBVIOUS
<1>3. PICK same, whole : same = (c = Names[n][i]) /\ whole = ((c = Names[n][i]) /\ i = Len(Names[n]))
  OBVIOUS
<1>4. PICK h, e : /\ h = IF whole THEN Named(IF n = "proxy" THEN "connection" ELSE n) ELSE IF same THEN x.header ELSE General
                  /\ e = (x.encoded \/ (whole /\ n = "encoding"))
  OBVIOUS
<1>5. y = [x EXCEPT !.index = i, !.header = h, !.encoded = e]
  BY <1>1, <1>2, <1>3, <1>4, Zenon DEF MatchName
<1> QED
  BY <1>5 DEF Moved, Shaped, ParserFields, Rest, Control

LEMMA MatchNameControl ==
  ASSUME NEW a, NEW b, Shaped(a), Shaped(b), \A f \in Control : a[f] = b[f], NEW c,
         NEW x, x = MatchName(a, c), NEW y, y = MatchName(b, c)
  PROVE  \A f \in Control : x[f] = y[f]
<1>1. a.index = b.index /\ a.header = b.header /\ a.encoded = b.encoded
  BY DEF Control
<1>2. PICK i : i = a.index + 1
  OBVIOUS
<1>3. PICK n : n = a.header[2]
  OBVIOUS
<1>4. PICK same, whole : same = (c = Names[n][i]) /\ whole = ((c = Names[n][i]) /\ i = Len(Names[n]))
  OBVIOUS
<1>5. PICK h, e : /\ h = IF whole THEN Named(IF n = "proxy" THEN "connection" ELSE n) ELSE IF same THEN a.header ELSE General
                  /\ e = (a.encoded \/ (whole /\ n = "encoding"))
  OBVIOUS
<1>6. x = [a EXCEPT !.index = i, !.header = h, !.encoded = e]
  BY <1>2, <1>3, <1>4, <1>5, Zenon DEF MatchName
<1>7. y = [b EXCEPT !.index = i, !.header = h, !.encoded = e]
  BY <1>1, <1>2, <1>3, <1>4, <1>5, Zenon DEF MatchName
<1>8. x.index = i /\ x.header = h /\ x.encoded = e /\ \A f \in Control \ {"index", "header", "encoded"} : x[f] = a[f]
  BY <1>6 DEF Shaped, ParserFields, Control
<1>9. y.index = i /\ y.header = h /\ y.encoded = e /\ \A f \in Control \ {"index", "header", "encoded"} : y[f] = b[f]
  BY <1>7 DEF Shaped, ParserFields, Control
<1> QED
  BY <1>8, <1>9

\* What a letter of a name tells of the header.
Letter(x, c) ==
  CASE x.header[1] = "matching" -> MatchName(x, c)
    [] x.header[1] = "named" -> [x EXCEPT !.header = General]
    [] OTHER -> x

LEMMA LetterIs ==
  ASSUME NEW x, NEW c
  PROVE  /\ x.header[1] = "matching" => Letter(x, c) = MatchName(x, c)
         /\ x.header[1] = "named" => Letter(x, c) = [x EXCEPT !.header = General]
         /\ x.header[1] \notin {"matching", "named"} => Letter(x, c) = x
<1>1. PICK k : k = x.header[1]
  OBVIOUS
<1>2. Letter(x, c) = CASE k = "matching" -> MatchName(x, c) [] k = "named" -> [x EXCEPT !.header = General] [] OTHER -> x
  BY <1>1 DEF Letter
<1>3. CASE k = "matching"
  <2>1. k # "named"
    BY <1>3
  <2> QED
    BY <1>1, <1>2, <1>3, <2>1, Zenon
<1>4. CASE k = "named"
  <2>1. k # "matching"
    BY <1>4
  <2> QED
    BY <1>1, <1>2, <1>4, <2>1, Zenon
<1>5. CASE k \notin {"matching", "named"}
  <2>1. k # "matching" /\ k # "named"
    BY <1>5
  <2> QED
    BY <1>1, <1>2, <2>1, Zenon
<1> QED
  BY <1>3, <1>4, <1>5, <1>1

LEMMA HeaderSet ==
  ASSUME NEW x, Shaped(x), NEW h, NEW y, y = [x EXCEPT !.header = h]
  PROVE  Moved(x, y) /\ y.header = h /\ \A f \in ParserFields \ {"header"} : y[f] = x[f]
BY DEF Moved, Shaped, ParserFields, Rest, Control

LEMMA LetterMoves ==
  ASSUME NEW x, Shaped(x), NEW c, NEW y, y = Letter(x, c)
  PROVE  Moved(x, y) /\ \A f \in ParserFields \ {"index", "header", "encoded"} : y[f] = x[f]
<1>1. CASE x.header[1] = "matching"
  BY <1>1, LetterIs, MatchNameMoves
<1>2. CASE x.header[1] = "named"
  BY <1>2, LetterIs, HeaderSet
<1>3. CASE x.header[1] \notin {"matching", "named"}
  <2>1. y = x
    BY <1>3, LetterIs
  <2> QED
    BY <2>1 DEF Moved, Shaped
<1> QED
  BY <1>1, <1>2, <1>3

LEMMA LetterControl ==
  ASSUME NEW a, NEW b, Shaped(a), Shaped(b), \A f \in Control : a[f] = b[f], NEW c,
         NEW x, x = Letter(a, c), NEW y, y = Letter(b, c)
  PROVE  \A f \in Control : x[f] = y[f]
<1>1. a.header = b.header
  BY DEF Control
<1>2. CASE a.header[1] = "matching"
  <2>1. x = MatchName(a, c)
    BY <1>2, LetterIs
  <2>2. y = MatchName(b, c)
    BY <1>1, <1>2, LetterIs
  <2> QED
    BY <2>1, <2>2, MatchNameControl
<1>3. CASE a.header[1] = "named"
  <2>1. x = [a EXCEPT !.header = General]
    BY <1>3, LetterIs
  <2>2. y = [b EXCEPT !.header = General]
    BY <1>1, <1>3, LetterIs
  <2>3. x.header = General /\ \A f \in ParserFields \ {"header"} : x[f] = a[f]
    BY <2>1, HeaderSet
  <2>4. y.header = General /\ \A f \in ParserFields \ {"header"} : y[f] = b[f]
    BY <2>2, HeaderSet
  <2> QED
    BY <2>3, <2>4 DEF ParserFields
<1>4. CASE a.header[1] \notin {"matching", "named"}
  <2>1. x = a
    BY <1>4, LetterIs
  <2>2. y = b
    BY <1>1, <1>4, LetterIs
  <2> QED
    BY <2>1, <2>2
<1> QED
  BY <1>2, <1>3, <1>4

\* What a symbol of a name does.
LEMMA FieldIs ==
  ASSUME NEW x, NEW c
  PROVE  /\ c \in TokenSymbols => Field(x, c) = Take(Letter(x, c), "field", c)
         /\ c = ":" => Field(x, c) = Flush(Go(x, "discard_ws"))
         /\ c # ":" /\ c \notin TokenSymbols => Field(x, c) = Fail(x, "INVALID_HEADER_TOKEN")
<1>1. Field(x, c) = CASE c \in TokenSymbols -> Take(Letter(x, c), "field", c)
                      [] c = ":" -> Flush(Go(x, "discard_ws"))
                      [] OTHER -> Fail(x, "INVALID_HEADER_TOKEN")
  BY DEF Field, Letter
<1>2. CASE c \in TokenSymbols
  <2>1. c # ":"
    BY <1>2, Symbols
  <2> QED
    BY <1>1, <1>2, <2>1, Zenon
<1>3. CASE c = ":"
  <2>1. c \notin TokenSymbols
    BY <1>3, Symbols
  <2> QED
    BY <1>1, <1>3, <2>1, Zenon
<1>4. CASE c # ":" /\ c \notin TokenSymbols
  BY <1>1, <1>4, Zenon
<1> QED
  BY <1>2, <1>3, <1>4

\* What is marked in a name, a value or a target.
LEMMA MarkOfs ==
  /\ MarkOf("field") = "field" /\ MarkOf("value") = "value"
  /\ "field" \notin HalfBody /\ "value" \notin HalfBody
  /\ \A s \in UrlStates : MarkOf(s) = "url" /\ s \notin HalfBody
BY DEF MarkOf, UrlStates, HalfBody

LEMMA FieldFine ==
  ASSUME NEW x, Going(x), x.state = "field", NEW c
  PROVE  Fine(x, Field(x, c))
<1>1. x.mark = "field" /\ Shaped(x)
  BY MarkOfs DEF Going, Placed
<1>2. Fine(x, Take(Letter(x, c), "field", c))
  <2>1. PICK z : z = Letter(x, c)
    OBVIOUS
  <2>2. Moved(x, z) /\ \A f \in ParserFields \ {"index", "header", "encoded"} : z[f] = x[f]
    BY <1>1, <2>1, LetterMoves
  <2>3. z.state = "field" /\ z.complete = x.complete /\ z.req = x.req
    BY <2>2 DEF ParserFields, Control
  <2>4. "field" \in Reading /\ "field" \notin BeforeTarget /\ "field" \notin UrlStates /\ MarkOf("field") = "field"
    BY DEF Reading, BeforeTarget, UrlStates, MarkOf
  <2> QED
    BY <2>1, <2>2, <2>3, <2>4, MovedAndTaken
<1>3. Fine(x, Flush(Go(x, "discard_ws")))
  BY <1>1, HandedOn DEF Elsewhere
<1>4. Fine(x, Fail(x, "INVALID_HEADER_TOKEN"))
  BY FailFine
<1> QED
  BY <1>2, <1>3, <1>4, FieldIs

LEMMA FieldAgree ==
  ASSUME NEW a, NEW b, Together(a, b), a.state = "field", NEW c
  PROVE  Agree(Field(a, c), Field(b, c))
<1>1. Going(a) /\ Going(b) /\ Shaped(a) /\ Shaped(b) /\ Alike(a, b) /\ b.state = a.state
  BY DEF Together, Going, Same, Alike, Control
<1>2. a.mark = "field" /\ b.mark = "field"
  BY <1>1, MarkOfs DEF Going, Placed
<1>3. CASE c \in TokenSymbols
  <2>1. PICK v : v = Letter(a, c)
    OBVIOUS
  <2>2. PICK w : w = Letter(b, c)
    OBVIOUS
  <2>3. Moved(a, v) /\ \A f \in ParserFields \ {"index", "header", "encoded"} : v[f] = a[f]
    BY <1>1, <2>1, LetterMoves
  <2>4. Moved(b, w) /\ \A f \in ParserFields \ {"index", "header", "encoded"} : w[f] = b[f]
    BY <1>1, <2>2, LetterMoves
  <2>5. \A f \in Control : v[f] = w[f]
    BY <1>1, <2>1, <2>2, LetterControl DEF Alike
  <2>6. v.req = a.req /\ w.req = b.req /\ v.state = "field"
    BY <2>3, <2>4 DEF ParserFields, Control
  <2>7. \A f \in RequestControl : v.req[f] = w.req[f]
    BY <1>1, <2>6 DEF Alike
  <2>8. Query(v, w)
    BY <2>6 DEF Query, UrlStates
  <2>9. Agree(Take(v, "field", c), Take(w, "field", c))
    BY <1>2, <2>3, <2>4, <2>5, <2>7, <2>8, TakenAgree
  <2>10. Field(a, c) = Take(v, "field", c)
    BY <1>3, <2>1, FieldIs
  <2>11. Field(b, c) = Take(w, "field", c)
    BY <1>3, <2>2, FieldIs
  <2> QED
    BY <2>9, <2>10, <2>11
<1>4. CASE c = ":"
  <2>1. Agree(Flush(Go(a, "discard_ws")), Flush(Go(b, "discard_ws")))
    BY <1>2, HandedOnTogether, TogetherAgree DEF Elsewhere
  <2>2. Field(a, c) = Flush(Go(a, "discard_ws"))
    BY <1>4, FieldIs
  <2>3. Field(b, c) = Flush(Go(b, "discard_ws"))
    BY <1>4, FieldIs
  <2> QED
    BY <2>1, <2>2, <2>3
<1>5. CASE c # ":" /\ c \notin TokenSymbols
  <2>1. Field(a, c) = Fail(a, "INVALID_HEADER_TOKEN")
    BY <1>5, FieldIs
  <2> QED
    BY <1>1, <2>1, FailAgree
<1> QED
  BY <1>3, <1>4, <1>5

\* A name begins.
Began(x, c) ==
  LET candidates == {n \in DOMAIN Names : Names[n][1] = c}
  IN [Go(x, "field") EXCEPT
        !.index = 1,
        !.header = IF candidates = {} THEN General ELSE Matching(CHOOSE n \in candidates : TRUE)]

LEMMA BeganMoves ==
  ASSUME NEW x, Shaped(x), NEW c, NEW y, y = Began(x, c)
  PROVE  /\ Moved(x, y) /\ y.state = "field" /\ y.complete = x.complete /\ y.req = x.req /\ y.errno = x.errno
         /\ \A f \in Control \ {"state", "index", "header"} : y[f] = x[f]
<1>1. PICK h : h = LET candidates == {n \in DOMAIN Names : Names[n][1] = c}
                   IN IF candidates = {} THEN General ELSE Matching(CHOOSE n \in candidates : TRUE)
  OBVIOUS
<1>2. y = [Go(x, "field") EXCEPT !.index = 1, !.header = h]
  BY <1>1, Zenon DEF Began
<1> QED
  BY <1>2 DEF Go, Moved, Shaped, ParserFields, Rest, Control

LEMMA BeganControl ==
  ASSUME NEW a, NEW b, Shaped(a), Shaped(b), \A f \in Control : a[f] = b[f], NEW c,
         NEW x, x = Began(a, c), NEW y, y = Began(b, c)
  PROVE  \A f \in Control : x[f] = y[f]
<1>1. PICK h : h = LET candidates == {n \in DOMAIN Names : Names[n][1] = c}
                   IN IF candidates = {} THEN General ELSE Matching(CHOOSE n \in candidates : TRUE)
  OBVIOUS
<1>2. x = [Go(a, "field") EXCEPT !.index = 1, !.header = h]
  BY <1>1, Zenon DEF Began
<1>3. y = [Go(b, "field") EXCEPT !.index = 1, !.header = h]
  BY <1>1, Zenon DEF Began
<1>4. x.index = 1 /\ x.header = h /\ x.state = "field" /\ \A f \in Control \ {"state", "index", "header"} : x[f] = a[f]
  BY <1>2 DEF Go, Shaped, ParserFields, Control
<1>5. y.index = 1 /\ y.header = h /\ y.state = "field" /\ \A f \in Control \ {"state", "index", "header"} : y[f] = b[f]
  BY <1>3 DEF Go, Shaped, ParserFields, Control
<1> QED
  BY <1>4, <1>5

LEMMA FieldStartIs ==
  ASSUME NEW x, NEW c
  PROVE  /\ c = "cr" => FieldStart(x, c) = Go(x, "headers_almost_done")
         /\ c = "lf" => FieldStart(x, c) = HeadersAlmostDone(x, c)
         /\ c \in TokenSymbols => FieldStart(x, c) = Take(Began(x, c), "field", c)
         /\ c \notin {"cr", "lf"} /\ c \notin TokenSymbols => FieldStart(x, c) = Fail(x, "INVALID_HEADER_TOKEN")
<1>1. FieldStart(x, c) = CASE c = "cr" -> Go(x, "headers_almost_done")
                           [] c = "lf" -> HeadersAlmostDone(x, c)
                           [] c \in TokenSymbols -> Take(Began(x, c), "field", c)
                           [] OTHER -> Fail(x, "INVALID_HEADER_TOKEN")
  BY DEF FieldStart, Began
<1>2. CASE c = "cr"
  <2>1. c # "lf" /\ c \notin TokenSymbols
    BY <1>2, Symbols
  <2> QED
    BY <1>1, <1>2, <2>1, Zenon
<1>3. CASE c = "lf"
  <2>1. c # "cr" /\ c \notin TokenSymbols
    BY <1>3, Symbols
  <2> QED
    BY <1>1, <1>3, <2>1, Zenon
<1>4. CASE c \in TokenSymbols
  <2>1. c # "cr" /\ c # "lf"
    BY <1>4, Symbols
  <2> QED
    BY <1>1, <1>4, <2>1, Zenon
<1>5. CASE c \notin {"cr", "lf"} /\ c \notin TokenSymbols
  <2>1. c # "cr" /\ c # "lf"
    BY <1>5
  <2> QED
    BY <1>1, <1>5, <2>1, Zenon
<1> QED
  BY <1>2, <1>3, <1>4, <1>5

LEMMA FieldStartFine ==
  ASSUME NEW x, Going(x), x.mark = "none", NEW c
  PROVE  Fine(x, FieldStart(x, c))
<1>1. Fine(x, Go(x, "headers_almost_done"))
  BY GoFine DEF Elsewhere
<1>2. Fine(x, HeadersAlmostDone(x, c))
  BY HeadersAlmostDoneFine
<1>3. Fine(x, Take(Began(x, c), "field", c))
  <2>1. PICK z : z = Began(x, c)
    OBVIOUS
  <2>2. Moved(x, z) /\ z.state = "field" /\ z.complete = x.complete /\ z.req = x.req
    BY <2>1, BeganMoves DEF Going
  <2>3. "field" \in Reading /\ "field" \notin BeforeTarget /\ "field" \notin UrlStates /\ MarkOf("field") = "field"
    BY DEF Reading, BeforeTarget, UrlStates, MarkOf
  <2> QED
    BY <2>1, <2>2, <2>3, MovedAndTaken
<1>4. Fine(x, Fail(x, "INVALID_HEADER_TOKEN"))
  BY FailFine
<1> QED
  BY <1>1, <1>2, <1>3, <1>4, FieldStartIs

LEMMA FieldStartAgree ==
  ASSUME NEW a, NEW b, Together(a, b), a.mark = "none", b.mark = "none", NEW c
  PROVE  Agree(FieldStart(a, c), FieldStart(b, c))
<1>1. Shaped(a) /\ Shaped(b) /\ Alike(a, b)
  BY DEF Together, Going, Same
<1>2. CASE c = "cr"
  <2>1. Agree(Go(a, "headers_almost_done"), Go(b, "headers_almost_done"))
    BY GoTogether, TogetherAgree DEF Elsewhere
  <2> QED
    BY <1>2, <2>1, FieldStartIs
<1>3. CASE c = "lf"
  <2>1. Agree(HeadersAlmostDone(a, c), HeadersAlmostDone(b, c))
    BY HeadersAlmostDoneAgree
  <2> QED
    BY <1>3, <2>1, FieldStartIs
<1>4. CASE c \in TokenSymbols
  <2>1. PICK v : v = Began(a, c)
    OBVIOUS
  <2>2. PICK w : w = Began(b, c)
    OBVIOUS
  <2>3. Moved(a, v) /\ v.state = "field" /\ v.req = a.req
    BY <1>1, <2>1, BeganMoves
  <2>4. Moved(b, w) /\ w.req = b.req
    BY <1>1, <2>2, BeganMoves
  <2>5. \A f \in Control : v[f] = w[f]
    BY <1>1, <2>1, <2>2, BeganControl DEF Alike
  <2>6. \A f \in RequestControl : v.req[f] = w.req[f]
    BY <1>1, <2>3, <2>4 DEF Alike
  <2>7. Query(v, w)
    BY <2>3 DEF Query, UrlStates
  <2>8. Agree(Take(v, "field", c), Take(w, "field", c))
    BY <2>3, <2>4, <2>5, <2>6, <2>7, TakenAgree
  <2>9. FieldStart(a, c) = Take(v, "field", c)
    BY <1>4, <2>1, FieldStartIs
  <2>10. FieldStart(b, c) = Take(w, "field", c)
    BY <1>4, <2>2, FieldStartIs
  <2> QED
    BY <2>8, <2>9, <2>10
<1>5. CASE c \notin {"cr", "lf"} /\ c \notin TokenSymbols
  <2>1. FieldStart(a, c) = Fail(a, "INVALID_HEADER_TOKEN")
    BY <1>5, FieldStartIs
  <2> QED
    BY <1>1, <2>1, FailAgree
<1> QED
  BY <1>2, <1>3, <1>4, <1>5

-----------------------------------------------------------------------------
(* Values of headers. *)

\* Steps that set the same fields of the machine, and what they set depends on
\* the machine only.
Told(x, y) == Moved(x, y) /\ y.req = x.req /\ y.state = x.state /\ y.complete = x.complete

Upgraded(x, c) == IF c = "h" /\ x.next = "2" THEN x.flags ELSE x.flags \cup {"UPGRADE"}

LEMMA UpgradeValueSets ==
  ASSUME NEW x, Shaped(x), NEW c, NEW y, y = UpgradeValue(x, c)
  PROVE  /\ Told(x, y)
         /\ y.header = General /\ y.flags = Upgraded(x, c)
         /\ \A f \in Control \ {"header", "flags"} : y[f] = x[f]
         /\ c = "h" /\ x.next = "" => y.cut
<1>1. PICK z : z = IF c = "h" /\ x.next = "2" THEN x ELSE Raise(x, "UPGRADE")
  OBVIOUS
<1>2. /\ DOMAIN z = ParserFields /\ \A f \in ParserFields \ {"flags"} : z[f] = x[f]
      /\ z.flags = IF c = "h" /\ x.next = "2" THEN x.flags ELSE x.flags \cup {"UPGRADE"}
  BY <1>1 DEF Raise, Shaped, ParserFields, Control
<1>3. PICK new : new = (z.cut \/ (c = "h" /\ x.next = ""))
  OBVIOUS
<1>4. y = [z EXCEPT !.header = General, !.cut = new]
  BY <1>1, <1>3 DEF UpgradeValue
<1>5. DOMAIN y = ParserFields /\ y.header = General /\ y.cut = new /\ \A f \in ParserFields \ {"header", "cut"} : y[f] = z[f]
  BY <1>2, <1>4 DEF ParserFields, Control
<1>6. Moved(x, y)
  BY <1>2, <1>3, <1>5 DEF Moved, Shaped, ParserFields, Rest, Control
<1> QED
  BY <1>2, <1>3, <1>5, <1>6 DEF Told, Upgraded, ParserFields, Control

LEMMA UpgradeValueMoves ==
  ASSUME NEW x, Shaped(x), NEW c, NEW y, y = UpgradeValue(x, c)
  PROVE  Told(x, y)
BY UpgradeValueSets

LEMMA UpgradeValueControl ==
  ASSUME NEW a, NEW b, Shaped(a), Shaped(b), SameControl(a, b), NEW c, Upgraded(a, c) = Upgraded(b, c),
         NEW x, x = UpgradeValue(a, c), NEW y, y = UpgradeValue(b, c)
  PROVE  SameControl(x, y)
<1>1. PICK u, v : /\ u = (IF c = "h" /\ a.next = "2" THEN a ELSE Raise(a, "UPGRADE"))
                  /\ v = (IF c = "h" /\ b.next = "2" THEN b ELSE Raise(b, "UPGRADE"))
  OBVIOUS
<1>2. u.flags = Upgraded(a, c) /\ DOMAIN u = ParserFields /\ \A f \in ParserFields \ {"flags"} : u[f] = a[f]
  BY <1>1 DEF Raise, Upgraded, Shaped, ParserFields, Control
<1>3. v.flags = Upgraded(b, c) /\ DOMAIN v = ParserFields /\ \A f \in ParserFields \ {"flags"} : v[f] = b[f]
  BY <1>1 DEF Raise, Upgraded, Shaped, ParserFields, Control
<1>4. SameControl(u, v)
  BY <1>2, <1>3 DEF SameControl, ParserFields
<1>5. PICK i, j : /\ i = (u.cut \/ (c = "h" /\ a.next = ""))
                  /\ j = (v.cut \/ (c = "h" /\ b.next = ""))
  OBVIOUS
<1>6. x = [u EXCEPT !.header = General, !.cut = i] /\ y = [v EXCEPT !.header = General, !.cut = j]
  BY <1>1, <1>5 DEF UpgradeValue
<1>7. x.header = General /\ \A f \in ParserFields \ {"header", "cut"} : x[f] = u[f]
  BY <1>2, <1>6 DEF ParserFields, Control
<1>8. y.header = General /\ \A f \in ParserFields \ {"header", "cut"} : y[f] = v[f]
  BY <1>3, <1>6 DEF ParserFields, Control
<1> QED
  BY <1>4, <1>7, <1>8 DEF SameControl, ParserFields, Control

FirstDigit(x, c) == [Raise(x, "CONTENTLENGTH") EXCEPT !.length = Value[c], !.header = <<"number">>]

LEMMA LengthValueIs ==
  ASSUME NEW x, NEW c, NEW twice, twice = ("CONTENTLENGTH" \in x.flags)
  PROVE  /\ c \notin Digits => LengthValue(x, c) = Fail(x, "INVALID_CONTENT_LENGTH")
         /\ c \in Digits /\ twice => LengthValue(x, c) = Fail(x, "UNEXPECTED_CONTENT_LENGTH")
         /\ c \in Digits /\ ~twice => LengthValue(x, c) = FirstDigit(x, c)
<1>1. LengthValue(x, c) =
        CASE c \notin Digits -> Fail(x, "INVALID_CONTENT_LENGTH")
          [] c \in Digits /\ "CONTENTLENGTH" \in x.flags -> Fail(x, "UNEXPECTED_CONTENT_LENGTH")
          [] OTHER -> FirstDigit(x, c)
  BY DEF LengthValue, FirstDigit
<1>2. CASE c \notin Digits
  BY <1>1, <1>2, Zenon
<1>3. CASE c \in Digits /\ twice
  BY <1>1, <1>3, Zenon
<1>4. CASE c \in Digits /\ ~twice
  BY <1>1, <1>4, Zenon
<1> QED
  BY <1>2, <1>3, <1>4

LEMMA LengthValueMoves ==
  ASSUME NEW x, Shaped(x), NEW c, NEW y, y = LengthValue(x, c)
  PROVE  Told(x, y)
<1>1. ASSUME NEW e, NEW z, z = Fail(x, e) PROVE Told(x, z)
  BY <1>1, FailMoves DEF Told, ParserFields, Control
<1>2. ASSUME NEW z, z = FirstDigit(x, c) PROVE Told(x, z)
  BY <1>2 DEF FirstDigit, Told, Raise, Moved, Shaped, ParserFields, Rest, Control
<1>3. PICK twice : twice = ("CONTENTLENGTH" \in x.flags)
  OBVIOUS
<1> QED
  BY <1>1, <1>2, <1>3, LengthValueIs

LEMMA LengthValueControl ==
  ASSUME NEW a, NEW b, Shaped(a), Shaped(b), SameControl(a, b), NEW c,
         NEW x, x = LengthValue(a, c), NEW y, y = LengthValue(b, c)
  PROVE  SameControl(x, y)
<1>1. a.flags = b.flags
  BY DEF SameControl, Control
<1>2. PICK twice : twice = ("CONTENTLENGTH" \in a.flags)
  OBVIOUS
<1>3. ASSUME NEW e, x = Fail(a, e), y = Fail(b, e) PROVE SameControl(x, y)
  <2>1. x.errno = e /\ \A f \in ParserFields \ {"errno"} : x[f] = a[f]
    BY <1>3, FailMoves
  <2>2. y.errno = e /\ \A f \in ParserFields \ {"errno"} : y[f] = b[f]
    BY <1>3, FailMoves
  <2> QED
    BY <2>1, <2>2 DEF SameControl, ParserFields
<1>4. CASE c \in Digits /\ ~twice
  <2>1. x = FirstDigit(a, c)
    BY <1>2, <1>4, LengthValueIs
  <2>2. y = FirstDigit(b, c)
    BY <1>1, <1>2, <1>4, LengthValueIs
  <2>3. /\ x.length = Value[c] /\ x.header = <<"number">> /\ x.flags = a.flags \cup {"CONTENTLENGTH"}
        /\ \A f \in Control \ {"length", "header", "flags"} : x[f] = a[f]
    BY <2>1 DEF FirstDigit, Raise, Shaped, ParserFields, Control
  <2>4. /\ y.length = Value[c] /\ y.header = <<"number">> /\ y.flags = b.flags \cup {"CONTENTLENGTH"}
        /\ \A f \in Control \ {"length", "header", "flags"} : y[f] = b[f]
    BY <2>2 DEF FirstDigit, Raise, Shaped, ParserFields, Control
  <2> QED
    BY <1>1, <2>3, <2>4 DEF SameControl
<1>5. CASE c \notin Digits
  BY <1>2, <1>3, <1>5, <1>1, LengthValueIs
<1>6. CASE c \in Digits /\ twice
  BY <1>2, <1>3, <1>6, <1>1, LengthValueIs
<1> QED
  BY <1>4, <1>5, <1>6

LEMMA HeaderOnlyMoves ==
  ASSUME NEW x, Shaped(x), NEW h, NEW y, y = [x EXCEPT !.header = h]
  PROVE  Told(x, y)
BY DEF Told, Moved, Shaped, ParserFields, Rest, Control

LEMMA HeaderOnlyControl ==
  ASSUME NEW a, NEW b, Shaped(a), Shaped(b), SameControl(a, b), NEW h,
         NEW x, x = [a EXCEPT !.header = h], NEW y, y = [b EXCEPT !.header = h]
  PROVE  SameControl(x, y)
<1>1. x.header = h /\ \A f \in ParserFields \ {"header"} : x[f] = a[f]
  BY HeaderSet
<1>2. y.header = h /\ \A f \in ParserFields \ {"header"} : y[f] = b[f]
  BY HeaderSet
<1> QED
  BY <1>1, <1>2 DEF SameControl, ParserFields

LEMMA ConnectionValueMoves ==
  ASSUME NEW x, Shaped(x), NEW c, NEW y, y = ConnectionValue(x, c)
  PROVE  Told(x, y)
<1>1. PICK h : h = CASE c = "keep" -> Matching("keep") [] c = "clo" -> Matching("close") [] c = " " -> x.header
                     [] OTHER -> General
  OBVIOUS
<1>2. y = [x EXCEPT !.header = h]
  BY <1>1, Zenon DEF ConnectionValue
<1> QED
  BY <1>2, HeaderOnlyMoves

LEMMA ConnectionValueControl ==
  ASSUME NEW a, NEW b, Shaped(a), Shaped(b), SameControl(a, b), NEW c,
         NEW x, x = ConnectionValue(a, c), NEW y, y = ConnectionValue(b, c)
  PROVE  SameControl(x, y)
<1>1. a.header = b.header
  BY DEF SameControl, Control
<1>2. PICK h : h = CASE c = "keep" -> Matching("keep") [] c = "clo" -> Matching("close") [] c = " " -> a.header
                     [] OTHER -> General
  OBVIOUS
<1>3. x = [a EXCEPT !.header = h]
  BY <1>2, Zenon DEF ConnectionValue
<1>4. y = [b EXCEPT !.header = h]
  BY <1>1, <1>2, Zenon DEF ConnectionValue
<1> QED
  BY <1>3, <1>4, HeaderOnlyControl

Coding(x, c) == [x EXCEPT !.header = IF c = "chun" THEN Matching("chunked") ELSE <<"coding">>]

\* What the first symbol of a value tells of the header.
FirstTold(x, c) ==
  CASE x.header = Named("upgrade") -> UpgradeValue(x, c)
    [] x.header = Named("encoding") -> Coding(x, c)
    [] x.header = Named("length") -> LengthValue(x, c)
    [] x.header = Named("connection") -> ConnectionValue(x, c)
    [] x.header \in {<<"coding start">>, <<"number done">>} -> x
    [] OTHER -> [x EXCEPT !.header = General]

LEMMA FirstToldIs ==
  ASSUME NEW x, NEW c
  PROVE  /\ x.header = Named("upgrade") => FirstTold(x, c) = UpgradeValue(x, c)
         /\ x.header = Named("encoding") => FirstTold(x, c) = Coding(x, c)
         /\ x.header = Named("length") => FirstTold(x, c) = LengthValue(x, c)
         /\ x.header = Named("connection") => FirstTold(x, c) = ConnectionValue(x, c)
         /\ x.header \in {<<"coding start">>, <<"number done">>} => FirstTold(x, c) = x
         /\ x.header \notin {Named("upgrade"), Named("encoding"), Named("length"), Named("connection"),
                             <<"coding start">>, <<"number done">>} => FirstTold(x, c) = [x EXCEPT !.header = General]
<1>1. PICK h : h = x.header
  OBVIOUS
<1>2. PICK u, e, l, n, s : /\ u = Named("upgrade") /\ e = Named("encoding") /\ l = Named("length")
                           /\ n = Named("connection") /\ s = {<<"coding start">>, <<"number done">>}
  OBVIOUS
<1>3. u # e /\ u # l /\ u # n /\ e # l /\ e # n /\ l # n /\ u \notin s /\ e \notin s /\ l \notin s /\ n \notin s
  BY <1>2 DEF Named
<1>4. FirstTold(x, c) =
        CASE h = u -> UpgradeValue(x, c) [] h = e -> Coding(x, c) [] h = l -> LengthValue(x, c)
          [] h = n -> ConnectionValue(x, c) [] h \in s -> x [] OTHER -> [x EXCEPT !.header = General]
  BY <1>1, <1>2, Zenon DEF FirstTold
<1>5. CASE h = u
  <2>1. h # e /\ h # l /\ h # n /\ h \notin s
    BY <1>3, <1>5
  <2> QED
    BY <1>1, <1>2, <1>3, <1>4, <1>5, <2>1, Zenon
<1>6. CASE h = e
  <2>1. h # u /\ h # l /\ h # n /\ h \notin s
    BY <1>3, <1>6
  <2> QED
    BY <1>1, <1>2, <1>3, <1>4, <1>6, <2>1, Zenon
<1>7. CASE h = l
  <2>1. h # u /\ h # e /\ h # n /\ h \notin s
    BY <1>3, <1>7
  <2> QED
    BY <1>1, <1>2, <1>3, <1>4, <1>7, <2>1, Zenon
<1>8. CASE h = n
  <2>1. h # u /\ h # e /\ h # l /\ h \notin s
    BY <1>3, <1>8
  <2> QED
    BY <1>1, <1>2, <1>3, <1>4, <1>8, <2>1, Zenon
<1>9. CASE h \in s
  <2>1. h # u /\ h # e /\ h # l /\ h # n
    BY <1>3, <1>9
  <2> QED
    BY <1>1, <1>2, <1>3, <1>4, <1>9, <2>1, Zenon
<1>10. CASE h \notin s /\ h # u /\ h # e /\ h # l /\ h # n
  BY <1>1, <1>2, <1>4, <1>10, Zenon
<1> QED
  BY <1>5, <1>6, <1>7, <1>8, <1>9, <1>10

LEMMA FirstToldMoves ==
  ASSUME NEW x, Shaped(x), NEW c, NEW y, y = FirstTold(x, c)
  PROVE  Told(x, y)
<1>1. CASE x.header = Named("upgrade")
  BY <1>1, FirstToldIs, UpgradeValueMoves
<1>2. CASE x.header = Named("encoding")
  <2>1. y = Coding(x, c)
    BY <1>2, FirstToldIs
  <2> QED
    BY <2>1, HeaderOnlyMoves DEF Coding
<1>3. CASE x.header = Named("length")
  BY <1>3, FirstToldIs, LengthValueMoves
<1>4. CASE x.header = Named("connection")
  BY <1>4, FirstToldIs, ConnectionValueMoves
<1>5. CASE x.header \in {<<"coding start">>, <<"number done">>}
  <2>1. y = x
    BY <1>5, FirstToldIs
  <2> QED
    BY <2>1 DEF Told, Moved, Shaped
<1>6. CASE x.header \notin {Named("upgrade"), Named("encoding"), Named("length"), Named("connection"),
                            <<"coding start">>, <<"number done">>}
  BY <1>6, FirstToldIs, HeaderOnlyMoves
<1> QED
  BY <1>1, <1>2, <1>3, <1>4, <1>5, <1>6

\* Alike, unless "h" was the last symbol of a read and both know another next.
LEMMA FirstToldControl ==
  ASSUME NEW a, NEW b, Shaped(a), Shaped(b), SameControl(a, b), NEW c,
         a.next = b.next \/ a.next = "" \/ b.next = "",
         NEW x, x = FirstTold(a, c), NEW y, y = FirstTold(b, c)
  PROVE  x.cut \/ y.cut \/ SameControl(x, y)
<1>0. \A f \in Control : a[f] = b[f]
  BY DEF SameControl
<1>1. a.header = b.header /\ a.flags = b.flags
  BY DEF SameControl, Control
<1>2. CASE a.header = Named("upgrade")
  <2>1. x = UpgradeValue(a, c)
    BY <1>2, FirstToldIs
  <2>2. y = UpgradeValue(b, c)
    BY <1>1, <1>2, FirstToldIs
  <2>3. c = "h" /\ a.next = "" => x.cut
    BY <2>1, UpgradeValueSets
  <2>4. c = "h" /\ b.next = "" => y.cut
    BY <2>2, UpgradeValueSets
  <2>5. CASE c = "h" /\ (a.next = "" \/ b.next = "")
    BY <2>3, <2>4, <2>5
  <2>6. CASE c # "h" \/ a.next = b.next
    <3>1. Upgraded(a, c) = Upgraded(b, c)
      BY <1>1, <2>6 DEF Upgraded
    <3> QED
      BY <2>1, <2>2, <3>1, UpgradeValueControl
  <2> QED
    BY <2>5, <2>6
<1>3. CASE a.header = Named("encoding")
  <2>1. x = Coding(a, c)
    BY <1>3, FirstToldIs
  <2>2. y = Coding(b, c)
    BY <1>1, <1>3, FirstToldIs
  <2>3. PICK h : h = IF c = "chun" THEN Matching("chunked") ELSE <<"coding">>
    OBVIOUS
  <2>4. x = [a EXCEPT !.header = h] /\ y = [b EXCEPT !.header = h]
    BY <2>1, <2>2, <2>3, Zenon DEF Coding
  <2> QED
    BY <2>4, HeaderOnlyControl
<1>4. CASE a.header = Named("length")
  <2>1. x = LengthValue(a, c)
    BY <1>4, FirstToldIs
  <2>2. y = LengthValue(b, c)
    BY <1>1, <1>4, FirstToldIs
  <2> QED
    BY <2>1, <2>2, LengthValueControl
<1>5. CASE a.header = Named("connection")
  <2>1. x = ConnectionValue(a, c)
    BY <1>5, FirstToldIs
  <2>2. y = ConnectionValue(b, c)
    BY <1>1, <1>5, FirstToldIs
  <2> QED
    BY <2>1, <2>2, ConnectionValueControl
<1>6. CASE a.header \in {<<"coding start">>, <<"number done">>}
  <2>1. x = a
    BY <1>6, FirstToldIs
  <2>2. y = b
    BY <1>1, <1>6, FirstToldIs
  <2> QED
    BY <2>1, <2>2
<1>7. CASE a.header \notin {Named("upgrade"), Named("encoding"), Named("length"), Named("connection"),
                            <<"coding start">>, <<"number done">>}
  <2>1. x = [a EXCEPT !.header = General]
    BY <1>7, FirstToldIs
  <2>2. y = [b EXCEPT !.header = General]
    BY <1>1, <1>7, FirstToldIs
  <2> QED
    BY <2>1, <2>2, HeaderOnlyControl
<1> QED
  BY <1>2, <1>3, <1>4, <1>5, <1>6, <1>7

\* A value begins.
Entered(x) == [Go(x, "value") EXCEPT !.index = 1]

LEMMA ValueStartIs ==
  ASSUME NEW x, Shaped(x), NEW c
  PROVE  ValueStart(x, c) = Take(FirstTold(Entered(x), c), "value", c)
<1>1. PICK y : y = Entered(x)
  OBVIOUS
<1>2. y.header = x.header
  BY <1>1 DEF Entered, Go, Shaped, ParserFields, Control
<1>3. ValueStart(x, c) =
        Take(CASE x.header = Named("upgrade") -> UpgradeValue(y, c)
               [] x.header = Named("encoding") -> Coding(y, c)
               [] x.header = Named("length") -> LengthValue(y, c)
               [] x.header = Named("connection") -> ConnectionValue(y, c)
               [] x.header \in {<<"coding start">>, <<"number done">>} -> y
               [] OTHER -> [y EXCEPT !.header = General],
             "value", c)
  BY <1>1, Zenon DEF ValueStart, Entered, Coding
<1> QED
  BY <1>1, <1>2, <1>3, Zenon DEF FirstTold

LEMMA EnteredMoves ==
  ASSUME NEW x, Shaped(x), NEW y, y = Entered(x)
  PROVE  /\ Moved(x, y) /\ y.state = "value" /\ y.req = x.req /\ y.complete = x.complete /\ y.next = x.next
         /\ y.index = 1 /\ \A f \in Control \ {"state", "index"} : y[f] = x[f]
BY DEF Entered, Go, Moved, Shaped, ParserFields, Rest, Control

LEMMA MovedTwice ==
  ASSUME NEW x, NEW y, NEW z, Moved(x, y), Moved(y, z)
  PROVE  Moved(x, z)
BY DEF Moved

LEMMA ValueStartFine ==
  ASSUME NEW x, Going(x), x.mark = "none", NEW c
  PROVE  Fine(x, ValueStart(x, c))
<1>1. PICK y : y = Entered(x)
  OBVIOUS
<1>2. Moved(x, y) /\ y.state = "value" /\ y.req = x.req /\ y.complete = x.complete
  BY <1>1, EnteredMoves DEF Going
<1>3. PICK z : z = FirstTold(y, c)
  OBVIOUS
<1>4. Told(y, z)
  <2>1. Shaped(y)
    BY <1>2, MovedKeeps DEF Going, Kept
  <2> QED
    BY <1>3, <2>1, FirstToldMoves
<1>5. Moved(x, z) /\ z.state = "value" /\ z.req = x.req /\ z.complete = x.complete
  BY <1>2, <1>4, MovedTwice DEF Told
<1>6. "value" \in Reading /\ "value" \notin BeforeTarget /\ "value" \notin UrlStates
  BY DEF Reading, BeforeTarget, UrlStates
<1>7. Fine(x, Take(z, "value", c))
  BY <1>5, <1>6, MarkOfs, MovedAndTaken
<1> QED
  BY <1>1, <1>3, <1>7, ValueStartIs DEF Going

LEMMA ValueStartAgree ==
  ASSUME NEW a, NEW b, Together(a, b), a.mark = "none", b.mark = "none", NEW c
  PROVE  Agree(ValueStart(a, c), ValueStart(b, c))
<1>1. Shaped(a) /\ Shaped(b) /\ Alike(a, b) /\ (a.next = b.next \/ a.next = "" \/ b.next = "")
  BY DEF Together, Going, Same
<1>2. PICK i : i = Entered(a)
  OBVIOUS
<1>3. PICK j : j = Entered(b)
  OBVIOUS
<1>4. /\ Moved(a, i) /\ i.state = "value" /\ i.req = a.req /\ i.next = a.next
      /\ i.index = 1 /\ \A f \in Control \ {"state", "index"} : i[f] = a[f]
  BY <1>1, <1>2, EnteredMoves
<1>5. /\ Moved(b, j) /\ j.state = "value" /\ j.req = b.req /\ j.next = b.next
      /\ j.index = 1 /\ \A f \in Control \ {"state", "index"} : j[f] = b[f]
  BY <1>1, <1>3, EnteredMoves
<1>6. SameControl(i, j)
  BY <1>1, <1>4, <1>5 DEF Alike, SameControl
<1>7. Shaped(i)
  BY <1>1, <1>4, MovedKeeps DEF Kept
<1>8. Shaped(j)
  BY <1>1, <1>5, MovedKeeps DEF Kept
<1>9. PICK v : v = FirstTold(i, c)
  OBVIOUS
<1>10. PICK w : w = FirstTold(j, c)
  OBVIOUS
<1>11. Told(i, v)
  BY <1>7, <1>9, FirstToldMoves
<1>12. Told(j, w)
  BY <1>8, <1>10, FirstToldMoves
<1>13. Moved(a, v) /\ v.req = a.req /\ v.state = "value"
  BY <1>4, <1>11, MovedTwice DEF Told
<1>14. Moved(b, w) /\ w.req = b.req
  BY <1>5, <1>12, MovedTwice DEF Told
<1>15. v.cut \/ w.cut \/ SameControl(v, w)
  <2>1. i.next = j.next \/ i.next = "" \/ j.next = ""
    BY <1>1, <1>4, <1>5
  <2> QED
    BY <1>6, <1>7, <1>8, <1>9, <1>10, <2>1, FirstToldControl
<1>16. PICK x : x = Take(v, "value", c)
  OBVIOUS
<1>17. PICK y : y = Take(w, "value", c)
  OBVIOUS
<1>18. CASE SameControl(v, w)
  <2>1. \A f \in RequestControl : v.req[f] = w.req[f]
    BY <1>1, <1>13, <1>14 DEF Alike
  <2>2. Query(v, w)
    BY <1>13 DEF Query, UrlStates
  <2>3. Agree(x, y)
    BY <1>13, <1>14, <1>16, <1>17, <1>18, <2>1, <2>2, TakenAgree DEF SameControl
  <2> QED
    BY <1>1, <1>2, <1>3, <1>9, <1>10, <1>16, <1>17, <2>3, ValueStartIs
<1>19. CASE v.cut \/ w.cut
  <2>1. Shaped(v)
    BY <1>1, <1>13, MovedKeeps DEF Kept
  <2>2. Shaped(w)
    BY <1>1, <1>14, MovedKeeps DEF Kept
  <2>3. x.cut = v.cut
    BY <1>16, <2>1, TakeKeeps DEF ParserFields
  <2>4. y.cut = w.cut
    BY <1>17, <2>2, TakeKeeps DEF ParserFields
  <2>5. Agree(x, y)
    BY <1>19, <2>3, <2>4 DEF Agree, Apart
  <2> QED
    BY <1>1, <1>2, <1>3, <1>9, <1>10, <1>16, <1>17, <2>5, ValueStartIs
<1> QED
  BY <1>15, <1>18, <1>19

-----------------------------------------------------------------------------
(* The spaces before a value, and the line after it. *)

\* A value without a letter.
Empty(x) == [Go(x, "field_start") EXCEPT !.mark = "value"]

LEMMA EmptyMarked ==
  ASSUME NEW x, Shaped(x), x.mark = "none", NEW y, y = Empty(x)
  PROVE  /\ Shaped(y) /\ y.mark = "value" /\ y.text = <<>> /\ y.state = "field_start"
         /\ \A f \in ParserFields \ {"state", "mark"} : y[f] = x[f]
         /\ HeaderHeld(y) = <<0, x.field, IF x.building = 0 THEN x.value ELSE <<>>, x.req.headers>>
<1>1. /\ DOMAIN y = ParserFields /\ y.mark = "value" /\ y.state = "field_start"
      /\ \A f \in ParserFields \ {"state", "mark"} : y[f] = x[f]
  BY DEF Empty, Go, Shaped, ParserFields, Rest, Control
<1>2. /\ y.text = <<>> /\ y.text = x.text /\ y.req = x.req /\ y.field = x.field /\ y.value = x.value
      /\ y.handled = x.handled /\ y.p = x.p /\ y.start = x.start /\ y.building = x.building
  BY <1>1 DEF Shaped, ParserFields, Rest
<1>3. Shaped(y)
  BY <1>1, <1>2 DEF Shaped
<1>4. x.value \o <<>> = x.value
  BY ConcatEmpty DEF Shaped
<1>5. HeaderHeld(y) = ValueHeld(y)
  BY <1>1 DEF HeaderHeld
<1>6. CASE x.building = 0
  BY <1>1, <1>2, <1>3, <1>4, <1>5, <1>6 DEF ValueHeld
<1>7. CASE x.building # 0
  BY <1>1, <1>2, <1>3, <1>5, <1>7 DEF ValueHeld
<1> QED
  BY <1>6, <1>7

LEMMA EmptyAlike ==
  ASSUME NEW a, NEW b, Shaped(a), Shaped(b), Alike(a, b), a.mark = "none", b.mark = "none",
         NEW x, x = Empty(a), NEW y, y = Empty(b)
  PROVE  Alike(x, y)
<1>1. /\ Shaped(x) /\ x.mark = "value" /\ x.state = "field_start"
      /\ \A f \in ParserFields \ {"state", "mark"} : x[f] = a[f]
      /\ HeaderHeld(x) = <<0, a.field, IF a.building = 0 THEN a.value ELSE <<>>, a.req.headers>>
  BY EmptyMarked
<1>2. /\ Shaped(y) /\ y.mark = "value" /\ y.state = "field_start"
      /\ \A f \in ParserFields \ {"state", "mark"} : y[f] = b[f]
      /\ HeaderHeld(y) = <<0, b.field, IF b.building = 0 THEN b.value ELSE <<>>, b.req.headers>>
  BY EmptyMarked
<1>3. a.building = b.building /\ a.field = b.field /\ a.value = b.value /\ a.req.headers = b.req.headers
  BY DEF Alike, HeaderHeld
<1>4. HeaderHeld(x) = HeaderHeld(y)
  BY <1>1, <1>2, <1>3
<1>5. x.req = a.req /\ x.handled = a.handled /\ x.left = a.left
  BY <1>1 DEF ParserFields, Rest
<1>6. y.req = b.req /\ y.handled = b.handled /\ y.left = b.left
  BY <1>2 DEF ParserFields, Rest
<1>7. \A f \in Control : x[f] = y[f]
  BY <1>1, <1>2 DEF Alike, ParserFields, Rest, Control
<1>8. RawHeld(x) = RawHeld(y) /\ BodyHeld(x) = BodyHeld(y)
  BY <1>1, <1>2, <1>5, <1>6 DEF Alike, RawHeld, BodyHeld
<1>9. Masks(x) = Masks(y)
  BY <1>5, <1>6 DEF Alike, Masks
<1>10. \A f \in RequestControl : x.req[f] = y.req[f]
  BY <1>5, <1>6 DEF Alike
<1> QED
  BY <1>4, <1>5, <1>6, <1>7, <1>8, <1>9, <1>10 DEF Alike

LEMMA NoValueFine ==
  ASSUME NEW x, Going(x), x.mark = "none", NEW y, y = Flush(Empty(x))
  PROVE  Fine(x, y) /\ Going(y) /\ y.mark = "none" /\ y.state = "field_start" /\ y.next = x.next
<1>1. PICK z : z = Empty(x)
  OBVIOUS
<1>2. /\ Shaped(z) /\ z.mark = "value" /\ z.state = "field_start"
      /\ \A f \in ParserFields \ {"state", "mark"} : z[f] = x[f]
  BY <1>1, EmptyMarked DEF Going
<1>3. /\ z.req = x.req /\ z.complete = x.complete /\ z.errno = x.errno /\ z.next = x.next
      /\ z.rest = x.rest /\ z.cut = x.cut /\ z.p = x.p /\ z.left = x.left
  BY <1>2 DEF ParserFields, Rest, Control
<1>4. /\ Kept(z, y) /\ y.mark = "none"
      /\ \A f \in Control \cup {"next", "qs", "start", "cut"} : y[f] = z[f]
      /\ \A f \in RequestControl \cup {"whole"} : y.req[f] = z.req[f]
  BY <1>1, <1>2, FlushKeeps
<1>5. /\ y.state = "field_start" /\ y.complete = x.complete /\ y.errno = x.errno /\ y.req.upgrade = x.req.upgrade
      /\ y.next = x.next
  BY <1>2, <1>3, <1>4 DEF Control, RequestControl
<1>6. /\ "field_start" \in Reading /\ "field_start" \notin BeforeTarget /\ "field_start" \notin UrlStates
      /\ MarkOf("field_start") = "none"
  BY DEF Elsewhere, Reading, HalfBody, BeforeTarget, UrlStates, MarkOf
<1>7. Shaped(y) /\ (x.cut => y.cut) /\ y.rest = x.rest /\ y.p = x.p /\ y.left = x.left
  BY <1>3, <1>4 DEF Kept
<1>8. Placed(y)
  BY <1>4, <1>5, <1>6, <1>7 DEF Placed, Going
<1> QED
  BY <1>4, <1>5, <1>6, <1>7, <1>8 DEF Fine, Sound, Going

LEMMA NoValueTogether ==
  ASSUME NEW a, NEW b, Together(a, b), a.mark = "none", b.mark = "none",
         NEW x, x = Flush(Empty(a)), NEW y, y = Flush(Empty(b))
  PROVE  Together(x, y)
<1>1. Going(a) /\ Going(b) /\ Shaped(a) /\ Shaped(b) /\ Alike(a, b)
  BY DEF Together, Going, Same
<1>2. Going(x) /\ x.state = "field_start" /\ x.next = a.next
  BY <1>1, NoValueFine
<1>3. Going(y) /\ y.next = b.next
  BY <1>1, NoValueFine
<1>4. PICK v : v = Empty(a)
  OBVIOUS
<1>5. PICK w : w = Empty(b)
  OBVIOUS
<1>6. Shaped(v) /\ v.mark = "value"
  BY <1>1, <1>4, EmptyMarked
<1>7. Shaped(w) /\ w.mark = "value"
  BY <1>1, <1>5, EmptyMarked
<1>8. Alike(v, w)
  BY <1>1, <1>4, <1>5, EmptyAlike
<1>9. Alike(x, y)
  BY <1>4, <1>5, <1>6, <1>7, <1>8, FlushAlike
<1>10. x.state \notin UrlStates
  BY <1>2 DEF UrlStates
<1> QED
  BY <1>2, <1>3, <1>9, <1>10 DEF Together, Same, Query

\* Two steps in one symbol.
LEMMA FieldStartAfter ==
  ASSUME NEW x, NEW y, Fine(x, y), Going(y), y.mark = "none", NEW c
  PROVE  Fine(x, FieldStart(y, c))
<1>1. Fine(y, FieldStart(y, c))
  BY FieldStartFine
<1> QED
  BY <1>1, FineTwice

LEMMA DiscardSpacesIs ==
  ASSUME NEW x, NEW c
  PROVE  /\ x.state = "discard_ws" =>
              /\ c = " " => DiscardSpaces(x, c) = x
              /\ c = "cr" => DiscardSpaces(x, c) = Go(x, "discard_ws_almost_done")
              /\ c = "lf" => DiscardSpaces(x, c) = Go(x, "discard_lws")
              /\ c \notin {" ", "cr", "lf"} => DiscardSpaces(x, c) = ValueStart(x, c)
         /\ x.state = "discard_ws_almost_done" =>
              DiscardSpaces(x, c) = IF c = "lf" THEN Go(x, "discard_lws") ELSE Fail(x, "STRICT")
         /\ x.state = "discard_lws" =>
              /\ c = " " => DiscardSpaces(x, c) = Go(x, "discard_ws")
              /\ c # " " => DiscardSpaces(x, c) = FieldStart(Flush(Empty(x)), c)
<1>1. PICK s : s = x.state
  OBVIOUS
<1>2. DiscardSpaces(x, c) =
        CASE s = "discard_ws" /\ c = " " -> x
          [] s = "discard_ws" /\ c = "cr" -> Go(x, "discard_ws_almost_done")
          [] s = "discard_ws" /\ c = "lf" -> Go(x, "discard_lws")
          [] s = "discard_ws" /\ c \notin {" ", "cr", "lf"} -> ValueStart(x, c)
          [] s = "discard_ws_almost_done" -> IF c = "lf" THEN Go(x, "discard_lws") ELSE Fail(x, "STRICT")
          [] s = "discard_lws" /\ c = " " -> Go(x, "discard_ws")
          [] s = "discard_lws" /\ c # " " -> FieldStart(Flush(Empty(x)), c)
  BY <1>1 DEF DiscardSpaces, Empty
<1>3. CASE s = "discard_ws" /\ c = " "
  <2>1. s # "discard_ws_almost_done" /\ s # "discard_lws" /\ c # "cr" /\ c # "lf" /\ c \in {" ", "cr", "lf"}
    BY <1>3
  <2> QED
    BY <1>1, <1>2, <1>3, <2>1, Zenon
<1>4. CASE s = "discard_ws" /\ c = "cr"
  <2>1. s # "discard_ws_almost_done" /\ s # "discard_lws" /\ c # " " /\ c # "lf" /\ c \in {" ", "cr", "lf"}
    BY <1>4
  <2> QED
    BY <1>1, <1>2, <1>4, <2>1, Zenon
<1>5. CASE s = "discard_ws" /\ c = "lf"
  <2>1. s # "discard_ws_almost_done" /\ s # "discard_lws" /\ c # " " /\ c # "cr" /\ c \in {" ", "cr", "lf"}
    BY <1>5
  <2> QED
    BY <1>1, <1>2, <1>5, <2>1, Zenon
<1>6. CASE s = "discard_ws" /\ c \notin {" ", "cr", "lf"}
  <2>1. s # "discard_ws_almost_done" /\ s # "discard_lws" /\ c # " " /\ c # "cr" /\ c # "lf"
    BY <1>6
  <2> QED
    BY <1>1, <1>2, <1>6, <2>1, Zenon
<1>7. CASE s = "discard_ws_almost_done"
  <2>1. s # "discard_ws" /\ s # "discard_lws"
    BY <1>7
  <2> QED
    BY <1>1, <1>2, <1>7, <2>1, Zenon
<1>8. CASE s = "discard_lws" /\ c = " "
  <2>1. s # "discard_ws" /\ s # "discard_ws_almost_done"
    BY <1>8
  <2> QED
    BY <1>1, <1>2, <1>8, <2>1, Zenon
<1>9. CASE s = "discard_lws" /\ c # " "
  <2>1. s # "discard_ws" /\ s # "discard_ws_almost_done"
    BY <1>9
  <2> QED
    BY <1>1, <1>2, <1>9, <2>1, Zenon
<1>10. CASE s \notin {"discard_ws", "discard_ws_almost_done", "discard_lws"}
  BY <1>1, <1>10
<1> QED
  BY <1>1, <1>3, <1>4, <1>5, <1>6, <1>7, <1>8, <1>9, <1>10

LEMMA DiscardSpacesFine ==
  ASSUME NEW x, Going(x), x.state \in {"discard_ws", "discard_ws_almost_done", "discard_lws"}, NEW c
  PROVE  Fine(x, DiscardSpaces(x, c))
<1>1. x.mark = "none"
  BY NothingMarked DEF Elsewhere
<1>2. Fine(x, x)
  BY DEF Fine, Sound, Going
<1>3. \A s \in {"discard_ws_almost_done", "discard_lws", "discard_ws"} : Fine(x, Go(x, s))
  BY <1>1, GoFine DEF Elsewhere
<1>4. Fine(x, ValueStart(x, c))
  BY <1>1, ValueStartFine
<1>5. Fine(x, IF c = "lf" THEN Go(x, "discard_lws") ELSE Fail(x, "STRICT"))
  BY <1>1, AlmostDoneFine DEF Elsewhere
<1>6. Fine(x, FieldStart(Flush(Empty(x)), c))
  <2>1. PICK y : y = Flush(Empty(x))
    OBVIOUS
  <2>2. Fine(x, y) /\ Going(y) /\ y.mark = "none"
    BY <1>1, <2>1, NoValueFine
  <2> QED
    BY <2>1, <2>2, FieldStartAfter
<1>7. CASE x.state = "discard_ws"
  BY <1>2, <1>3, <1>4, <1>7, DiscardSpacesIs
<1>8. CASE x.state = "discard_ws_almost_done"
  BY <1>5, <1>8, DiscardSpacesIs
<1>9. CASE x.state = "discard_lws"
  BY <1>3, <1>6, <1>9, DiscardSpacesIs
<1> QED
  BY <1>7, <1>8, <1>9

LEMMA DiscardSpacesAgree ==
  ASSUME NEW a, NEW b, Together(a, b), a.state \in {"discard_ws", "discard_ws_almost_done", "discard_lws"}, NEW c
  PROVE  Agree(DiscardSpaces(a, c), DiscardSpaces(b, c))
<1>1. a.mark = "none" /\ b.mark = "none" /\ b.state = a.state
  BY TogetherUnmarked DEF Elsewhere
<1>2. Agree(a, b)
  BY TogetherAgree
<1>3. \A s \in {"discard_ws_almost_done", "discard_lws", "discard_ws"} : Agree(Go(a, s), Go(b, s))
  BY <1>1, GoTogether, TogetherAgree DEF Elsewhere
<1>4. Agree(ValueStart(a, c), ValueStart(b, c))
  BY <1>1, ValueStartAgree
<1>5. Agree(IF c = "lf" THEN Go(a, "discard_lws") ELSE Fail(a, "STRICT"),
            IF c = "lf" THEN Go(b, "discard_lws") ELSE Fail(b, "STRICT"))
  BY <1>1, AlmostDoneAgree DEF Elsewhere
<1>6. Agree(FieldStart(Flush(Empty(a)), c), FieldStart(Flush(Empty(b)), c))
  <2>1. PICK x : x = Flush(Empty(a))
    OBVIOUS
  <2>2. PICK y : y = Flush(Empty(b))
    OBVIOUS
  <2>3. Together(x, y)
    BY <1>1, <2>1, <2>2, NoValueTogether
  <2>4. x.mark = "none"
    BY <1>1, <2>1, NoValueFine DEF Together
  <2>5. y.mark = "none"
    BY <1>1, <2>2, NoValueFine DEF Together
  <2> QED
    BY <2>1, <2>2, <2>3, <2>4, <2>5, FieldStartAgree
<1>7. CASE a.state = "discard_ws"
  <2>1. CASE c = " "
    BY <1>1, <1>2, <1>7, <2>1, DiscardSpacesIs
  <2>2. CASE c = "cr"
    BY <1>1, <1>3, <1>7, <2>2, DiscardSpacesIs
  <2>3. CASE c = "lf"
    BY <1>1, <1>3, <1>7, <2>3, DiscardSpacesIs
  <2>4. CASE c \notin {" ", "cr", "lf"}
    BY <1>1, <1>4, <1>7, <2>4, DiscardSpacesIs
  <2> QED
    BY <2>1, <2>2, <2>3, <2>4
<1>8. CASE a.state = "discard_ws_almost_done"
  BY <1>1, <1>5, <1>8, DiscardSpacesIs
<1>9. CASE a.state = "discard_lws"
  <2>1. CASE c = " "
    BY <1>1, <1>3, <1>9, <2>1, DiscardSpacesIs
  <2>2. CASE c # " "
    BY <1>1, <1>6, <1>9, <2>2, DiscardSpacesIs
  <2> QED
    BY <2>1, <2>2
<1> QED
  BY <1>7, <1>8, <1>9

-----------------------------------------------------------------------------
(* Inside a value. *)

LEMMA FailTold ==
  ASSUME NEW x, Shaped(x), NEW e, NEW y, y = Fail(x, e)
  PROVE  Told(x, y)
BY FailMoves DEF Told, ParserFields, Control

LEMMA FailControl ==
  ASSUME NEW a, NEW b, Shaped(a), Shaped(b), SameControl(a, b), NEW e, NEW x, x = Fail(a, e), NEW y, y = Fail(b, e)
  PROVE  SameControl(x, y)
<1>1. x.errno = e /\ \A f \in ParserFields \ {"errno"} : x[f] = a[f]
  BY FailMoves
<1>2. y.errno = e /\ \A f \in ParserFields \ {"errno"} : y[f] = b[f]
  BY FailMoves
<1> QED
  BY <1>1, <1>2 DEF SameControl, ParserFields

LEMMA IndexedMoves ==
  ASSUME NEW x, Shaped(x), NEW i, NEW h, NEW y, y = [x EXCEPT !.index = i, !.header = h]
  PROVE  Told(x, y)
BY DEF Told, Moved, Shaped, ParserFields, Rest, Control

LEMMA IndexedControl ==
  ASSUME NEW a, NEW b, Shaped(a), Shaped(b), SameControl(a, b), NEW i, NEW h,
         NEW x, x = [a EXCEPT !.index = i, !.header = h], NEW y, y = [b EXCEPT !.index = i, !.header = h]
  PROVE  SameControl(x, y)
<1>1. x.index = i /\ x.header = h /\ \A f \in ParserFields \ {"index", "header"} : x[f] = a[f]
  BY DEF Shaped, ParserFields, Control
<1>2. y.index = i /\ y.header = h /\ \A f \in ParserFields \ {"index", "header"} : y[f] = b[f]
  BY DEF Shaped, ParserFields, Control
<1> QED
  BY <1>1, <1>2 DEF SameControl, ParserFields

\* Another digit of a length.
NextDigit(x, c) == [x EXCEPT !.header = <<"number">>, !.length = @ * 10 + Value[c]]

Fits(x) == x.length <= (MaxLength - 10) \div 10

LEMMA NumberIs ==
  ASSUME NEW x, NEW c
  PROVE  /\ c = " " => Number(x, c) = [x EXCEPT !.header = <<"number done">>]
         /\ c \in Digits /\ Fits(x) => Number(x, c) = NextDigit(x, c)
         /\ c # " " /\ (c \notin Digits \/ ~Fits(x)) => Number(x, c) = Fail(x, "INVALID_CONTENT_LENGTH")
<1>1. Number(x, c) = CASE c = " " -> [x EXCEPT !.header = <<"number done">>]
                       [] c \in Digits /\ Fits(x) -> NextDigit(x, c)
                       [] OTHER -> Fail(x, "INVALID_CONTENT_LENGTH")
  BY Zenon DEF Number, NextDigit, Fits
<1>2. CASE c = " "
  <2>1. c \notin Digits
    BY <1>2 DEF Digits
  <2> QED
    BY <1>1, <1>2, <2>1, Zenon
<1>3. CASE c \in Digits /\ Fits(x)
  <2>1. c # " "
    BY <1>3 DEF Digits
  <2> QED
    BY <1>1, <1>3, <2>1, Zenon
<1>4. CASE c # " " /\ (c \notin Digits \/ ~Fits(x))
  BY <1>1, <1>4, Zenon
<1> QED
  BY <1>2, <1>3, <1>4

LEMMA NumberMoves ==
  ASSUME NEW x, Shaped(x), NEW c, NEW y, y = Number(x, c)
  PROVE  Told(x, y)
<1>2. CASE c = " "
  <2>1. y = [x EXCEPT !.header = <<"number done">>]
    BY <1>2, NumberIs
  <2> QED
    BY <2>1, HeaderOnlyMoves
<1>3. CASE c \in Digits /\ Fits(x)
  <2>1. y = NextDigit(x, c)
    BY <1>3, NumberIs
  <2>2. PICK n : n = x.length * 10 + Value[c]
    OBVIOUS
  <2>3. y = [x EXCEPT !.header = <<"number">>, !.length = n]
    BY <2>1, <2>2, Zenon DEF NextDigit
  <2> QED
    BY <2>3 DEF Told, Moved, Shaped, ParserFields, Rest, Control
<1>4. CASE c # " " /\ (c \notin Digits \/ ~Fits(x))
  <2>1. y = Fail(x, "INVALID_CONTENT_LENGTH")
    BY <1>4, NumberIs
  <2> QED
    BY <2>1, FailTold
<1> QED
  BY <1>2, <1>3, <1>4

LEMMA NumberControl ==
  ASSUME NEW a, NEW b, Shaped(a), Shaped(b), SameControl(a, b), NEW c,
         NEW x, x = Number(a, c), NEW y, y = Number(b, c)
  PROVE  SameControl(x, y)
<1>0. a.length = b.length
  BY DEF SameControl, Control
<1>1. Fits(a) <=> Fits(b)
  BY <1>0 DEF Fits
<1>3. CASE c = " "
  <2>1. x = [a EXCEPT !.header = <<"number done">>]
    BY <1>1, <1>3, NumberIs
  <2>2. y = [b EXCEPT !.header = <<"number done">>]
    BY <1>1, <1>3, NumberIs
  <2> QED
    BY <2>1, <2>2, HeaderOnlyControl
<1>4. CASE c \in Digits /\ Fits(a)
  <2>1. x = NextDigit(a, c)
    BY <1>1, <1>4, NumberIs
  <2>2. y = NextDigit(b, c)
    BY <1>1, <1>4, NumberIs
  <2>3. PICK n : n = a.length * 10 + Value[c]
    OBVIOUS
  <2>4. x = [a EXCEPT !.header = <<"number">>, !.length = n]
    BY <2>1, <2>3, Zenon DEF NextDigit
  <2>5. y = [b EXCEPT !.header = <<"number">>, !.length = n]
    BY <1>0, <2>2, <2>3, Zenon DEF NextDigit
  <2>6. x.header = <<"number">> /\ x.length = n /\ \A f \in ParserFields \ {"header", "length"} : x[f] = a[f]
    BY <2>4 DEF Shaped, ParserFields, Control
  <2>7. y.header = <<"number">> /\ y.length = n /\ \A f \in ParserFields \ {"header", "length"} : y[f] = b[f]
    BY <2>5 DEF Shaped, ParserFields, Control
  <2> QED
    BY <2>6, <2>7 DEF SameControl, ParserFields
<1>5. CASE c # " " /\ (c \notin Digits \/ ~Fits(a))
  <2>1. x = Fail(a, "INVALID_CONTENT_LENGTH")
    BY <1>1, <1>5, NumberIs
  <2>2. y = Fail(b, "INVALID_CONTENT_LENGTH")
    BY <1>1, <1>5, NumberIs
  <2> QED
    BY <2>1, <2>2, FailControl
<1> QED
  BY <1>3, <1>4, <1>5

\* What the next letters of a word the parser looks for make of the header.
WordHeader(w, i, c, old) ==
  CASE i > Len(Words[w]) \/ c # Words[w][i] -> IF w = "chunked" THEN <<"coding">> ELSE General
    [] i = Len(Words[w]) /\ c = Words[w][i] -> Said(w)
    [] OTHER -> old

LEMMA MatchWordMoves ==
  ASSUME NEW x, Shaped(x), NEW c, NEW y, y = MatchWord(x, c)
  PROVE  Told(x, y)
<1>1. PICK w, i, old : w = x.header[2] /\ i = x.index + 1 /\ old = x.header
  OBVIOUS
<1>2. PICK h : h = WordHeader(w, i, c, old)
  OBVIOUS
<1>3. y = [x EXCEPT !.index = i, !.header = h]
  BY <1>1, <1>2, Zenon DEF MatchWord, WordHeader
<1> QED
  BY <1>3, IndexedMoves

LEMMA MatchWordControl ==
  ASSUME NEW a, NEW b, Shaped(a), Shaped(b), SameControl(a, b), NEW c,
         NEW x, x = MatchWord(a, c), NEW y, y = MatchWord(b, c)
  PROVE  SameControl(x, y)
<1>1. PICK w, i, old : w = a.header[2] /\ i = a.index + 1 /\ old = a.header
  OBVIOUS
<1>2. w = b.header[2] /\ i = b.index + 1 /\ old = b.header
  BY <1>1 DEF SameControl, Control
<1>3. PICK h : h = WordHeader(w, i, c, old)
  OBVIOUS
<1>4. x = [a EXCEPT !.index = i, !.header = h]
  BY <1>1, <1>3, Zenon DEF MatchWord, WordHeader
<1>5. y = [b EXCEPT !.index = i, !.header = h]
  BY <1>2, <1>3, Zenon DEF MatchWord, WordHeader
<1> QED
  BY <1>4, <1>5, IndexedControl

\* The other steps inside a value.
NumberOver(x, c) == IF c = " " THEN x ELSE Fail(x, "INVALID_CONTENT_LENGTH")

CodingBegins(x, c) ==
  [x EXCEPT !.header = CASE c = "chun" -> Matching("chunked")
                         [] c # "chun" /\ c \in TokenSymbols -> <<"coding">>
                         [] c = " " -> @
                         [] OTHER -> General]

CodingOn(x, c) == IF c = "," THEN [x EXCEPT !.header = <<"coding start">>, !.index = 1] ELSE x

SaidMore(x) == [x EXCEPT !.header = IF @ = Said("chunked") THEN <<"coding">> ELSE General]

LEMMA InValueIs ==
  ASSUME NEW x, NEW c, NEW h, h = x.header
  PROVE  /\ h = <<"number">> => InValue(x, c) = Number(x, c)
         /\ h = <<"number done">> => InValue(x, c) = NumberOver(x, c)
         /\ h = <<"coding start">> => InValue(x, c) = CodingBegins(x, c)
         /\ h = <<"coding">> => InValue(x, c) = CodingOn(x, c)
         /\ h[1] = "matching" => InValue(x, c) = MatchWord(x, c)
         /\ h[1] = "said" /\ c # " " => InValue(x, c) = SaidMore(x)
         /\ h[1] = "said" /\ c = " " => InValue(x, c) = x
         /\ h \notin {<<"number">>, <<"number done">>, <<"coding start">>, <<"coding">>}
              /\ h[1] \notin {"matching", "said"} => InValue(x, c) = x
<1>1. PICK n, d, s, g : n = <<"number">> /\ d = <<"number done">> /\ s = <<"coding start">> /\ g = <<"coding">>
  OBVIOUS
<1>2. n[1] = "number" /\ d[1] = "number done" /\ s[1] = "coding start" /\ g[1] = "coding"
  BY <1>1
<1>3. PICK k : k = h[1]
  OBVIOUS
<1>4. InValue(x, c) =
        CASE h = n -> Number(x, c)
          [] h = d -> NumberOver(x, c)
          [] h = s -> CodingBegins(x, c)
          [] h = g -> CodingOn(x, c)
          [] k = "matching" -> MatchWord(x, c)
          [] k = "said" /\ c # " " -> SaidMore(x)
          [] OTHER -> x
  BY <1>1, <1>3 DEF InValue, NumberOver, CodingBegins, CodingOn, SaidMore
<1>5. CASE h = n
  <2>1. h # d /\ h # s /\ h # g /\ k # "matching" /\ k # "said"
    BY <1>2, <1>3, <1>5
  <2> QED
    BY <1>1, <1>3, <1>4, <1>5, <2>1
<1>6. CASE h = d
  <2>1. h # n /\ h # s /\ h # g /\ k # "matching" /\ k # "said"
    BY <1>2, <1>3, <1>6
  <2> QED
    BY <1>1, <1>3, <1>4, <1>6, <2>1
<1>7. CASE h = s
  <2>1. h # n /\ h # d /\ h # g /\ k # "matching" /\ k # "said"
    BY <1>2, <1>3, <1>7
  <2> QED
    BY <1>1, <1>3, <1>4, <1>7, <2>1
<1>8. CASE h = g
  <2>1. h # n /\ h # d /\ h # s /\ k # "matching" /\ k # "said"
    BY <1>2, <1>3, <1>8
  <2> QED
    BY <1>1, <1>3, <1>4, <1>8, <2>1
<1>9. CASE k = "matching"
  <2>1. h # n /\ h # d /\ h # s /\ h # g /\ k # "said"
    BY <1>2, <1>3, <1>9
  <2> QED
    BY <1>1, <1>3, <1>4, <1>9, <2>1
<1>10. CASE k = "said"
  <2>1. h # n /\ h # d /\ h # s /\ h # g /\ k # "matching"
    BY <1>2, <1>3, <1>10
  <2> QED
    BY <1>1, <1>3, <1>4, <1>10, <2>1
<1>11. CASE h # n /\ h # d /\ h # s /\ h # g /\ k # "matching" /\ k # "said"
  BY <1>1, <1>3, <1>4, <1>11
<1> QED
  BY <1>5, <1>6, <1>7, <1>8, <1>9, <1>10, <1>11

LEMMA SameIsTold ==
  ASSUME NEW x, Shaped(x)
  PROVE  Told(x, x)
BY DEF Told, Moved, Shaped

LEMMA NumberOverTold ==
  ASSUME NEW x, Shaped(x), NEW c, NEW y, y = NumberOver(x, c)
  PROVE  Told(x, y)
BY SameIsTold, FailTold DEF NumberOver

LEMMA CodingBeginsTold ==
  ASSUME NEW x, Shaped(x), NEW c, NEW y, y = CodingBegins(x, c)
  PROVE  Told(x, y)
<1>1. PICK old : old = x.header
  OBVIOUS
<1>2. PICK h : h = CASE c = "chun" -> Matching("chunked")
                     [] c # "chun" /\ c \in TokenSymbols -> <<"coding">>
                     [] c = " " -> old
                     [] OTHER -> General
  OBVIOUS
<1>3. y = [x EXCEPT !.header = h]
  BY <1>1, <1>2, Zenon DEF CodingBegins
<1> QED
  BY <1>3, HeaderOnlyMoves

LEMMA CodingBeginsControl ==
  ASSUME NEW a, NEW b, Shaped(a), Shaped(b), SameControl(a, b), NEW c,
         NEW x, x = CodingBegins(a, c), NEW y, y = CodingBegins(b, c)
  PROVE  SameControl(x, y)
<1>1. PICK old : old = a.header
  OBVIOUS
<1>2. old = b.header
  BY <1>1 DEF SameControl, Control
<1>3. PICK h : h = CASE c = "chun" -> Matching("chunked")
                     [] c # "chun" /\ c \in TokenSymbols -> <<"coding">>
                     [] c = " " -> old
                     [] OTHER -> General
  OBVIOUS
<1>4. x = [a EXCEPT !.header = h]
  BY <1>1, <1>3, Zenon DEF CodingBegins
<1>5. y = [b EXCEPT !.header = h]
  BY <1>2, <1>3, Zenon DEF CodingBegins
<1> QED
  BY <1>4, <1>5, HeaderOnlyControl

LEMMA SaidMoreTold ==
  ASSUME NEW x, Shaped(x), NEW y, y = SaidMore(x)
  PROVE  Told(x, y)
<1>1. PICK h : h = IF x.header = Said("chunked") THEN <<"coding">> ELSE General
  OBVIOUS
<1>2. y = [x EXCEPT !.header = h]
  BY <1>1, Zenon DEF SaidMore
<1> QED
  BY <1>2, HeaderOnlyMoves

LEMMA SaidMoreControl ==
  ASSUME NEW a, NEW b, Shaped(a), Shaped(b), SameControl(a, b),
         NEW x, x = SaidMore(a), NEW y, y = SaidMore(b)
  PROVE  SameControl(x, y)
<1>1. a.header = b.header
  BY DEF SameControl, Control
<1>2. PICK h : h = IF a.header = Said("chunked") THEN <<"coding">> ELSE General
  OBVIOUS
<1>3. x = [a EXCEPT !.header = h]
  BY <1>2, Zenon DEF SaidMore
<1>4. y = [b EXCEPT !.header = h]
  BY <1>1, <1>2, Zenon DEF SaidMore
<1> QED
  BY <1>3, <1>4, HeaderOnlyControl

LEMMA CodingOnTold ==
  ASSUME NEW x, Shaped(x), NEW c, NEW y, y = CodingOn(x, c)
  PROVE  Told(x, y)
<1>1. CASE c = ","
  <2>1. y = [x EXCEPT !.header = <<"coding start">>, !.index = 1]
    BY <1>1 DEF CodingOn
  <2> QED
    BY <2>1 DEF Told, Moved, Shaped, ParserFields, Rest, Control
<1>2. CASE c # ","
  BY <1>2, SameIsTold DEF CodingOn
<1> QED
  BY <1>1, <1>2

LEMMA CodingOnControl ==
  ASSUME NEW a, NEW b, Shaped(a), Shaped(b), SameControl(a, b), NEW c,
         NEW x, x = CodingOn(a, c), NEW y, y = CodingOn(b, c)
  PROVE  SameControl(x, y)
<1>1. CASE c = ","
  <2>1. x = [a EXCEPT !.header = <<"coding start">>, !.index = 1]
    BY <1>1 DEF CodingOn
  <2>2. y = [b EXCEPT !.header = <<"coding start">>, !.index = 1]
    BY <1>1 DEF CodingOn
  <2>3. /\ x.header = <<"coding start">> /\ x.index = 1
        /\ \A f \in ParserFields \ {"index", "header"} : x[f] = a[f]
    BY <2>1 DEF Shaped, ParserFields, Control
  <2>4. /\ y.header = <<"coding start">> /\ y.index = 1
        /\ \A f \in ParserFields \ {"index", "header"} : y[f] = b[f]
    BY <2>2 DEF Shaped, ParserFields, Control
  <2> QED
    BY <2>3, <2>4 DEF SameControl, ParserFields
<1>2. CASE c # ","
  BY <1>2 DEF CodingOn
<1> QED
  BY <1>1, <1>2

LEMMA InValueMoves ==
  ASSUME NEW x, Shaped(x), NEW c, NEW y, y = InValue(x, c)
  PROVE  Told(x, y)
<1>1. PICK h : h = x.header
  OBVIOUS
<1>2. CASE h = <<"number">>
  <2>1. y = Number(x, c)
    BY <1>1, <1>2, InValueIs
  <2> QED
    BY <2>1, NumberMoves
<1>3. CASE h = <<"number done">>
  <2>1. y = NumberOver(x, c)
    BY <1>1, <1>3, InValueIs
  <2> QED
    BY <2>1, NumberOverTold
<1>4. CASE h = <<"coding start">>
  <2>1. y = CodingBegins(x, c)
    BY <1>1, <1>4, InValueIs
  <2> QED
    BY <2>1, CodingBeginsTold
<1>5. CASE h = <<"coding">>
  <2>1. y = CodingOn(x, c)
    BY <1>1, <1>5, InValueIs
  <2> QED
    BY <2>1, CodingOnTold
<1>6. CASE h[1] = "matching"
  <2>1. y = MatchWord(x, c)
    BY <1>1, <1>6, InValueIs
  <2> QED
    BY <2>1, MatchWordMoves
<1>7. CASE h[1] = "said" /\ c # " "
  <2>1. y = SaidMore(x)
    BY <1>1, <1>7, InValueIs
  <2> QED
    BY <2>1, SaidMoreTold
<1>8. CASE h[1] = "said" /\ c = " "
  <2>1. y = x
    BY <1>1, <1>8, InValueIs
  <2> QED
    BY <2>1, SameIsTold
<1>9. CASE /\ h \notin {<<"number">>, <<"number done">>, <<"coding start">>, <<"coding">>}
           /\ h[1] \notin {"matching", "said"}
  <2>1. y = x
    BY <1>1, <1>9, InValueIs
  <2> QED
    BY <2>1, SameIsTold
<1> QED
  BY <1>2, <1>3, <1>4, <1>5, <1>6, <1>7, <1>8, <1>9

LEMMA InValueControl ==
  ASSUME NEW a, NEW b, Shaped(a), Shaped(b), SameControl(a, b), NEW c,
         NEW x, x = InValue(a, c), NEW y, y = InValue(b, c)
  PROVE  SameControl(x, y)
<1>1. PICK h : h = a.header
  OBVIOUS
<1>2. h = b.header
  BY <1>1 DEF SameControl, Control
<1>3. CASE h = <<"number">>
  <2>1. x = Number(a, c)
    BY <1>1, <1>3, InValueIs
  <2>2. y = Number(b, c)
    BY <1>2, <1>3, InValueIs
  <2> QED
    BY <2>1, <2>2, NumberControl
<1>4. CASE h = <<"number done">>
  <2>1. x = NumberOver(a, c)
    BY <1>1, <1>4, InValueIs
  <2>2. y = NumberOver(b, c)
    BY <1>2, <1>4, InValueIs
  <2>3. CASE c = " "
    BY <2>1, <2>2, <2>3 DEF NumberOver
  <2>4. CASE c # " "
    <3>1. x = Fail(a, "INVALID_CONTENT_LENGTH") /\ y = Fail(b, "INVALID_CONTENT_LENGTH")
      BY <2>1, <2>2, <2>4 DEF NumberOver
    <3> QED
      BY <3>1, FailControl
  <2> QED
    BY <2>3, <2>4
<1>5. CASE h = <<"coding start">>
  <2>1. x = CodingBegins(a, c)
    BY <1>1, <1>5, InValueIs
  <2>2. y = CodingBegins(b, c)
    BY <1>2, <1>5, InValueIs
  <2> QED
    BY <2>1, <2>2, CodingBeginsControl
<1>6. CASE h = <<"coding">>
  <2>1. x = CodingOn(a, c)
    BY <1>1, <1>6, InValueIs
  <2>2. y = CodingOn(b, c)
    BY <1>2, <1>6, InValueIs
  <2> QED
    BY <2>1, <2>2, CodingOnControl
<1>7. CASE h[1] = "matching"
  <2>1. x = MatchWord(a, c)
    BY <1>1, <1>7, InValueIs
  <2>2. y = MatchWord(b, c)
    BY <1>2, <1>7, InValueIs
  <2> QED
    BY <2>1, <2>2, MatchWordControl
<1>8. CASE h[1] = "said" /\ c # " "
  <2>1. x = SaidMore(a)
    BY <1>1, <1>8, InValueIs
  <2>2. y = SaidMore(b)
    BY <1>2, <1>8, InValueIs
  <2> QED
    BY <2>1, <2>2, SaidMoreControl
<1>9. CASE h[1] = "said" /\ c = " "
  <2>1. x = a
    BY <1>1, <1>9, InValueIs
  <2>2. y = b
    BY <1>2, <1>9, InValueIs
  <2> QED
    BY <2>1, <2>2
<1>10. CASE /\ h \notin {<<"number">>, <<"number done">>, <<"coding start">>, <<"coding">>}
            /\ h[1] \notin {"matching", "said"}
  <2>1. x = a
    BY <1>1, <1>10, InValueIs
  <2>2. y = b
    BY <1>2, <1>10, InValueIs
  <2> QED
    BY <2>1, <2>2
<1> QED
  BY <1>3, <1>4, <1>5, <1>6, <1>7, <1>8, <1>9, <1>10

\* What a symbol of a value does.
LEMMA HeaderValueIs ==
  ASSUME NEW x, NEW c
  PROVE  /\ c = "cr" => HeaderValue(x, c) = Flush(Go(x, "header_almost_done"))
         /\ c = "lf" => HeaderValue(x, c) = HeaderAlmostDone(Flush(Go(x, "header_almost_done")), c)
         /\ c = "bad" => HeaderValue(x, c) = Fail(x, "INVALID_HEADER_TOKEN")
         /\ c \notin {"cr", "lf", "bad"} => HeaderValue(x, c) = Take(InValue(x, c), "value", c)
BY DEF HeaderValue

LEMMA HeaderValueFine ==
  ASSUME NEW x, Going(x), x.state = "value", NEW c
  PROVE  Fine(x, HeaderValue(x, c))
<1>1. x.mark = "value" /\ Shaped(x)
  BY MarkOfs DEF Going, Placed
<1>2. PICK d : d = Flush(Go(x, "header_almost_done"))
  OBVIOUS
<1>3. Fine(x, d) /\ Going(d) /\ d.state = "header_almost_done"
  BY <1>1, <1>2, HandedOn DEF Elsewhere
<1>4. Fine(x, HeaderAlmostDone(d, c))
  <2>1. Fine(d, HeaderAlmostDone(d, c))
    BY <1>3, HeaderAlmostDoneFine
  <2> QED
    BY <1>3, <2>1, FineTwice
<1>5. Fine(x, Fail(x, "INVALID_HEADER_TOKEN"))
  BY FailFine
<1>6. Fine(x, Take(InValue(x, c), "value", c))
  <2>1. PICK z : z = InValue(x, c)
    OBVIOUS
  <2>2. Moved(x, z) /\ z.state = "value" /\ z.req = x.req /\ z.complete = x.complete
    BY <1>1, <2>1, InValueMoves DEF Told
  <2>3. "value" \in Reading /\ "value" \notin BeforeTarget /\ "value" \notin UrlStates
    BY DEF Reading, BeforeTarget, UrlStates
  <2> QED
    BY <2>1, <2>2, <2>3, MarkOfs, MovedAndTaken
<1> QED
  BY <1>2, <1>3, <1>4, <1>5, <1>6, HeaderValueIs

LEMMA HeaderValueAgree ==
  ASSUME NEW a, NEW b, Together(a, b), a.state = "value", NEW c
  PROVE  Agree(HeaderValue(a, c), HeaderValue(b, c))
<1>1. Going(a) /\ Going(b) /\ Shaped(a) /\ Shaped(b) /\ Alike(a, b) /\ b.state = a.state
  BY DEF Together, Going, Same, Alike, Control
<1>2. a.mark = "value" /\ b.mark = "value"
  BY <1>1, MarkOfs DEF Going, Placed
<1>3. PICK d : d = Flush(Go(a, "header_almost_done"))
  OBVIOUS
<1>4. PICK e : e = Flush(Go(b, "header_almost_done"))
  OBVIOUS
<1>5. Together(d, e)
  BY <1>2, <1>3, <1>4, HandedOnTogether DEF Elsewhere
<1>6. d.state = "header_almost_done"
  BY <1>1, <1>2, <1>3, HandedOn DEF Elsewhere
<1>7. CASE c = "cr"
  <2>1. HeaderValue(a, c) = d
    BY <1>3, <1>7, HeaderValueIs
  <2>2. HeaderValue(b, c) = e
    BY <1>4, <1>7, HeaderValueIs
  <2> QED
    BY <1>5, <2>1, <2>2, TogetherAgree
<1>8. CASE c = "lf"
  <2>1. HeaderValue(a, c) = HeaderAlmostDone(d, c)
    BY <1>3, <1>8, HeaderValueIs
  <2>2. HeaderValue(b, c) = HeaderAlmostDone(e, c)
    BY <1>4, <1>8, HeaderValueIs
  <2> QED
    BY <1>5, <1>6, <2>1, <2>2, HeaderAlmostDoneAgree
<1>9. CASE c = "bad"
  <2>1. HeaderValue(a, c) = Fail(a, "INVALID_HEADER_TOKEN")
    BY <1>9, HeaderValueIs
  <2> QED
    BY <1>1, <2>1, FailAgree
<1>10. CASE c \notin {"cr", "lf", "bad"}
  <2>1. PICK v : v = InValue(a, c)
    OBVIOUS
  <2>2. PICK w : w = InValue(b, c)
    OBVIOUS
  <2>3. Moved(a, v) /\ v.req = a.req /\ v.state = "value"
    BY <1>1, <2>1, InValueMoves DEF Told
  <2>4. Moved(b, w) /\ w.req = b.req
    BY <1>1, <2>2, InValueMoves DEF Told
  <2>5. SameControl(v, w)
    <3>1. SameControl(a, b)
      BY <1>1 DEF SameControl, Alike
    <3> QED
      BY <1>1, <2>1, <2>2, <3>1, InValueControl
  <2>6. \A f \in Control : v[f] = w[f]
    BY <2>5 DEF SameControl
  <2>7. \A f \in RequestControl : v.req[f] = w.req[f]
    BY <1>1, <2>3, <2>4 DEF Alike
  <2>8. Query(v, w)
    BY <2>3 DEF Query, UrlStates
  <2>9. Agree(Take(v, "value", c), Take(w, "value", c))
    BY <1>2, <2>3, <2>4, <2>6, <2>7, <2>8, TakenAgree
  <2>10. HeaderValue(a, c) = Take(v, "value", c)
    BY <1>10, <2>1, HeaderValueIs
  <2>11. HeaderValue(b, c) = Take(w, "value", c)
    BY <1>10, <2>2, HeaderValueIs
  <2> QED
    BY <2>9, <2>10, <2>11
<1> QED
  BY <1>7, <1>8, <1>9, <1>10

-----------------------------------------------------------------------------
(* The line after a value. *)

\* A step of the machine on which nothing is marked.
LEMMA MovedGoing ==
  ASSUME NEW x, NEW y, Going(x), x.mark = "none", Moved(x, y), y.req = x.req, y.complete = x.complete,
         y.errno = "OK", y.state \in Elsewhere
  PROVE  Fine(x, y) /\ Going(y) /\ y.mark = "none" /\ y.next = x.next
<1>1. Fine(x, y)
  BY MovedOnIsFine
<1>2. y.state \in Reading /\ y.state # "start_req"
  BY DEF Reading, Elsewhere
<1>3. y.mark = x.mark /\ y.next = x.next
  BY MovedKeeps DEF Going
<1> QED
  BY <1>1, <1>2, <1>3, FineGoing

LEMMA MovedTogether ==
  ASSUME NEW a, NEW b, Together(a, b), a.mark = "none", b.mark = "none",
         NEW x, NEW y, Moved(a, x), Moved(b, y), SameControl(x, y), x.req = a.req, y.req = b.req,
         Going(x), Going(y), x.next = a.next, y.next = b.next, x.state \in Elsewhere
  PROVE  Together(x, y)
<1>1. Shaped(a) /\ Shaped(b) /\ Alike(a, b)
  BY DEF Together, Going, Same
<1>2. \A f \in Control : x[f] = y[f]
  BY DEF SameControl
<1>3. \A f \in RequestControl : x.req[f] = y.req[f]
  BY <1>1 DEF Alike
<1>4. Alike(x, y)
  BY <1>1, <1>2, <1>3, AlikeMoved
<1>5. x.state \notin UrlStates
  BY DEF Elsewhere, UrlStates
<1> QED
  BY <1>4, <1>5 DEF Together, Same, Query

\* A value goes on in the next line.
Continued(x) == [x EXCEPT !.header = IF @ = <<"number">> THEN <<"number done">> ELSE @]

LEMMA ContinuedIs ==
  ASSUME NEW x, NEW h, h = (IF x.header = <<"number">> THEN <<"number done">> ELSE x.header)
  PROVE  Continued(x) = [x EXCEPT !.header = h]
BY Zenon DEF Continued

LEMMA ContinuedFine ==
  ASSUME NEW x, Going(x), x.mark = "none", x.state \in Elsewhere, NEW y, y = Continued(x)
  PROVE  /\ Told(x, y)
         /\ Fine(x, y) /\ Going(y) /\ y.mark = "none" /\ y.next = x.next
<1>1. PICK h : h = (IF x.header = <<"number">> THEN <<"number done">> ELSE x.header)
  OBVIOUS
<1>2. y = [x EXCEPT !.header = h]
  BY <1>1, ContinuedIs
<1>3. Told(x, y)
  BY <1>2, HeaderOnlyMoves DEF Going
<1>4. y.errno = x.errno
  BY <1>2 DEF Going, Shaped, ParserFields, Control
<1> QED
  BY <1>3, <1>4, MovedGoing DEF Told, Going

LEMMA ContinuedTogether ==
  ASSUME NEW a, NEW b, Together(a, b), a.mark = "none", b.mark = "none", a.state \in Elsewhere,
         NEW x, x = Continued(a), NEW y, y = Continued(b)
  PROVE  Together(x, y)
<1>1. Going(a) /\ Going(b) /\ Shaped(a) /\ Shaped(b) /\ SameControl(a, b) /\ b.state = a.state /\ a.header = b.header
  BY DEF Together, Going, Same, Alike, SameControl, Control
<1>2. Told(a, x) /\ Going(x) /\ x.next = a.next
  BY <1>1, ContinuedFine
<1>3. Told(b, y) /\ Going(y) /\ y.next = b.next
  BY <1>1, ContinuedFine
<1>4. PICK h : h = (IF a.header = <<"number">> THEN <<"number done">> ELSE a.header)
  OBVIOUS
<1>5. x = [a EXCEPT !.header = h]
  BY <1>4, ContinuedIs
<1>6. y = [b EXCEPT !.header = h]
  BY <1>1, <1>4, ContinuedIs
<1>7. SameControl(x, y)
  BY <1>1, <1>5, <1>6, HeaderOnlyControl
<1> QED
  BY <1>2, <1>3, <1>7, MovedTogether DEF Told

\* What a header says is noted.
WithNoted(header, flags) ==
  CASE header = Said("keep") -> flags \cup {"KEEP_ALIVE"}
    [] header = Said("close") -> flags \cup {"CLOSE"}
    [] header = Said("chunked") -> flags \cup {"CHUNKED"}
    [] OTHER -> flags

Noted(x) == [Go(x, "field_start") EXCEPT !.flags = WithNoted(x.header, @)]

LEMMA NotedMoves ==
  ASSUME NEW x, Shaped(x), NEW y, y = Noted(x)
  PROVE  /\ Moved(x, y) /\ y.state = "field_start" /\ y.req = x.req /\ y.complete = x.complete /\ y.errno = x.errno
         /\ y.flags = WithNoted(x.header, x.flags)
         /\ \A f \in ParserFields \ {"state", "flags"} : y[f] = x[f]
BY DEF Noted, Go, Moved, Shaped, ParserFields, Rest, Control

LEMMA NotedFine ==
  ASSUME NEW x, Going(x), x.mark = "none", NEW y, y = Noted(x)
  PROVE  Fine(x, y) /\ Going(y) /\ y.mark = "none" /\ y.next = x.next
<1>1. Moved(x, y) /\ y.state = "field_start" /\ y.req = x.req /\ y.complete = x.complete /\ y.errno = x.errno
  BY NotedMoves DEF Going
<1> QED
  BY <1>1, MovedGoing DEF Going, Elsewhere

LEMMA NotedTogether ==
  ASSUME NEW a, NEW b, Together(a, b), a.mark = "none", b.mark = "none",
         NEW x, x = Noted(a), NEW y, y = Noted(b)
  PROVE  Together(x, y)
<1>1. Going(a) /\ Going(b) /\ Shaped(a) /\ Shaped(b) /\ Alike(a, b) /\ a.header = b.header /\ a.flags = b.flags
  BY DEF Together, Going, Same, Alike, Control
<1>2. Going(x) /\ x.next = a.next
  BY <1>1, NotedFine
<1>3. Going(y) /\ y.next = b.next
  BY <1>1, NotedFine
<1>4. /\ Moved(a, x) /\ x.state = "field_start" /\ x.req = a.req /\ x.flags = WithNoted(a.header, a.flags)
      /\ \A f \in ParserFields \ {"state", "flags"} : x[f] = a[f]
  BY <1>1, NotedMoves
<1>5. /\ Moved(b, y) /\ y.state = "field_start" /\ y.req = b.req /\ y.flags = WithNoted(b.header, b.flags)
      /\ \A f \in ParserFields \ {"state", "flags"} : y[f] = b[f]
  BY <1>1, NotedMoves
<1>6. SameControl(x, y)
  BY <1>1, <1>4, <1>5 DEF SameControl, Alike, ParserFields
<1> QED
  BY <1>2, <1>3, <1>4, <1>5, <1>6, MovedTogether DEF Elsewhere

LEMMA ValueLwsIs ==
  ASSUME NEW x, Shaped(x), NEW c
  PROVE  /\ c = " " => ValueLws(x, c) = ValueStart(Continued(x), c)
         /\ c # " " => ValueLws(x, c) = FieldStart(Noted(x), c)
<1>1. CASE c = " "
  BY <1>1, Zenon DEF ValueLws, Continued
<1>2. CASE c # " "
  <2>1. ValueLws(x, c) =
          FieldStart([Go(x, "field_start") EXCEPT
                        !.flags = CASE x.header = Said("keep") -> @ \cup {"KEEP_ALIVE"}
                                    [] x.header = Said("close") -> @ \cup {"CLOSE"}
                                    [] x.header = Said("chunked") -> @ \cup {"CHUNKED"}
                                    [] OTHER -> @], c)
    BY <1>2, Zenon DEF ValueLws
  <2> QED
    BY <1>2, <2>1, Zenon DEF Noted, WithNoted
<1> QED
  BY <1>1, <1>2

LEMMA ValueLwsFine ==
  ASSUME NEW x, Going(x), x.state = "value_lws", NEW c
  PROVE  Fine(x, ValueLws(x, c))
<1>1. x.mark = "none" /\ x.state \in Elsewhere /\ Shaped(x)
  BY NothingMarked DEF Elsewhere, Going
<1>2. Fine(x, ValueStart(Continued(x), c))
  <2>1. PICK y : y = Continued(x)
    OBVIOUS
  <2>2. Fine(x, y) /\ Going(y) /\ y.mark = "none"
    BY <1>1, <2>1, ContinuedFine
  <2>3. Fine(y, ValueStart(y, c))
    BY <2>2, ValueStartFine
  <2> QED
    BY <2>1, <2>2, <2>3, FineTwice
<1>3. Fine(x, FieldStart(Noted(x), c))
  <2>1. PICK y : y = Noted(x)
    OBVIOUS
  <2>2. Fine(x, y) /\ Going(y) /\ y.mark = "none"
    BY <1>1, <2>1, NotedFine
  <2> QED
    BY <2>1, <2>2, FieldStartAfter
<1> QED
  BY <1>1, <1>2, <1>3, ValueLwsIs

LEMMA ValueLwsAgree ==
  ASSUME NEW a, NEW b, Together(a, b), a.state = "value_lws", NEW c
  PROVE  Agree(ValueLws(a, c), ValueLws(b, c))
<1>1. /\ a.mark = "none" /\ b.mark = "none" /\ b.state = a.state /\ a.state \in Elsewhere
      /\ Going(a) /\ Going(b) /\ Shaped(a) /\ Shaped(b)
  BY TogetherUnmarked DEF Elsewhere, Together, Going
<1>2. CASE c = " "
  <2>1. PICK x : x = Continued(a)
    OBVIOUS
  <2>2. PICK y : y = Continued(b)
    OBVIOUS
  <2>3. Together(x, y)
    BY <1>1, <2>1, <2>2, ContinuedTogether
  <2>4. x.mark = "none"
    BY <1>1, <2>1, ContinuedFine
  <2>5. y.mark = "none"
    BY <1>1, <2>2, ContinuedFine
  <2>6. Agree(ValueStart(x, c), ValueStart(y, c))
    BY <2>3, <2>4, <2>5, ValueStartAgree
  <2> QED
    BY <1>1, <1>2, <2>1, <2>2, <2>6, ValueLwsIs
<1>3. CASE c # " "
  <2>1. PICK x : x = Noted(a)
    OBVIOUS
  <2>2. PICK y : y = Noted(b)
    OBVIOUS
  <2>3. Together(x, y)
    BY <1>1, <2>1, <2>2, NotedTogether
  <2>4. x.mark = "none"
    BY <1>1, <2>1, NotedFine
  <2>5. y.mark = "none"
    BY <1>1, <2>2, NotedFine
  <2>6. Agree(FieldStart(x, c), FieldStart(y, c))
    BY <2>3, <2>4, <2>5, FieldStartAgree
  <2> QED
    BY <1>1, <1>3, <2>1, <2>2, <2>6, ValueLwsIs
<1> QED
  BY <1>2, <1>3

-----------------------------------------------------------------------------
(* Targets. *)

\* Where a symbol of a target leads.
LEMMA UrlToIs ==
  ASSUME NEW state, NEW c
  PROVE  UrlTo(state, c) \in UrlStates \cup {"dead"}
BY DEF UrlTo, UrlStates

\* The query begins, with the distance from the target's first byte.
Queried(x) == [Go(x, "query_start") EXCEPT !.qs = IF x.start = 0 THEN Address + x.p ELSE x.p - x.start]

LEMMA ParseUrlCharIs ==
  ASSUME NEW x, Shaped(x), NEW c, NEW to, to = UrlTo(x.state, c)
  PROVE  /\ to = "dead" => ParseUrlChar(x, c) = Fail(Go(x, to), "INVALID_URL")
         /\ to = "query_start" => ParseUrlChar(x, c) = Queried(x)
         /\ to \notin {"dead", "query_start"} => ParseUrlChar(x, c) = Go(x, to)
<1>1. ParseUrlChar(x, c) =
        IF to = "dead" THEN Fail(Go(x, to), "INVALID_URL")
        ELSE [Go(x, to) EXCEPT !.qs = CASE to # "query_start" -> @
                                        [] to = "query_start" /\ x.start = 0 -> Address + x.p
                                        [] OTHER -> x.p - x.start]
  BY Zenon DEF ParseUrlChar
<1>2. CASE to = "dead"
  BY <1>1, <1>2
<1>3. CASE to = "query_start"
  <2>1. to # "dead"
    BY <1>3
  <2>2. CASE x.start = 0
    <3>1. ParseUrlChar(x, c) = [Go(x, to) EXCEPT !.qs = Address + x.p]
      BY <1>1, <1>3, <2>1, <2>2, Zenon
    <3> QED
      BY <1>3, <2>1, <2>2, <3>1 DEF Queried
  <2>3. CASE x.start # 0
    <3>1. ParseUrlChar(x, c) = [Go(x, to) EXCEPT !.qs = x.p - x.start]
      BY <1>1, <1>3, <2>1, <2>3, Zenon
    <3> QED
      BY <1>3, <2>1, <2>3, <3>1 DEF Queried
  <2> QED
    BY <2>2, <2>3
<1>4. CASE to \notin {"dead", "query_start"}
  <2>1. to # "dead" /\ to # "query_start"
    BY <1>4
  <2>2. PICK z : z = Go(x, to)
    OBVIOUS
  <2>3. ParseUrlChar(x, c) = [z EXCEPT !.qs = z.qs]
    BY <1>1, <2>1, <2>2, Zenon
  <2>4. [z EXCEPT !.qs = z.qs] = z
    BY <2>2 DEF Go, Shaped, ParserFields
  <2> QED
    BY <1>4, <2>2, <2>3, <2>4
<1> QED
  BY <1>2, <1>3, <1>4

LEMMA QueriedMoves ==
  ASSUME NEW x, Shaped(x), NEW y, y = Queried(x)
  PROVE  /\ Moved(x, y) /\ y.state = "query_start" /\ \A f \in ParserFields \ {"state", "qs"} : y[f] = x[f]
         /\ x.start # 0 => y.qs = x.p - x.start
<1>1. PICK q : q = IF x.start = 0 THEN Address + x.p ELSE x.p - x.start
  OBVIOUS
<1>2. y = [Go(x, "query_start") EXCEPT !.qs = q]
  BY <1>1, Zenon DEF Queried
<1> QED
  BY <1>1, <1>2 DEF Go, Moved, Shaped, ParserFields, Rest, Control

LEMMA ParsedMoves ==
  ASSUME NEW x, Shaped(x), NEW c, NEW y, y = ParseUrlChar(x, c)
  PROVE  /\ Moved(x, y) /\ y.req = x.req /\ y.complete = x.complete /\ y.start = x.start /\ y.p = x.p
         /\ y.errno = "OK" => y.state \in UrlStates
<1>1. PICK to : to = UrlTo(x.state, c)
  OBVIOUS
<1>2. to \in UrlStates \cup {"dead"}
  BY <1>1, UrlToIs
<1>3. CASE to = "dead"
  <2>1. PICK z : z = Go(x, to)
    OBVIOUS
  <2>2. y = Fail(z, "INVALID_URL")
    BY <1>1, <1>3, <2>1, ParseUrlCharIs
  <2>3. Moved(x, z) /\ z.req = x.req /\ z.complete = x.complete /\ \A f \in ParserFields \ {"state"} : z[f] = x[f]
    BY <2>1, GoMoves
  <2>4. Shaped(z)
    BY <2>3, MovedKeeps DEF Kept
  <2>5. Moved(z, y) /\ y.errno = "INVALID_URL" /\ \A f \in ParserFields \ {"errno"} : y[f] = z[f]
    BY <2>2, <2>4, FailMoves
  <2>6. Moved(x, y)
    BY <2>3, <2>5, MovedTwice
  <2> QED
    BY <2>3, <2>5, <2>6 DEF ParserFields, Rest, Control
<1>4. CASE to = "query_start"
  <2>1. y = Queried(x)
    BY <1>1, <1>4, ParseUrlCharIs
  <2>2. Moved(x, y) /\ y.state = "query_start" /\ \A f \in ParserFields \ {"state", "qs"} : y[f] = x[f]
    BY <2>1, QueriedMoves
  <2> QED
    BY <2>2 DEF ParserFields, Rest, Control, UrlStates
<1>5. CASE to \notin {"dead", "query_start"}
  <2>1. y = Go(x, to)
    BY <1>1, <1>5, ParseUrlCharIs
  <2>2. Moved(x, y) /\ y.state = to /\ \A f \in ParserFields \ {"state"} : y[f] = x[f]
    BY <2>1, GoMoves
  <2> QED
    BY <1>2, <1>5, <2>2 DEF ParserFields, Rest, Control
<1> QED
  BY <1>3, <1>4, <1>5

\* Both parsers know how far they are from the first byte of a target.
Level(a, b) ==
  a.req.whole /\ b.req.whole => /\ a.qs = b.qs /\ a.p - a.start = b.p - b.start
                                /\ a.start # 0 /\ b.start # 0

LEMMA ParsedTogether ==
  ASSUME NEW a, NEW b, Shaped(a), Shaped(b), SameControl(a, b), Level(a, b), NEW c,
         NEW x, x = ParseUrlChar(a, c), NEW y, y = ParseUrlChar(b, c)
  PROVE  SameControl(x, y) /\ Query(x, y)
<1>1. PICK to : to = UrlTo(a.state, c)
  OBVIOUS
<1>2. to = UrlTo(b.state, c)
  BY <1>1 DEF SameControl, Control
<1>3. x.start = a.start /\ x.p = a.p /\ x.req = a.req
  BY ParsedMoves
<1>4. y.start = b.start /\ y.p = b.p /\ y.req = b.req
  BY ParsedMoves
<1>5. CASE to = "dead"
  <2>1. PICK u : u = Go(a, to)
    OBVIOUS
  <2>2. PICK v : v = Go(b, to)
    OBVIOUS
  <2>3. x = Fail(u, "INVALID_URL")
    BY <1>1, <1>5, <2>1, ParseUrlCharIs
  <2>4. y = Fail(v, "INVALID_URL")
    BY <1>2, <1>5, <2>2, ParseUrlCharIs
  <2>5. u.state = to /\ Moved(a, u) /\ \A f \in ParserFields \ {"state"} : u[f] = a[f]
    BY <2>1, GoMoves
  <2>6. v.state = to /\ Moved(b, v) /\ \A f \in ParserFields \ {"state"} : v[f] = b[f]
    BY <2>2, GoMoves
  <2>7. SameControl(u, v)
    BY <2>5, <2>6 DEF SameControl, ParserFields
  <2>8. Shaped(u)
    BY <2>5, MovedKeeps DEF Kept
  <2>9. Shaped(v)
    BY <2>6, MovedKeeps DEF Kept
  <2>10. SameControl(x, y)
    BY <2>3, <2>4, <2>7, <2>8, <2>9, FailControl
  <2>11. x.state = u.state
    BY <2>3, <2>8, FailMoves DEF ParserFields, Control
  <2>12. x.state = "dead"
    BY <1>5, <2>5, <2>11
  <2> QED
    BY <2>10, <2>12 DEF Query, UrlStates
<1>6. CASE to = "query_start"
  <2>1. x = Queried(a)
    BY <1>1, <1>6, ParseUrlCharIs
  <2>2. y = Queried(b)
    BY <1>2, <1>6, ParseUrlCharIs
  <2>3. /\ x.state = "query_start" /\ \A f \in ParserFields \ {"state", "qs"} : x[f] = a[f]
        /\ a.start # 0 => x.qs = a.p - a.start
    BY <2>1, QueriedMoves
  <2>4. /\ y.state = "query_start" /\ \A f \in ParserFields \ {"state", "qs"} : y[f] = b[f]
        /\ b.start # 0 => y.qs = b.p - b.start
    BY <2>2, QueriedMoves
  <2>5. SameControl(x, y)
    BY <2>3, <2>4 DEF SameControl, ParserFields, Control
  <2>6. Query(x, y)
    BY <1>3, <1>4, <2>3, <2>4 DEF Query, Level
  <2> QED
    BY <2>5, <2>6
<1>7. CASE to \notin {"dead", "query_start"}
  <2>1. x = Go(a, to)
    BY <1>1, <1>7, ParseUrlCharIs
  <2>2. y = Go(b, to)
    BY <1>2, <1>7, ParseUrlCharIs
  <2>3. x.state = to /\ \A f \in ParserFields \ {"state"} : x[f] = a[f]
    BY <2>1, GoMoves
  <2>4. y.state = to /\ \A f \in ParserFields \ {"state"} : y[f] = b[f]
    BY <2>2, GoMoves
  <2>5. SameControl(x, y)
    BY <2>3, <2>4 DEF SameControl, ParserFields
  <2>6. x.qs = a.qs /\ y.qs = b.qs
    BY <2>3, <2>4 DEF ParserFields
  <2> QED
    BY <1>3, <1>4, <2>5, <2>6 DEF Query, Level
<1> QED
  BY <1>5, <1>6, <1>7

\* A symbol of a target.
LEMMA UrlCharFine ==
  ASSUME NEW x, NEW z, Going(x), Moved(x, z), z.complete = x.complete, z.req.upgrade = x.req.upgrade,
         z.req.whole => z.start # 0, NEW c, NEW y, y = Take(ParseUrlChar(z, c), "url", c)
  PROVE  Fine(x, y)
<1>1. PICK w : w = ParseUrlChar(z, c)
  OBVIOUS
<1>2. Shaped(z)
  BY MovedKeeps DEF Going, Kept
<1>3. /\ Moved(z, w) /\ w.req = z.req /\ w.complete = z.complete /\ w.start = z.start
      /\ w.errno = "OK" => w.state \in UrlStates
  BY <1>1, <1>2, ParsedMoves
<1>4. Moved(x, w)
  BY <1>3, MovedTwice
<1>5. \A s \in UrlStates : s \in Reading /\ s \notin BeforeTarget /\ MarkOf(s) = "url"
  BY DEF UrlStates, Reading, BeforeTarget, MarkOf
<1> QED
  BY <1>1, <1>3, <1>4, <1>5, MovedAndTaken

LEMMA UrlCharAgree ==
  ASSUME NEW a, NEW b, Together(a, b), a.mark = b.mark, a.mark \in {"none", "url"},
         NEW v, NEW w, Moved(a, v), Moved(b, w), SameControl(v, w),
         \A f \in RequestControl : v.req[f] = w.req[f],
         Level(v, w), NEW c, NEW x, x = Take(ParseUrlChar(v, c), "url", c), NEW y, y = Take(ParseUrlChar(w, c), "url", c)
  PROVE  Agree(x, y)
<1>1. PICK i : i = ParseUrlChar(v, c)
  OBVIOUS
<1>2. PICK j : j = ParseUrlChar(w, c)
  OBVIOUS
<1>3. Shaped(v)
  BY MovedKeeps DEF Together, Going, Kept
<1>4. Shaped(w)
  BY MovedKeeps DEF Together, Going, Kept
<1>5. Moved(v, i) /\ i.req = v.req
  BY <1>1, <1>3, ParsedMoves
<1>6. Moved(w, j) /\ j.req = w.req
  BY <1>2, <1>4, ParsedMoves
<1>7. SameControl(i, j) /\ Query(i, j)
  BY <1>1, <1>2, <1>3, <1>4, ParsedTogether
<1>8. Moved(a, i)
  BY <1>5, MovedTwice
<1>9. Moved(b, j)
  BY <1>6, MovedTwice
<1>10. \A f \in Control : i[f] = j[f]
  BY <1>7 DEF SameControl
<1>11. \A f \in RequestControl : i.req[f] = j.req[f]
  BY <1>5, <1>6
<1> QED
  BY <1>1, <1>2, <1>7, <1>8, <1>9, <1>10, <1>11, TakenAgree

\* The first symbol of a target.
Spaced(x) ==
  [x EXCEPT !.start = IF @ = 0 THEN x.p ELSE @, !.req.whole = x.start = 0,
            !.state = IF x.method = "CONNECT" THEN "server_start" ELSE @]

LEMMA SpacedMoves ==
  ASSUME NEW x, Shaped(x), NEW y, y = Spaced(x)
  PROVE  /\ Moved(x, y) /\ y.complete = x.complete /\ y.qs = x.qs /\ y.p = x.p
         /\ y.start = (IF x.start = 0 THEN x.p ELSE x.start) /\ y.req.whole = (x.start = 0)
         /\ y.state = (IF x.method = "CONNECT" THEN "server_start" ELSE x.state)
         /\ \A f \in RequestControl : y.req[f] = x.req[f]
         /\ \A f \in ParserFields \ {"start", "req", "state"} : y[f] = x[f]
<1>1. PICK s, w, t : /\ s = (IF x.start = 0 THEN x.p ELSE x.start) /\ w = (x.start = 0)
                     /\ t = (IF x.method = "CONNECT" THEN "server_start" ELSE x.state)
  OBVIOUS
<1>2. PICK r : r = [x.req EXCEPT !.whole = w]
  OBVIOUS
<1>3. y = [x EXCEPT !.start = s, !.req = r, !.state = t]
  BY <1>1, <1>2 DEF Spaced
<1>4. /\ DOMAIN r = RequestFields /\ r.whole = w /\ \A f \in RequestFields \ {"whole"} : r[f] = x.req[f]
  BY <1>2 DEF Shaped, RequestFields
<1>5. /\ DOMAIN y = ParserFields /\ y.start = s /\ y.req = r /\ y.state = t
      /\ \A f \in ParserFields \ {"start", "req", "state"} : y[f] = x[f]
  BY <1>3 DEF Shaped, ParserFields, Control
<1>6. s \in Nat
  BY <1>1 DEF Shaped
<1>7. Moved(x, y)
  BY <1>4, <1>5, <1>6 DEF Moved, ParserFields, Rest, RequestFields
<1>8. \A f \in RequestControl : y.req[f] = x.req[f]
  BY <1>4, <1>5 DEF RequestFields, RequestControl
<1> QED
  BY <1>1, <1>4, <1>5, <1>7, <1>8 DEF ParserFields, Rest, Control

LEMMA SpacesBeforeUrlIs ==
  ASSUME NEW x, NEW c
  PROVE  /\ c = " " => SpacesBeforeUrl(x, c) = x
         /\ c # " " => SpacesBeforeUrl(x, c) = Take(ParseUrlChar(Spaced(x), c), "url", c)
BY DEF SpacesBeforeUrl, Spaced

LEMMA SpacesBeforeUrlFine ==
  ASSUME NEW x, Going(x), x.state = "spaces_before_url", NEW c
  PROVE  Fine(x, SpacesBeforeUrl(x, c))
<1>1. PICK z : z = Spaced(x)
  OBVIOUS
<1>2. /\ Moved(x, z) /\ z.complete = x.complete
      /\ z.start = (IF x.start = 0 THEN x.p ELSE x.start)
      /\ \A f \in RequestControl : z.req[f] = x.req[f]
  BY <1>1, SpacedMoves DEF Going
<1>3. z.start # 0 /\ z.req.upgrade = x.req.upgrade
  BY <1>2 DEF Going, RequestControl
<1>4. Fine(x, Take(ParseUrlChar(z, c), "url", c))
  BY <1>2, <1>3, UrlCharFine
<1>5. Fine(x, x)
  BY DEF Fine, Sound, Going
<1> QED
  BY <1>1, <1>4, <1>5, SpacesBeforeUrlIs

LEMMA SpacesBeforeUrlAgree ==
  ASSUME NEW a, NEW b, Together(a, b), a.state = "spaces_before_url", NEW c
  PROVE  Agree(SpacesBeforeUrl(a, c), SpacesBeforeUrl(b, c))
<1>1. a.mark = "none" /\ b.mark = "none" /\ b.state = a.state
  BY TogetherUnmarked DEF BeforeTarget
<1>2. Going(a) /\ Going(b) /\ Shaped(a) /\ Shaped(b) /\ Alike(a, b) /\ a.method = b.method
  BY DEF Together, Going, Same, Alike, Control
<1>3. CASE c = " "
  <2>1. SpacesBeforeUrl(a, c) = a
    BY <1>3, SpacesBeforeUrlIs
  <2>2. SpacesBeforeUrl(b, c) = b
    BY <1>3, SpacesBeforeUrlIs
  <2> QED
    BY <2>1, <2>2, TogetherAgree
<1>4. CASE c # " "
  <2>1. PICK v : v = Spaced(a)
    OBVIOUS
  <2>2. PICK w : w = Spaced(b)
    OBVIOUS
  <2>3. /\ Moved(a, v) /\ v.qs = a.qs /\ v.p = a.p
        /\ v.start = (IF a.start = 0 THEN a.p ELSE a.start) /\ v.req.whole = (a.start = 0)
        /\ v.state = (IF a.method = "CONNECT" THEN "server_start" ELSE a.state)
        /\ \A f \in RequestControl : v.req[f] = a.req[f]
        /\ \A f \in ParserFields \ {"start", "req", "state"} : v[f] = a[f]
    BY <1>2, <2>1, SpacedMoves
  <2>4. /\ Moved(b, w) /\ w.qs = b.qs /\ w.p = b.p
        /\ w.start = (IF b.start = 0 THEN b.p ELSE b.start) /\ w.req.whole = (b.start = 0)
        /\ w.state = (IF b.method = "CONNECT" THEN "server_start" ELSE b.state)
        /\ \A f \in RequestControl : w.req[f] = b.req[f]
        /\ \A f \in ParserFields \ {"start", "req", "state"} : w[f] = b[f]
    BY <1>2, <2>2, SpacedMoves
  <2>5. SameControl(v, w)
    <3>1. v.state = w.state
      BY <1>1, <1>2, <2>3, <2>4
    <3> QED
      BY <1>2, <2>3, <2>4, <3>1 DEF SameControl, Alike, ParserFields, Control
  <2>6. \A f \in RequestControl : v.req[f] = w.req[f]
    BY <1>2, <2>3, <2>4 DEF Alike
  <2>7. Level(v, w)
    <3>1. a.qs = 0 /\ b.qs = 0 /\ a.p # 0 /\ b.p # 0 /\ a.p \in Nat /\ b.p \in Nat
      BY <1>1, <1>2 DEF Going, Placed, BeforeTarget, Shaped
    <3>2. v.qs = 0 /\ w.qs = 0
      BY <2>3, <2>4, <3>1
    <3>3. ASSUME v.req.whole PROVE v.start = a.p /\ v.p = a.p
      BY <2>3, <3>3
    <3>4. ASSUME w.req.whole PROVE w.start = b.p /\ w.p = b.p
      BY <2>4, <3>4
    <3>5. a.p - a.p = b.p - b.p
      BY <3>1
    <3> QED
      BY <3>1, <3>2, <3>3, <3>4, <3>5 DEF Level
  <2>8. Agree(Take(ParseUrlChar(v, c), "url", c), Take(ParseUrlChar(w, c), "url", c))
    BY <1>1, <2>3, <2>4, <2>5, <2>6, <2>7, UrlCharAgree
  <2> QED
    BY <1>4, <2>1, <2>2, <2>8, SpacesBeforeUrlIs
<1> QED
  BY <1>3, <1>4

\* The symbols after the first.
LEMMA LaterUrlCharFine ==
  ASSUME NEW x, Going(x), x.state \in UrlStates, NEW c
  PROVE  Fine(x, Take(ParseUrlChar(x, c), "url", c))
<1>1. Moved(x, x) /\ (x.req.whole => x.start # 0)
  BY DEF Moved, Going, Shaped, Placed
<1> QED
  BY <1>1, UrlCharFine

LEMMA UrlMarked ==
  ASSUME NEW x, Going(x), x.state \in UrlStates
  PROVE  x.mark = "url"
BY MarkOfs DEF Going, Placed

LEMMA LaterUrlCharAgree ==
  ASSUME NEW a, NEW b, Together(a, b), a.state \in UrlStates, NEW c
  PROVE  Agree(Take(ParseUrlChar(a, c), "url", c), Take(ParseUrlChar(b, c), "url", c))
<1>1. Going(a) /\ Going(b) /\ Shaped(a) /\ Shaped(b) /\ Alike(a, b) /\ Query(a, b) /\ b.state = a.state
  BY DEF Together, Going, Same, Alike, Control
<1>2. a.mark = "url" /\ b.mark = "url"
  BY <1>1, UrlMarked
<1>3. Moved(a, a) /\ Moved(b, b)
  BY <1>1 DEF Moved, Shaped
<1>4. SameControl(a, b) /\ \A f \in RequestControl : a.req[f] = b.req[f]
  BY <1>1 DEF Alike, SameControl
<1>5. Level(a, b)
  BY <1>1 DEF Level, Query, Going, Placed
<1> QED
  BY <1>2, <1>3, <1>4, <1>5, UrlCharAgree

LEMMA UrlBeginsFine ==
  ASSUME NEW x, Going(x), x.state \in UrlStates, NEW c
  PROVE  Fine(x, UrlBegins(x, c))
BY LaterUrlCharFine, FailFine DEF UrlBegins

LEMMA UrlBeginsAgree ==
  ASSUME NEW a, NEW b, Together(a, b), a.state \in UrlStates, NEW c
  PROVE  Agree(UrlBegins(a, c), UrlBegins(b, c))
<1>1. Shaped(a)
  BY DEF Together, Going
<1>2. CASE c \in {" ", "cr", "lf"}
  <2>1. UrlBegins(a, c) = Fail(a, "INVALID_URL")
    BY <1>2 DEF UrlBegins
  <2> QED
    BY <1>1, <2>1, FailAgree
<1>3. CASE c \notin {" ", "cr", "lf"}
  <2>1. UrlBegins(a, c) = Take(ParseUrlChar(a, c), "url", c)
    BY <1>3 DEF UrlBegins
  <2>2. UrlBegins(b, c) = Take(ParseUrlChar(b, c), "url", c)
    BY <1>3 DEF UrlBegins
  <2> QED
    BY <2>1, <2>2, LaterUrlCharAgree
<1> QED
  BY <1>2, <1>3

\* A target ends.
LEMMA TargetFine ==
  ASSUME NEW x, Going(x), x.mark = "url", NEW z, Moved(x, z), z.req = x.req, z.complete = x.complete,
         z.errno = "OK", z.state \in Elsewhere, NEW y, y = Flush(z)
  PROVE  Fine(x, y) /\ (y.errno = "OK" => y.state = z.state)
<1>1. Shaped(z) /\ z.mark = "url" /\ z.rest = x.rest /\ z.p = x.p /\ z.left = x.left /\ (x.cut => z.cut)
  BY MovedKeeps DEF Going, Kept
<1>2. z.state \notin {"dead", "start_req"}
  BY DEF Elsewhere
<1>3. /\ Shaped(y) /\ y.mark = "none"
      /\ \A f \in {"left", "rest", "p", "next"} : y[f] = z[f]
      /\ z.cut => y.cut
      /\ AnsweredByRouter(z) => y.errno # "OK"
      /\ ~AnsweredByRouter(z) =>
           /\ \A f \in Control \cup {"qs", "start"} : y[f] = z[f]
           /\ \A f \in RequestControl \cup {"whole"} : y.req[f] = z.req[f]
  BY <1>1, <1>2, FlushTarget
<1>4. y.errno = "OK" => y.state = z.state /\ y.complete = z.complete /\ y.req.upgrade = z.req.upgrade
  BY <1>3 DEF Control, RequestControl
<1>5. z.state \in Reading /\ z.state \notin BeforeTarget /\ z.state \notin UrlStates /\ MarkOf(z.state) = "none"
  BY DEF Elsewhere, Reading, HalfBody, BeforeTarget, UrlStates, MarkOf
<1>6. y.left = x.left /\ y.rest = x.rest /\ y.p = x.p /\ (x.cut => y.cut)
  BY <1>1, <1>3
<1>7. y.errno = "OK" => Placed(y)
  BY <1>3, <1>4, <1>5, <1>6 DEF Placed, Going
<1> QED
  BY <1>3, <1>4, <1>6, <1>7 DEF Fine, Sound

LEMMA TargetAgree ==
  ASSUME NEW a, NEW b, Together(a, b), a.state \in UrlStates,
         NEW v, NEW w, Moved(a, v), Moved(b, w), SameControl(v, w), v.req = a.req, w.req = b.req,
         v.complete = a.complete, v.qs = a.qs, w.qs = b.qs, v.errno = "OK", v.state \in Elsewhere
  PROVE  Agree(Flush(v), Flush(w))
<1>1. Going(a) /\ Going(b) /\ Shaped(a) /\ Shaped(b) /\ Alike(a, b) /\ Query(a, b) /\ b.state = a.state
  BY DEF Together, Going, Same, Alike, Control
<1>2. a.mark = "url" /\ b.mark = "url"
  BY <1>1, UrlMarked
<1>3. Shaped(v) /\ v.mark = "url"
  BY <1>1, <1>2, MovedKeeps DEF Kept
<1>4. Shaped(w) /\ w.mark = "url"
  BY <1>1, <1>2, MovedKeeps DEF Kept
<1>5. Alike(v, w)
  <2>1. \A f \in Control : v[f] = w[f]
    BY DEF SameControl
  <2>2. \A f \in RequestControl : v.req[f] = w.req[f]
    BY <1>1 DEF Alike
  <2> QED
    BY <1>1, <2>1, <2>2, AlikeMoved
<1>6. v.req.whole /\ w.req.whole => v.qs = w.qs
  BY <1>1 DEF Query
<1>7. v.state \notin {"dead", "start_req"}
  BY DEF Elsewhere
<1>8. PICK x : x = Flush(v)
  OBVIOUS
<1>9. PICK y : y = Flush(w)
  OBVIOUS
<1>10. Alike(x, y) \/ Apart(x, y)
  BY <1>3, <1>4, <1>5, <1>6, <1>7, <1>8, <1>9, FlushTargetAlike
<1>11. x.errno = "OK" => x.state = v.state
  BY <1>1, <1>2, <1>8, TargetFine
<1>12. v.state \notin UrlStates
  BY DEF Elsewhere, UrlStates
<1> QED
  BY <1>8, <1>9, <1>10, <1>11, <1>12 DEF Agree, Same, Apart, Query

\* A target without a version.
OldVersion(x, s) == [Go(x, s) EXCEPT !.version = <<0, 9>>]

LEMMA OldVersionMoves ==
  ASSUME NEW x, Shaped(x), NEW s, NEW y, y = OldVersion(x, s)
  PROVE  /\ Moved(x, y) /\ y.state = s /\ y.req = x.req /\ y.complete = x.complete /\ y.errno = x.errno
         /\ y.qs = x.qs /\ y.version = <<0, 9>>
         /\ \A f \in ParserFields \ {"state", "version"} : y[f] = x[f]
BY DEF OldVersion, Go, Moved, Shaped, ParserFields, Rest, Control

LEMMA UrlIs ==
  ASSUME NEW x, NEW c, NEW get, get = (x.method = "GET"),
         NEW s, s = (IF c = "cr" THEN "line_almost_done" ELSE "field_start")
  PROVE  /\ c = " " => Url(x, c) = Flush(Go(x, "http_start"))
         /\ c \in {"cr", "lf"} /\ ~get => Url(x, c) = Fail(Go(x, "dead"), "INVALID_VERSION")
         /\ c \in {"cr", "lf"} /\ get => Url(x, c) = Flush(OldVersion(x, s))
         /\ c \notin {" ", "cr", "lf"} => Url(x, c) = Take(ParseUrlChar(x, c), "url", c)
<1>1. PICK line : line = {"cr", "lf"}
  OBVIOUS
<1>2. Url(x, c) =
        CASE c = " " -> Flush(Go(x, "http_start"))
          [] c \in line /\ ~get -> Fail(Go(x, "dead"), "INVALID_VERSION")
          [] c \in line /\ get -> Flush(OldVersion(x, s))
          [] OTHER -> Take(ParseUrlChar(x, c), "url", c)
  BY <1>1 DEF Url, OldVersion
<1>3. CASE c = " "
  <2>1. c \notin line /\ c \in {" ", "cr", "lf"}
    BY <1>1, <1>3
  <2> QED
    BY <1>1, <1>2, <1>3, <2>1, Zenon
<1>4. CASE c \in line /\ ~get
  <2>1. c # " " /\ c \in {" ", "cr", "lf"}
    BY <1>1, <1>4
  <2> QED
    BY <1>1, <1>2, <1>4, <2>1, Zenon
<1>5. CASE c \in line /\ get
  <2>1. c # " " /\ c \in {" ", "cr", "lf"}
    BY <1>1, <1>5
  <2> QED
    BY <1>1, <1>2, <1>5, <2>1, Zenon
<1>6. CASE c \notin {" ", "cr", "lf"}
  <2>1. c # " " /\ c \notin line
    BY <1>1, <1>6
  <2> QED
    BY <1>1, <1>2, <1>6, <2>1, Zenon
<1> QED
  BY <1>1, <1>3, <1>4, <1>5, <1>6

LEMMA UrlFine ==
  ASSUME NEW x, Going(x), x.state \in UrlStates, NEW c
  PROVE  Fine(x, Url(x, c))
<1>1. x.mark = "url" /\ Shaped(x) /\ x.errno = "OK"
  BY UrlMarked DEF Going
<1>2. Fine(x, Flush(Go(x, "http_start")))
  <2>1. PICK z : z = Go(x, "http_start")
    OBVIOUS
  <2>2. Moved(x, z) /\ z.state = "http_start" /\ z.req = x.req /\ z.complete = x.complete /\ z.errno = x.errno
    BY <1>1, <2>1, GoMoves
  <2> QED
    BY <1>1, <2>1, <2>2, TargetFine DEF Elsewhere
<1>3. ASSUME NEW s \in {"line_almost_done", "field_start"} PROVE Fine(x, Flush(OldVersion(x, s)))
  <2>1. PICK z : z = OldVersion(x, s)
    OBVIOUS
  <2>2. Moved(x, z) /\ z.state = s /\ z.req = x.req /\ z.complete = x.complete /\ z.errno = x.errno
    BY <1>1, <2>1, OldVersionMoves
  <2> QED
    BY <1>1, <2>1, <2>2, TargetFine DEF Elsewhere
<1>4. Fine(x, Fail(Go(x, "dead"), "INVALID_VERSION"))
  <2>1. PICK z : z = Go(x, "dead")
    OBVIOUS
  <2>2. PICK y : y = Fail(z, "INVALID_VERSION")
    OBVIOUS
  <2>3. Moved(x, z)
    BY <1>1, <2>1, GoMoves
  <2>4. Shaped(z)
    BY <1>1, <2>3, MovedKeeps DEF Kept
  <2>5. Moved(z, y) /\ y.errno = "INVALID_VERSION"
    BY <2>2, <2>4, FailMoves
  <2>6. Moved(x, y)
    BY <2>3, <2>5, MovedTwice
  <2> QED
    BY <2>1, <2>2, <2>5, <2>6, MovedIsFine
<1>5. Fine(x, Take(ParseUrlChar(x, c), "url", c))
  BY LaterUrlCharFine
<1>6. PICK get : get = (x.method = "GET")
  OBVIOUS
<1>7. PICK s : s = (IF c = "cr" THEN "line_almost_done" ELSE "field_start")
  OBVIOUS
<1>8. s \in {"line_almost_done", "field_start"}
  BY <1>7
<1>9. Url(x, c) \in {Flush(Go(x, "http_start")), Flush(OldVersion(x, s)), Fail(Go(x, "dead"), "INVALID_VERSION"),
                     Take(ParseUrlChar(x, c), "url", c)}
  BY <1>6, <1>7, UrlIs
<1> QED
  BY <1>2, <1>3, <1>4, <1>5, <1>8, <1>9

LEMMA UrlAgree ==
  ASSUME NEW a, NEW b, Together(a, b), a.state \in UrlStates, NEW c
  PROVE  Agree(Url(a, c), Url(b, c))
<1>1. /\ Shaped(a) /\ Shaped(b) /\ Alike(a, b) /\ SameControl(a, b) /\ a.method = b.method
      /\ a.errno = "OK"
  BY DEF Together, Going, Same, Alike, SameControl, Control
<1>2. PICK get : get = (a.method = "GET")
  OBVIOUS
<1>3. get = (b.method = "GET")
  BY <1>1, <1>2
<1>4. PICK s : s = (IF c = "cr" THEN "line_almost_done" ELSE "field_start")
  OBVIOUS
<1>5. CASE c = " "
  <2>1. PICK v : v = Go(a, "http_start")
    OBVIOUS
  <2>2. PICK w : w = Go(b, "http_start")
    OBVIOUS
  <2>3. /\ Moved(a, v) /\ v.state = "http_start" /\ v.req = a.req /\ v.complete = a.complete /\ v.errno = a.errno
        /\ \A f \in ParserFields \ {"state"} : v[f] = a[f]
    BY <1>1, <2>1, GoMoves
  <2>4. /\ Moved(b, w) /\ w.state = "http_start" /\ w.req = b.req
        /\ \A f \in ParserFields \ {"state"} : w[f] = b[f]
    BY <1>1, <2>2, GoMoves
  <2>5. SameControl(v, w)
    BY <1>1, <2>3, <2>4 DEF SameControl, ParserFields
  <2>6. v.qs = a.qs /\ w.qs = b.qs
    BY <2>3, <2>4 DEF ParserFields
  <2>7. Agree(Flush(v), Flush(w))
    BY <1>1, <2>3, <2>4, <2>5, <2>6, TargetAgree DEF Elsewhere
  <2>8. Url(a, c) = Flush(v)
    BY <1>2, <1>4, <1>5, <2>1, UrlIs
  <2>9. Url(b, c) = Flush(w)
    BY <1>3, <1>4, <1>5, <2>2, UrlIs
  <2> QED
    BY <2>7, <2>8, <2>9
<1>6. CASE c \in {"cr", "lf"} /\ ~get
  <2>1. PICK z : z = Go(a, "dead")
    OBVIOUS
  <2>2. Shaped(z)
    BY <1>1, <2>1, GoMoves, MovedKeeps DEF Kept
  <2>3. Url(a, c) = Fail(z, "INVALID_VERSION")
    BY <1>2, <1>4, <1>6, <2>1, UrlIs
  <2> QED
    BY <2>2, <2>3, FailAgree
<1>7. CASE c \in {"cr", "lf"} /\ get
  <2>1. PICK v : v = OldVersion(a, s)
    OBVIOUS
  <2>2. PICK w : w = OldVersion(b, s)
    OBVIOUS
  <2>3. /\ Moved(a, v) /\ v.state = s /\ v.req = a.req /\ v.complete = a.complete /\ v.errno = a.errno
        /\ v.qs = a.qs /\ v.version = <<0, 9>>
        /\ \A f \in ParserFields \ {"state", "version"} : v[f] = a[f]
    BY <1>1, <2>1, OldVersionMoves
  <2>4. /\ Moved(b, w) /\ w.state = s /\ w.req = b.req /\ w.qs = b.qs /\ w.version = <<0, 9>>
        /\ \A f \in ParserFields \ {"state", "version"} : w[f] = b[f]
    BY <1>1, <2>2, OldVersionMoves
  <2>5. SameControl(v, w)
    BY <1>1, <2>3, <2>4 DEF SameControl, ParserFields
  <2>6. s \in Elsewhere
    BY <1>4 DEF Elsewhere
  <2>7. Agree(Flush(v), Flush(w))
    BY <1>1, <2>3, <2>4, <2>5, <2>6, TargetAgree
  <2>8. Url(a, c) = Flush(v)
    BY <1>2, <1>4, <1>7, <2>1, UrlIs
  <2>9. Url(b, c) = Flush(w)
    BY <1>3, <1>4, <1>7, <2>2, UrlIs
  <2> QED
    BY <2>7, <2>8, <2>9
<1>8. CASE c \notin {" ", "cr", "lf"}
  <2>1. Url(a, c) = Take(ParseUrlChar(a, c), "url", c)
    BY <1>2, <1>4, <1>8, UrlIs
  <2>2. Url(b, c) = Take(ParseUrlChar(b, c), "url", c)
    BY <1>3, <1>4, <1>8, UrlIs
  <2> QED
    BY <2>1, <2>2, LaterUrlCharAgree
<1> QED
  BY <1>5, <1>6, <1>7, <1>8

-----------------------------------------------------------------------------
(* Any symbol, in any state. *)

LEMMA ConsumeIs ==
  ASSUME NEW x, NEW c, NEW s, s = x.state
  PROVE  /\ s = "start_req" => Consume(x, c) = StartRequest(x, c)
         /\ s = "req_method" => Consume(x, c) = Method(x, c)
         /\ s = "spaces_before_url" => Consume(x, c) = SpacesBeforeUrl(x, c)
         /\ s \in {"schema", "schema_slash", "schema_slash_slash", "server_start"} => Consume(x, c) = UrlBegins(x, c)
         /\ s \in {"server", "server_with_at", "path", "query_start", "query"} => Consume(x, c) = Url(x, c)
         /\ s \in {"http_start", "http_HT"} => Consume(x, c) = HttpWord(x, c)
         /\ s \in {"http_major", "http_dot", "http_minor", "http_end"} => Consume(x, c) = HttpVersion(x, c)
         /\ s = "line_almost_done" => Consume(x, c) = LineAlmostDone(x, c)
         /\ s = "field_start" => Consume(x, c) = FieldStart(x, c)
         /\ s = "field" => Consume(x, c) = Field(x, c)
         /\ s \in {"discard_ws", "discard_ws_almost_done", "discard_lws"} => Consume(x, c) = DiscardSpaces(x, c)
         /\ s = "value" => Consume(x, c) = HeaderValue(x, c)
         /\ s = "header_almost_done" => Consume(x, c) = HeaderAlmostDone(x, c)
         /\ s = "value_lws" => Consume(x, c) = ValueLws(x, c)
         /\ s = "headers_almost_done" => Consume(x, c) = HeadersAlmostDone(x, c)
         /\ s = "body_identity" => Consume(x, c) = BodyIdentity(x, c)
         /\ s \in {"chunk_size_start", "chunk_size", "chunk_parameters"} => Consume(x, c) = ChunkSize(x, c)
         /\ s = "chunk_size_almost_done" => Consume(x, c) = ChunkSizeAlmostDone(x, c)
         /\ s = "chunk_data" => Consume(x, c) = ChunkData(x, c)
         /\ s \in {"chunk_data_almost_done", "chunk_data_done"} => Consume(x, c) = ChunkDataDone(x, c)
BY DEF Consume

LEMMA ConsumeFine ==
  ASSUME NEW x, Going(x), NEW c
  PROVE  Fine(x, Consume(x, c))
<1>1. PICK s : s = x.state
  OBVIOUS
<1>2. s \in Reading
  BY <1>1 DEF Going
<1>3. CASE s = "start_req"
  <2>1. Consume(x, c) = StartRequest(x, c)
    BY <1>1, <1>3, ConsumeIs
  <2> QED
    BY <1>1, <1>3, <2>1, StartRequestFine
<1>4. CASE s = "req_method"
  <2>1. Consume(x, c) = Method(x, c)
    BY <1>1, <1>4, ConsumeIs
  <2> QED
    BY <1>1, <1>4, <2>1, MethodFine
<1>5. CASE s = "spaces_before_url"
  <2>1. Consume(x, c) = SpacesBeforeUrl(x, c)
    BY <1>1, <1>5, ConsumeIs
  <2> QED
    BY <1>1, <1>5, <2>1, SpacesBeforeUrlFine
<1>6. CASE s \in {"schema", "schema_slash", "schema_slash_slash", "server_start"}
  <2>1. Consume(x, c) = UrlBegins(x, c)
    BY <1>1, <1>6, ConsumeIs
  <2> QED
    BY <1>1, <1>6, <2>1, UrlBeginsFine DEF UrlStates
<1>7. CASE s \in {"server", "server_with_at", "path", "query_start", "query"}
  <2>1. Consume(x, c) = Url(x, c)
    BY <1>1, <1>7, ConsumeIs
  <2> QED
    BY <1>1, <1>7, <2>1, UrlFine DEF UrlStates
<1>8. CASE s \in {"http_start", "http_HT"}
  <2>1. Consume(x, c) = HttpWord(x, c)
    BY <1>1, <1>8, ConsumeIs
  <2> QED
    BY <1>1, <1>8, <2>1, HttpWordFine
<1>9. CASE s \in {"http_major", "http_dot", "http_minor", "http_end"}
  <2>1. Consume(x, c) = HttpVersion(x, c)
    BY <1>1, <1>9, ConsumeIs
  <2> QED
    BY <1>1, <1>9, <2>1, HttpVersionFine
<1>10. CASE s = "line_almost_done"
  <2>1. Consume(x, c) = LineAlmostDone(x, c)
    BY <1>1, <1>10, ConsumeIs
  <2> QED
    BY <1>1, <1>10, <2>1, LineAlmostDoneFine
<1>11. CASE s = "field_start"
  <2>1. Consume(x, c) = FieldStart(x, c)
    BY <1>1, <1>11, ConsumeIs
  <2>2. x.mark = "none"
    BY <1>1, <1>11, NothingMarked DEF Elsewhere
  <2> QED
    BY <2>1, <2>2, FieldStartFine
<1>12. CASE s = "field"
  <2>1. Consume(x, c) = Field(x, c)
    BY <1>1, <1>12, ConsumeIs
  <2> QED
    BY <1>1, <1>12, <2>1, FieldFine
<1>13. CASE s \in {"discard_ws", "discard_ws_almost_done", "discard_lws"}
  <2>1. Consume(x, c) = DiscardSpaces(x, c)
    BY <1>1, <1>13, ConsumeIs
  <2> QED
    BY <1>1, <1>13, <2>1, DiscardSpacesFine
<1>14. CASE s = "value"
  <2>1. Consume(x, c) = HeaderValue(x, c)
    BY <1>1, <1>14, ConsumeIs
  <2> QED
    BY <1>1, <1>14, <2>1, HeaderValueFine
<1>15. CASE s = "header_almost_done"
  <2>1. Consume(x, c) = HeaderAlmostDone(x, c)
    BY <1>1, <1>15, ConsumeIs
  <2> QED
    BY <1>1, <1>15, <2>1, HeaderAlmostDoneFine
<1>16. CASE s = "value_lws"
  <2>1. Consume(x, c) = ValueLws(x, c)
    BY <1>1, <1>16, ConsumeIs
  <2> QED
    BY <1>1, <1>16, <2>1, ValueLwsFine
<1>17. CASE s = "headers_almost_done"
  <2>1. Consume(x, c) = HeadersAlmostDone(x, c)
    BY <1>1, <1>17, ConsumeIs
  <2>2. x.mark = "none"
    BY <1>1, <1>17, NothingMarked DEF Elsewhere
  <2> QED
    BY <2>1, <2>2, HeadersAlmostDoneFine
<1>18. CASE s = "body_identity"
  <2>1. Consume(x, c) = BodyIdentity(x, c)
    BY <1>1, <1>18, ConsumeIs
  <2> QED
    BY <1>1, <1>18, <2>1, BodyIdentityFine
<1>19. CASE s \in {"chunk_size_start", "chunk_size", "chunk_parameters"}
  <2>1. Consume(x, c) = ChunkSize(x, c)
    BY <1>1, <1>19, ConsumeIs
  <2> QED
    BY <1>1, <1>19, <2>1, ChunkSizeFine
<1>20. CASE s = "chunk_size_almost_done"
  <2>1. Consume(x, c) = ChunkSizeAlmostDone(x, c)
    BY <1>1, <1>20, ConsumeIs
  <2> QED
    BY <1>1, <1>20, <2>1, ChunkSizeAlmostDoneFine
<1>21. CASE s = "chunk_data"
  <2>1. Consume(x, c) = ChunkData(x, c)
    BY <1>1, <1>21, ConsumeIs
  <2> QED
    BY <1>1, <1>21, <2>1, ChunkDataFine
<1>22. CASE s \in {"chunk_data_almost_done", "chunk_data_done"}
  <2>1. Consume(x, c) = ChunkDataDone(x, c)
    BY <1>1, <1>22, ConsumeIs
  <2> QED
    BY <1>1, <1>22, <2>1, ChunkDataDoneFine
<1> QED
  BY <1>2, <1>3, <1>4, <1>5, <1>6, <1>7, <1>8, <1>9, <1>10, <1>11, <1>12, <1>13, <1>14, <1>15, <1>16, <1>17, <1>18, <1>19, <1>20, <1>21, <1>22 DEF Reading, BeforeTarget, UrlStates, HalfBody, Elsewhere

LEMMA ConsumeAgree ==
  ASSUME NEW a, NEW b, Together(a, b), NEW c
  PROVE  Agree(Consume(a, c), Consume(b, c))
<1>1. PICK s : s = a.state
  OBVIOUS
<1>2. s \in Reading /\ s = b.state
  BY <1>1 DEF Together, Going, Same, Alike, Control
<1>3. CASE s = "start_req"
  <2>1. Consume(a, c) = StartRequest(a, c)
    BY <1>1, <1>3, ConsumeIs
  <2>2. Consume(b, c) = StartRequest(b, c)
    BY <1>2, <1>3, ConsumeIs
  <2> QED
    BY <1>1, <1>3, <2>1, <2>2, StartRequestAgree
<1>4. CASE s = "req_method"
  <2>1. Consume(a, c) = Method(a, c)
    BY <1>1, <1>4, ConsumeIs
  <2>2. Consume(b, c) = Method(b, c)
    BY <1>2, <1>4, ConsumeIs
  <2> QED
    BY <1>1, <1>4, <2>1, <2>2, MethodAgree
<1>5. CASE s = "spaces_before_url"
  <2>1. Consume(a, c) = SpacesBeforeUrl(a, c)
    BY <1>1, <1>5, ConsumeIs
  <2>2. Consume(b, c) = SpacesBeforeUrl(b, c)
    BY <1>2, <1>5, ConsumeIs
  <2> QED
    BY <1>1, <1>5, <2>1, <2>2, SpacesBeforeUrlAgree
<1>6. CASE s \in {"schema", "schema_slash", "schema_slash_slash", "server_start"}
  <2>1. Consume(a, c) = UrlBegins(a, c)
    BY <1>1, <1>6, ConsumeIs
  <2>2. Consume(b, c) = UrlBegins(b, c)
    BY <1>2, <1>6, ConsumeIs
  <2> QED
    BY <1>1, <1>6, <2>1, <2>2, UrlBeginsAgree DEF UrlStates
<1>7. CASE s \in {"server", "server_with_at", "path", "query_start", "query"}
  <2>1. Consume(a, c) = Url(a, c)
    BY <1>1, <1>7, ConsumeIs
  <2>2. Consume(b, c) = Url(b, c)
    BY <1>2, <1>7, ConsumeIs
  <2> QED
    BY <1>1, <1>7, <2>1, <2>2, UrlAgree DEF UrlStates
<1>8. CASE s \in {"http_start", "http_HT"}
  <2>1. Consume(a, c) = HttpWord(a, c)
    BY <1>1, <1>8, ConsumeIs
  <2>2. Consume(b, c) = HttpWord(b, c)
    BY <1>2, <1>8, ConsumeIs
  <2> QED
    BY <1>1, <1>8, <2>1, <2>2, HttpWordAgree
<1>9. CASE s \in {"http_major", "http_dot", "http_minor", "http_end"}
  <2>1. Consume(a, c) = HttpVersion(a, c)
    BY <1>1, <1>9, ConsumeIs
  <2>2. Consume(b, c) = HttpVersion(b, c)
    BY <1>2, <1>9, ConsumeIs
  <2> QED
    BY <1>1, <1>9, <2>1, <2>2, HttpVersionAgree
<1>10. CASE s = "line_almost_done"
  <2>1. Consume(a, c) = LineAlmostDone(a, c)
    BY <1>1, <1>10, ConsumeIs
  <2>2. Consume(b, c) = LineAlmostDone(b, c)
    BY <1>2, <1>10, ConsumeIs
  <2> QED
    BY <1>1, <1>10, <2>1, <2>2, LineAlmostDoneAgree
<1>11. CASE s = "field_start"
  <2>1. Consume(a, c) = FieldStart(a, c)
    BY <1>1, <1>11, ConsumeIs
  <2>2. Consume(b, c) = FieldStart(b, c)
    BY <1>2, <1>11, ConsumeIs
  <2>3. a.mark = "none" /\ b.mark = "none"
    BY <1>1, <1>11, TogetherUnmarked DEF Elsewhere
  <2> QED
    BY <2>1, <2>2, <2>3, FieldStartAgree
<1>12. CASE s = "field"
  <2>1. Consume(a, c) = Field(a, c)
    BY <1>1, <1>12, ConsumeIs
  <2>2. Consume(b, c) = Field(b, c)
    BY <1>2, <1>12, ConsumeIs
  <2> QED
    BY <1>1, <1>12, <2>1, <2>2, FieldAgree
<1>13. CASE s \in {"discard_ws", "discard_ws_almost_done", "discard_lws"}
  <2>1. Consume(a, c) = DiscardSpaces(a, c)
    BY <1>1, <1>13, ConsumeIs
  <2>2. Consume(b, c) = DiscardSpaces(b, c)
    BY <1>2, <1>13, ConsumeIs
  <2> QED
    BY <1>1, <1>13, <2>1, <2>2, DiscardSpacesAgree
<1>14. CASE s = "value"
  <2>1. Consume(a, c) = HeaderValue(a, c)
    BY <1>1, <1>14, ConsumeIs
  <2>2. Consume(b, c) = HeaderValue(b, c)
    BY <1>2, <1>14, ConsumeIs
  <2> QED
    BY <1>1, <1>14, <2>1, <2>2, HeaderValueAgree
<1>15. CASE s = "header_almost_done"
  <2>1. Consume(a, c) = HeaderAlmostDone(a, c)
    BY <1>1, <1>15, ConsumeIs
  <2>2. Consume(b, c) = HeaderAlmostDone(b, c)
    BY <1>2, <1>15, ConsumeIs
  <2> QED
    BY <1>1, <1>15, <2>1, <2>2, HeaderAlmostDoneAgree
<1>16. CASE s = "value_lws"
  <2>1. Consume(a, c) = ValueLws(a, c)
    BY <1>1, <1>16, ConsumeIs
  <2>2. Consume(b, c) = ValueLws(b, c)
    BY <1>2, <1>16, ConsumeIs
  <2> QED
    BY <1>1, <1>16, <2>1, <2>2, ValueLwsAgree
<1>17. CASE s = "headers_almost_done"
  <2>1. Consume(a, c) = HeadersAlmostDone(a, c)
    BY <1>1, <1>17, ConsumeIs
  <2>2. Consume(b, c) = HeadersAlmostDone(b, c)
    BY <1>2, <1>17, ConsumeIs
  <2>3. a.mark = "none" /\ b.mark = "none"
    BY <1>1, <1>17, TogetherUnmarked DEF Elsewhere
  <2> QED
    BY <2>1, <2>2, <2>3, HeadersAlmostDoneAgree
<1>18. CASE s = "body_identity"
  <2>1. Consume(a, c) = BodyIdentity(a, c)
    BY <1>1, <1>18, ConsumeIs
  <2>2. Consume(b, c) = BodyIdentity(b, c)
    BY <1>2, <1>18, ConsumeIs
  <2> QED
    BY <1>1, <1>18, <2>1, <2>2, BodyIdentityAgree
<1>19. CASE s \in {"chunk_size_start", "chunk_size", "chunk_parameters"}
  <2>1. Consume(a, c) = ChunkSize(a, c)
    BY <1>1, <1>19, ConsumeIs
  <2>2. Consume(b, c) = ChunkSize(b, c)
    BY <1>2, <1>19, ConsumeIs
  <2> QED
    BY <1>1, <1>19, <2>1, <2>2, ChunkSizeAgree
<1>20. CASE s = "chunk_size_almost_done"
  <2>1. Consume(a, c) = ChunkSizeAlmostDone(a, c)
    BY <1>1, <1>20, ConsumeIs
  <2>2. Consume(b, c) = ChunkSizeAlmostDone(b, c)
    BY <1>2, <1>20, ConsumeIs
  <2> QED
    BY <1>1, <1>20, <2>1, <2>2, ChunkSizeAlmostDoneAgree
<1>21. CASE s = "chunk_data"
  <2>1. Consume(a, c) = ChunkData(a, c)
    BY <1>1, <1>21, ConsumeIs
  <2>2. Consume(b, c) = ChunkData(b, c)
    BY <1>2, <1>21, ConsumeIs
  <2> QED
    BY <1>1, <1>21, <2>1, <2>2, ChunkDataAgree
<1>22. CASE s \in {"chunk_data_almost_done", "chunk_data_done"}
  <2>1. Consume(a, c) = ChunkDataDone(a, c)
    BY <1>1, <1>22, ConsumeIs
  <2>2. Consume(b, c) = ChunkDataDone(b, c)
    BY <1>2, <1>22, ConsumeIs
  <2> QED
    BY <1>1, <1>22, <2>1, <2>2, ChunkDataDoneAgree
<1> QED
  BY <1>2, <1>3, <1>4, <1>5, <1>6, <1>7, <1>8, <1>9, <1>10, <1>11, <1>12, <1>13, <1>14, <1>15, <1>16, <1>17, <1>18, <1>19, <1>20, <1>21, <1>22 DEF Reading, BeforeTarget, UrlStates, HalfBody, Elsewhere

\* What a step does before the symbol is consumed.
Stepped(x, next) ==
  [x EXCEPT !.p = @ + 1, !.next = next, !.nread = IF x.state \in BodyStates THEN @ ELSE @ + 1]

LEMMA StepIs ==
  ASSUME NEW x, NEW c, NEW next, NEW y, y = Stepped(x, next)
  PROVE  /\ x.errno # "OK" => Step(x, c, next) = x
         /\ x.errno = "OK" /\ x.left => Step(x, c, next) = [x EXCEPT !.rest = TRUE]
         /\ x.errno = "OK" /\ ~x.left /\ y.nread > MaxHeader => Step(x, c, next) = Fail(y, "HEADER_OVERFLOW")
         /\ x.errno = "OK" /\ ~x.left /\ ~(y.nread > MaxHeader) => Step(x, c, next) = Consume(y, c)
BY DEF Step, Stepped

ReadCount(x) == IF x.state \in BodyStates THEN x.nread ELSE x.nread + 1

Further(x) == x.p + 1

LEMMA SteppedGoing ==
  ASSUME NEW x, Sound(x), x.errno = "OK", ~x.left, NEW next, NEW y, y = Stepped(x, next)
  PROVE  /\ Going(y) /\ y.next = next /\ y.p = Further(x) /\ y.state = x.state
         /\ y.nread = ReadCount(x)
         /\ \A f \in ParserFields \ {"p", "next", "nread"} : y[f] = x[f]
<1>1. PICK n : n = ReadCount(x)
  OBVIOUS
<1>2. PICK p : p = Further(x)
  OBVIOUS
<1>3. y = [x EXCEPT !.p = p, !.next = next, !.nread = n]
  BY <1>1, <1>2, Zenon DEF Stepped, ReadCount, Further
<1>4. /\ DOMAIN y = ParserFields /\ y.p = p /\ y.next = next /\ y.nread = n
      /\ \A f \in ParserFields \ {"p", "next", "nread"} : y[f] = x[f]
  BY <1>3 DEF Sound, Shaped, ParserFields, Rest, Control
<1>5. p \in Nat /\ p # 0
  BY <1>2 DEF Sound, Shaped, Further
<1>6. /\ y.state = x.state /\ y.errno = x.errno /\ y.complete = x.complete /\ y.left = x.left /\ y.mark = x.mark
      /\ y.text = x.text /\ y.req = x.req /\ y.field = x.field /\ y.value = x.value /\ y.handled = x.handled
      /\ y.start = x.start /\ y.qs = x.qs
  BY <1>4 DEF ParserFields, Rest, Control
<1>7. Shaped(y)
  BY <1>4, <1>5, <1>6 DEF Sound, Shaped
<1>8. Placed(y)
  BY <1>6 DEF Sound, Placed
<1>9. y.state \in Reading
  BY <1>6 DEF Sound, Placed
<1> QED
  BY <1>1, <1>2, <1>4, <1>5, <1>6, <1>7, <1>8, <1>9 DEF Going

LEMMA RestSet ==
  ASSUME NEW x, Sound(x), NEW y, y = [x EXCEPT !.rest = TRUE]
  PROVE  Sound(y) /\ y.rest = TRUE /\ y.cut = x.cut /\ y.errno = x.errno
<1>1. DOMAIN y = ParserFields /\ y.rest = TRUE /\ \A f \in ParserFields \ {"rest"} : y[f] = x[f]
  BY DEF Sound, Shaped, ParserFields, Rest
<1>2. /\ y.state = x.state /\ y.errno = x.errno /\ y.complete = x.complete /\ y.left = x.left /\ y.mark = x.mark
      /\ y.text = x.text /\ y.req = x.req /\ y.field = x.field /\ y.value = x.value /\ y.handled = x.handled
      /\ y.start = x.start /\ y.qs = x.qs /\ y.p = x.p /\ y.cut = x.cut
  BY <1>1 DEF ParserFields, Rest, Control
<1> QED
  BY <1>1, <1>2 DEF Sound, Shaped, Placed

\* A step keeps a parser sound, and forgets neither a cut nor more to come.
LEMMA StepFine ==
  ASSUME NEW x, Sound(x), NEW c, NEW next, NEW y, y = Step(x, c, next)
  PROVE  Sound(y) /\ (x.cut => y.cut) /\ (x.rest => y.rest)
<1>1. CASE x.errno # "OK"
  BY <1>1, StepIs
<1>2. CASE x.errno = "OK" /\ x.left
  <2>1. y = [x EXCEPT !.rest = TRUE]
    BY <1>2, StepIs
  <2> QED
    BY <2>1, RestSet
<1>3. CASE x.errno = "OK" /\ ~x.left
  <2>1. PICK z : z = Stepped(x, next)
    OBVIOUS
  <2>2. Going(z) /\ z.cut = x.cut /\ z.rest = x.rest
    BY <1>3, <2>1, SteppedGoing DEF ParserFields, Rest
  <2>3. y \in {Fail(z, "HEADER_OVERFLOW"), Consume(z, c)}
    BY <1>3, <2>1, StepIs
  <2>4. Fine(z, y)
    BY <2>2, <2>3, FailFine, ConsumeFine
  <2> QED
    BY <2>2, <2>4 DEF Fine
<1> QED
  BY <1>1, <1>2, <1>3

\* Two parsers that have seen the same bytes, while they are compared.
Related(a, b) == a.rest \/ b.rest \/ Agree(a, b)

LEMMA StepLeft ==
  ASSUME NEW x, x.errno = "OK", x.left, NEW c, NEW next
  PROVE  Step(x, c, next) = [x EXCEPT !.rest = TRUE]
BY DEF Step

LEMMA StepOver ==
  ASSUME NEW x, x.errno = "OK", ~x.left, NEW c, NEW next, NEW y, y = Stepped(x, next), y.nread > MaxHeader
  PROVE  Step(x, c, next) = Fail(y, "HEADER_OVERFLOW")
BY DEF Step, Stepped

LEMMA StepOn ==
  ASSUME NEW x, x.errno = "OK", ~x.left, NEW c, NEW next, NEW y, y = Stepped(x, next), ~(y.nread > MaxHeader)
  PROVE  Step(x, c, next) = Consume(y, c)
BY DEF Step, Stepped

LEMMA SteppedQuery ==
  ASSUME NEW a, NEW b, a.p \in Nat, b.p \in Nat, a.start \in Nat, b.start \in Nat, Query(a, b), NEW v, NEW w,
         v.p = Further(a), w.p = Further(b), v.start = a.start, w.start = b.start, v.req = a.req, w.req = b.req,
         v.state = a.state, v.qs = a.qs, w.qs = b.qs
  PROVE  Query(v, w)
BY DEF Query, Further

\* Two parsers that go together still do when the next symbol is there.
LEMMA SteppedTogether ==
  ASSUME NEW a, NEW b, Sound(a), Sound(b), Same(a, b), a.errno = "OK", ~a.left, b.errno = "OK", ~b.left,
         NEW m, NEW n, NEW v, v = Stepped(a, m), NEW w, w = Stepped(b, n)
  PROVE  Going(v) /\ Going(w) /\ Same(v, w) /\ v.next = m /\ w.next = n /\ v.nread = w.nread
<1>1. /\ Going(v) /\ v.next = m /\ v.p = Further(a) /\ v.state = a.state /\ v.nread = ReadCount(a)
      /\ \A f \in ParserFields \ {"p", "next", "nread"} : v[f] = a[f]
  <2>1. Going(v)
    BY SteppedGoing
  <2>2. v.next = m
    BY SteppedGoing
  <2>3. v.p = Further(a)
    BY SteppedGoing
  <2>4. v.state = a.state
    BY SteppedGoing
  <2>5. v.nread = ReadCount(a)
    BY SteppedGoing
  <2>6. \A f \in ParserFields \ {"p", "next", "nread"} : v[f] = a[f]
    BY SteppedGoing
  <2> QED
    BY <2>1, <2>2, <2>3, <2>4, <2>5, <2>6
<1>2. /\ Going(w) /\ w.next = n /\ w.p = Further(b) /\ w.state = b.state /\ w.nread = ReadCount(b)
      /\ \A f \in ParserFields \ {"p", "next", "nread"} : w[f] = b[f]
  <2>1. Going(w)
    BY SteppedGoing
  <2>2. w.next = n
    BY SteppedGoing
  <2>3. w.p = Further(b)
    BY SteppedGoing
  <2>4. w.state = b.state
    BY SteppedGoing
  <2>5. w.nread = ReadCount(b)
    BY SteppedGoing
  <2>6. \A f \in ParserFields \ {"p", "next", "nread"} : w[f] = b[f]
    BY SteppedGoing
  <2> QED
    BY <2>1, <2>2, <2>3, <2>4, <2>5, <2>6
<1>3. Alike(a, b) /\ Query(a, b)
  BY DEF Same
<1>4. v.nread = w.nread
  BY <1>1, <1>2, <1>3 DEF ReadCount, Alike, Control
<1>5. /\ v.req = a.req /\ v.handled = a.handled /\ v.left = a.left /\ v.mark = a.mark /\ v.text = a.text
      /\ v.building = a.building /\ v.field = a.field /\ v.value = a.value
      /\ v.qs = a.qs /\ v.start = a.start
  BY <1>1 DEF ParserFields, Rest
<1>6. /\ w.req = b.req /\ w.handled = b.handled /\ w.left = b.left /\ w.mark = b.mark /\ w.text = b.text
      /\ w.building = b.building /\ w.field = b.field /\ w.value = b.value
      /\ w.qs = b.qs /\ w.start = b.start
  BY <1>2 DEF ParserFields, Rest
<1>7. \A f \in Control : v[f] = w[f]
  <2>1. \A f \in Control : a[f] = b[f]
    BY <1>3 DEF Alike
  <2>2. \A f \in Control \ {"nread"} : f \in ParserFields \ {"p", "next", "nread"}
    BY DEF ParserFields, Rest, Control
  <2> QED
    BY <1>1, <1>2, <1>4, <2>1, <2>2
<1>8. /\ HeaderHeld(v) = HeaderHeld(a) /\ RawHeld(v) = RawHeld(a) /\ BodyHeld(v) = BodyHeld(a)
      /\ Masks(v) = Masks(a)
  BY <1>5 DEF HeaderHeld, FieldHeld, ValueHeld, RawHeld, BodyHeld, Masks
<1>9. /\ HeaderHeld(w) = HeaderHeld(b) /\ RawHeld(w) = RawHeld(b) /\ BodyHeld(w) = BodyHeld(b)
      /\ Masks(w) = Masks(b)
  BY <1>6 DEF HeaderHeld, FieldHeld, ValueHeld, RawHeld, BodyHeld, Masks
<1>10. Alike(v, w)
  BY <1>3, <1>5, <1>6, <1>7, <1>8, <1>9 DEF Alike
<1>11. Query(v, w)
  <2>1. a.p \in Nat /\ b.p \in Nat /\ a.start \in Nat /\ b.start \in Nat
    BY DEF Sound, Shaped
  <2>2. v.p = Further(a) /\ w.p = Further(b) /\ v.state = a.state
    BY <1>1, <1>2
  <2> QED
    BY <1>3, <1>5, <1>6, <2>1, <2>2, SteppedQuery
<1> QED
  BY <1>1, <1>2, <1>4, <1>10, <1>11 DEF Same

\* Both know the next symbol, or one of them does not.
Heard(m, n) == m = n \/ m = "" \/ n = ""

LEMMA StepRelated ==
  ASSUME NEW a, NEW b, Sound(a), Sound(b), Related(a, b), NEW c, NEW m, NEW n, Heard(m, n),
         NEW x, x = Step(a, c, m), NEW y, y = Step(b, c, n)
  PROVE  Related(x, y)
<1>1. (a.cut => x.cut) /\ (a.rest => x.rest)
  BY StepFine
<1>2. (b.cut => y.cut) /\ (b.rest => y.rest)
  BY StepFine
<1>3. CASE a.errno # "OK"
  <2>1. x = a
    BY <1>3, StepIs
  <2> QED
    BY <1>3, <2>1 DEF Related, Agree, Apart
<1>4. CASE a.rest \/ b.rest \/ a.cut \/ b.cut
  BY <1>1, <1>2, <1>4 DEF Related, Agree, Apart
<1>5. CASE a.errno = "OK" /\ Same(a, b)
  <2>1. Alike(a, b) /\ Query(a, b)
    BY <1>5 DEF Same
  <2>2. a.errno = "OK"
    BY <1>5
  <2>3. b.errno = "OK"
    BY <2>1, <2>2 DEF Alike, Control
  <2>4. b.state = a.state /\ a.nread = b.nread
    BY <2>1 DEF Alike, Control
  <2>5. CASE a.left
    <3>1. x = [a EXCEPT !.rest = TRUE]
      BY <2>2, <2>5, StepLeft
    <3> QED
      BY <3>1, RestSet DEF Related
  <2>6. CASE b.left
    <3>1. y = [b EXCEPT !.rest = TRUE]
      BY <2>3, <2>6, StepLeft
    <3> QED
      BY <3>1, RestSet DEF Related
  <2>7. CASE ~a.left /\ ~b.left
    <3>a. ~a.left
      BY <2>7
    <3>b. ~b.left
      BY <2>7
    <3>1. PICK v : v = Stepped(a, m)
      OBVIOUS
    <3>2. PICK w : w = Stepped(b, n)
      OBVIOUS
    <3>c. Same(a, b)
      BY <1>5
    <3>3. Going(v) /\ Going(w) /\ Same(v, w) /\ v.next = m /\ w.next = n /\ v.nread = w.nread
      BY <2>2, <2>3, <3>a, <3>b, <3>c, <3>1, <3>2, SteppedTogether
    <3>4. Together(v, w)
      BY <3>3 DEF Together, Heard
    <3>6. CASE v.nread > MaxHeader
      <4>1. x = Fail(v, "HEADER_OVERFLOW")
        BY <2>2, <3>a, <3>1, <3>6, StepOver
      <4> QED
        BY <3>4, <4>1, FailAgree DEF Related, Together, Going
    <3>7. CASE ~(v.nread > MaxHeader)
      <4>1. x = Consume(v, c)
        BY <2>2, <3>a, <3>1, <3>7, StepOn
      <4>2. ~(w.nread > MaxHeader)
        BY <3>3, <3>7
      <4>3. y = Consume(w, c)
        BY <2>3, <3>b, <3>2, <4>2, StepOn
      <4> QED
        BY <3>4, <4>1, <4>3, ConsumeAgree DEF Related
    <3> QED
      BY <3>6, <3>7
  <2> QED
    BY <2>5, <2>6, <2>7
<1> QED
  BY <1>3, <1>4, <1>5 DEF Related, Agree, Apart

-----------------------------------------------------------------------------
(* Two parsers side by side, through all the bytes of a read. *)

LEMMA AfterSaid ==
  ASSUME NEW x, NEW data, NEW i \in Nat
  PROVE  After(x, data, i + 1) = Step(After(x, data, i), data[i + 1], Following(data, i + 1))
BY AfterStep DEF Symbol

\* What the parser makes of the first symbols depends on these and the next.
LEMMA SamePrefix ==
  ASSUME NEW x, NEW d, NEW e, NEW m \in Nat,
         \A i \in 1 .. m : d[i] = e[i] /\ Following(d, i) = Following(e, i)
  PROVE  After(x, d, m) = After(x, e, m)
<1> DEFINE S == {i \in Nat : i <= m => After(x, d, i) = After(x, e, i)}
<1>1. 0 \in S
  BY AfterStep
<1>2. ASSUME NEW i \in Nat, i \in S PROVE i + 1 \in S
  <2> SUFFICES ASSUME i + 1 <= m PROVE After(x, d, i + 1) = After(x, e, i + 1)
    OBVIOUS
  <2>1. After(x, d, i) = After(x, e, i)
    BY <1>2
  <2>2. d[i + 1] = e[i + 1] /\ Following(d, i + 1) = Following(e, i + 1)
    OBVIOUS
  <2> QED
    BY <2>1, <2>2, AfterSaid, Zenon
<1>3. Nat \subseteq S
  <2> HIDE DEF S
  <2> QED
    BY <1>1, <1>2, NumbersInduct
<1> QED
  BY <1>3

\* One parser is given bytes read apart, the other has them among all others.
LEMMA SideBySide ==
  ASSUME NEW x, NEW y, NEW data, NEW all, NEW from \in Nat, NEW n \in Nat, Len(data) = n, Len(all) \in Nat,
         from + n <= Len(all), \A i \in 1 .. n : data[i] = all[from + i],
         Sound(Resumed(x)), Sound(After(y, all, from)), Related(Resumed(x), After(y, all, from))
  PROVE  /\ Sound(After(x, data, n)) /\ Sound(After(y, all, from + n))
         /\ Related(After(x, data, n), After(y, all, from + n))
<1> DEFINE A(i) == After(x, data, i)
           B(i) == After(y, all, from + i)
           S == {i \in Nat : i <= n => Sound(A(i)) /\ Sound(B(i)) /\ Related(A(i), B(i))}
<1>1. 0 \in S
  <2>1. A(0) = Resumed(x)
    BY AfterStep
  <2>2. from + 0 = from
    OBVIOUS
  <2>3. B(0) = After(y, all, from)
    BY <2>2
  <2>4. Sound(A(0)) /\ Sound(B(0)) /\ Related(A(0), B(0))
    BY <2>1, <2>3
  <2> QED
    BY <2>4
<1>2. ASSUME NEW i \in Nat, i \in S PROVE i + 1 \in S
  <2> SUFFICES ASSUME i + 1 <= n PROVE Sound(A(i + 1)) /\ Sound(B(i + 1)) /\ Related(A(i + 1), B(i + 1))
    OBVIOUS
  <2>1. Sound(A(i)) /\ Sound(B(i)) /\ Related(A(i), B(i))
    BY <1>2
  <2>2. A(i + 1) = Step(A(i), data[i + 1], Following(data, i + 1))
    BY AfterSaid
  <2>3. B(i + 1) = Step(B(i), data[i + 1], Following(all, from + (i + 1)))
    <3>1. PICK k \in Nat : k = from + i
      OBVIOUS
    <3>2. After(y, all, k + 1) = Step(After(y, all, k), all[k + 1], Following(all, k + 1))
      BY AfterSaid
    <3>3. k + 1 = from + (i + 1) /\ all[k + 1] = data[i + 1]
      BY <3>1
    <3> QED
      BY <3>1, <3>2, <3>3
  <2>4. Heard(Following(data, i + 1), Following(all, from + (i + 1)))
    <3>1. CASE i + 1 = n
      BY <3>1 DEF Heard, Following
    <3>2. CASE i + 1 # n
      <4>1. (i + 1) + 1 \in 1 .. n /\ from + (i + 1) # Len(all) /\ from + ((i + 1) + 1) = (from + (i + 1)) + 1
        BY <3>2
      <4>2. data[(i + 1) + 1] = all[(from + (i + 1)) + 1]
        BY <4>1
      <4> QED
        BY <3>2, <4>1, <4>2 DEF Heard, Following
    <3> QED
      BY <3>1, <3>2
  <2> HIDE DEF A, B
  <2>5. PICK a : a = A(i)
    OBVIOUS
  <2>6. PICK b : b = B(i)
    OBVIOUS
  <2>7. PICK c, m, k : c = data[i + 1] /\ m = Following(data, i + 1) /\ k = Following(all, from + (i + 1))
    OBVIOUS
  <2>8. A(i + 1) = Step(a, c, m) /\ B(i + 1) = Step(b, c, k) /\ Heard(m, k) /\ Sound(a) /\ Sound(b) /\ Related(a, b)
    BY <2>1, <2>2, <2>3, <2>4, <2>5, <2>6, <2>7
  <2>9. Sound(A(i + 1)) /\ Sound(B(i + 1))
    BY <2>8, StepFine
  <2>10. Related(A(i + 1), B(i + 1))
    BY <2>8, StepRelated
  <2> QED
    BY <2>9, <2>10
<1>3. Nat \subseteq S
  <2> HIDE DEF S
  <2> QED
    BY <1>1, <1>2, NumbersInduct
<1>4. n \in S /\ n <= n
  BY <1>3
<1> QED
  BY <1>4

-----------------------------------------------------------------------------
(* The end of a read. *)

\* What is known of a name, value, target or body is handed on.
Unwhole(x) == [x EXCEPT !.req.whole = @ /\ x.mark # "url"]

Ended(x) == IF x.errno # "OK" \/ x.left THEN x ELSE Flush(Unwhole(x))

LEMMA ExecuteIs ==
  ASSUME NEW x, NEW data
  PROVE  Execute(x, data) = Ended(After(x, data, Len(data)))
BY DEF Execute, Ended, Unwhole

LEMMA UnwholeIs ==
  ASSUME NEW x, Sound(x), NEW z, z = Unwhole(x)
  PROVE  /\ Shaped(z) /\ Kept(x, z)
         /\ \A f \in ParserFields \ {"req"} : z[f] = x[f]
         /\ \A f \in RequestControl : z.req[f] = x.req[f]
         /\ x.mark = "url" => ~z.req.whole
<1>1. PICK w : w = (x.req.whole /\ x.mark # "url")
  OBVIOUS
<1>2. z = [x EXCEPT !.req.whole = w]
  BY <1>1, Zenon DEF Unwhole
<1>3. DOMAIN x = ParserFields /\ DOMAIN x.req = RequestFields /\ x.start \in Nat
  BY DEF Sound, Shaped
<1>4. /\ DOMAIN z = ParserFields /\ DOMAIN z.req = RequestFields
      /\ \A f \in ParserFields \ {"req"} : z[f] = x[f]
      /\ \A f \in RequestFields \ {"whole"} : z.req[f] = x.req[f]
      /\ z.req.whole = w
  BY <1>2, <1>3 DEF ParserFields, RequestFields
<1>5. Moved(x, z)
  BY <1>3, <1>4 DEF Moved, ParserFields, RequestFields, RequestControl, Rest
<1>6. Kept(x, z)
  BY <1>5, MovedKeeps DEF Sound
<1>7. \A f \in RequestControl : z.req[f] = x.req[f]
  BY <1>4 DEF RequestFields, RequestControl
<1>8. x.mark = "url" => ~z.req.whole
  BY <1>1, <1>4
<1> QED
  BY <1>4, <1>6, <1>7, <1>8 DEF Kept

\* Marks of a parser that goes on.
LEMMA SoundMark ==
  ASSUME NEW x, Sound(x), x.errno = "OK"
  PROVE  /\ x.mark \in {"none", "url", "field", "value", "body"}
         /\ x.mark = "url" <=> x.state \in UrlStates
         /\ x.mark = "field" <=> x.state = "field"
         /\ x.mark = "value" <=> x.state = "value"
         /\ x.left => x.mark = "none"
<1>1. Placed(x)
  BY DEF Sound
<1>2. x.mark = MarkOf(x.state) \/ (x.state \in HalfBody /\ x.mark = "body")
  BY <1>1 DEF Placed
<1>3. x.left => x.state \in {"start_req", "headers_done"}
  BY <1>1 DEF Placed
<1>4. x.mark \in {"none", "url", "field", "value", "body"}
  BY <1>2 DEF MarkOf
<1>5. x.mark = "url" <=> x.state \in UrlStates
  BY <1>2 DEF MarkOf, UrlStates, HalfBody
<1>6. x.mark = "field" <=> x.state = "field"
  BY <1>2 DEF MarkOf, UrlStates, HalfBody
<1>7. x.mark = "value" <=> x.state = "value"
  BY <1>2 DEF MarkOf, UrlStates, HalfBody
<1>8. x.left => x.mark = "none"
  BY <1>2, <1>3 DEF MarkOf, UrlStates, HalfBody
<1> QED
  BY <1>4, <1>5, <1>6, <1>7, <1>8

\* Handing on changes nothing but where things are held, unless a target is
\* answered early, which is an error of the parser.
LEMMA EndedIs ==
  ASSUME NEW x, Sound(x), x.errno = "OK", NEW y, y = Ended(x)
  PROVE  /\ y.mark = "none" /\ y.rest = x.rest /\ (x.cut => y.cut)
         /\ x.mark = "url" /\ x.req.method = "OPTIONS" => y.errno # "OK"
         /\ x.mark = "url" /\ x.req.method = "HEAD" => y.cut
         /\ ~(x.mark = "url" /\ x.req.method \in {"OPTIONS", "HEAD"}) => y.errno = "OK"
         /\ y.errno = "OK" =>
              /\ Kept(x, y)
              /\ \A f \in Control \cup {"qs"} : y[f] = x[f]
              /\ \A f \in RequestControl : y.req[f] = x.req[f]
<1>1. CASE x.left
  <2>1. y = x
    BY <1>1 DEF Ended
  <2>2. x.mark = "none"
    BY <1>1, SoundMark
  <2>3. Kept(x, x)
    BY DEF Sound, Kept
  <2> QED
    BY <2>1, <2>2, <2>3
<1>2. CASE ~x.left
  <2>1. PICK z : z = Unwhole(x)
    OBVIOUS
  <2>2. y = Flush(z)
    BY <1>2, <2>1 DEF Ended
  <2>3. /\ Shaped(z) /\ Kept(x, z)
        /\ \A f \in ParserFields \ {"req"} : z[f] = x[f]
        /\ \A f \in RequestControl : z.req[f] = x.req[f]
        /\ x.mark = "url" => ~z.req.whole
    BY <2>1, UnwholeIs
  <2>4. /\ z.mark = x.mark /\ z.errno = x.errno /\ z.state = x.state /\ z.rest = x.rest /\ z.cut = x.cut
        /\ z.req.method = x.req.method
        /\ \A f \in Control \cup {"qs"} : z[f] = x[f]
    BY <2>3 DEF ParserFields, Control, Rest, RequestControl
  <2>5. CASE x.mark = "url"
    <3>1. z.mark = "url" /\ z.errno = "OK" /\ z.state \notin {"dead", "start_req"} /\ ~z.req.whole
      BY <2>3, <2>4, <2>5, SoundMark DEF UrlStates
    <3>2. /\ Shaped(y) /\ y.mark = "none"
          /\ \A f \in {"left", "rest", "p", "next"} : y[f] = z[f]
          /\ z.cut => y.cut
          /\ z.req.method = "HEAD" /\ ~z.req.whole => y.cut
          /\ AnsweredByRouter(z) => y.errno # "OK"
          /\ ~AnsweredByRouter(z) =>
               /\ Kept(z, y)
               /\ \A f \in Control \cup {"qs", "start"} : y[f] = z[f]
               /\ \A f \in RequestControl \cup {"whole"} : y.req[f] = z.req[f]
      BY <2>2, <2>3, <3>1, FlushTarget
    <3>3. z.req.method = "OPTIONS" => AnsweredByRouter(z)
      BY DEF AnsweredByRouter
    <3>4. z.req.method \notin {"OPTIONS", "HEAD"} => ~AnsweredByRouter(z)
      BY DEF AnsweredByRouter
    <3>5. ~AnsweredByRouter(z) =>
            Kept(x, y) /\ (\A f \in Control \cup {"qs"} : y[f] = x[f]) /\ (\A f \in RequestControl : y.req[f] = x.req[f])
      <4> SUFFICES ASSUME ~AnsweredByRouter(z)
                   PROVE  Kept(x, y) /\ (\A f \in Control \cup {"qs"} : y[f] = x[f])
                            /\ (\A f \in RequestControl : y.req[f] = x.req[f])
        OBVIOUS
      <4>1. Kept(x, y)
        BY <2>3, <3>2 DEF Kept
      <4>2. \A f \in Control \cup {"qs"} : y[f] = x[f]
        BY <2>4, <3>2
      <4>3. \A f \in RequestControl : y.req[f] = x.req[f]
        BY <2>3, <3>2
      <4> QED
        BY <4>1, <4>2, <4>3
    <3>6. ~AnsweredByRouter(z) => y.errno = "OK"
      BY <3>5 DEF Control
    <3> QED
      BY <2>4, <3>1, <3>2, <3>3, <3>4, <3>5, <3>6
  <2>6. CASE x.mark # "url"
    <3>1. z.mark \in {"none", "field", "value", "body"}
      BY <2>4, <2>6, SoundMark
    <3>2. /\ Kept(z, y) /\ y.mark = "none"
          /\ \A f \in Control \cup {"next", "qs", "start", "cut"} : y[f] = z[f]
          /\ \A f \in RequestControl \cup {"whole"} : y.req[f] = z.req[f]
      BY <2>2, <2>3, <3>1, FlushKeeps
    <3>3. Kept(x, y)
      BY <2>3, <3>2 DEF Kept
    <3>4. \A f \in Control \cup {"qs"} : y[f] = x[f]
      BY <2>4, <3>2
    <3>5. \A f \in RequestControl : y.req[f] = x.req[f]
      BY <2>3, <3>2
    <3>6. y.errno = "OK" /\ y.rest = x.rest /\ (x.cut => y.cut)
      BY <3>3, <3>4 DEF Control, Kept
    <3> QED
      BY <2>6, <3>2, <3>3, <3>4, <3>5, <3>6
  <2> QED
    BY <2>5, <2>6
<1> QED
  BY <1>1, <1>2

-----------------------------------------------------------------------------
(* Between two reads. *)

\* A parser whose connection goes on.  What it was in the middle of decides how
\* the next piece is added to it.
Resting(p) ==
  /\ Shaped(p) /\ p.errno = "OK" /\ p.state \in Reading /\ ~p.complete /\ ~p.req.upgrade
  /\ p.mark = "none" /\ ~p.rest
  /\ p.state = "field" => p.building = 1
  /\ p.state = "value" => p.building = 0
  /\ p.state \in BeforeTarget => p.qs = 0
  /\ p.state \in UrlStates => p.req.method # "OPTIONS"

LEMMA ResumedIs ==
  ASSUME NEW p, Shaped(p), NEW r, r = Resumed(p)
  PROVE  /\ DOMAIN r = ParserFields /\ DOMAIN r.req = RequestFields
         /\ r.p = 0 /\ r.start = 0 /\ r.text = <<>> /\ r.left = FALSE /\ r.mark = MarkOf(p.state)
         /\ \A f \in ParserFields \ {"p", "start", "text", "left", "mark", "req"} : r[f] = p[f]
         /\ \A f \in RequestFields \ {"whole"} : r.req[f] = p.req[f]
         /\ p.state \in UrlStates => ~r.req.whole
<1>1. PICK w : w = (p.req.whole /\ p.state \notin UrlStates)
  OBVIOUS
<1>2. PICK k : k = MarkOf(p.state)
  OBVIOUS
<1>3. r = [p EXCEPT !.p = 0, !.start = 0, !.text = <<>>, !.left = FALSE, !.req.whole = w, !.mark = k]
  BY <1>1, <1>2, Zenon DEF Resumed, MarkOf
<1>4. DOMAIN p = ParserFields /\ DOMAIN p.req = RequestFields
  BY DEF Shaped
<1>5. /\ DOMAIN r = ParserFields /\ DOMAIN r.req = RequestFields
      /\ r.p = 0 /\ r.start = 0 /\ r.text = <<>> /\ r.left = FALSE /\ r.mark = k /\ r.req.whole = w
  BY <1>3, <1>4 DEF ParserFields, Rest, RequestFields
<1>6. \A f \in ParserFields \ {"p", "start", "text", "left", "mark", "req"} : r[f] = p[f]
  BY <1>3, <1>4 DEF ParserFields, Rest, Control
<1>7. \A f \in RequestFields \ {"whole"} : r.req[f] = p.req[f]
  BY <1>3, <1>4 DEF ParserFields, Rest, RequestFields, RequestControl
<1>8. p.state \in UrlStates => ~r.req.whole
  BY <1>1, <1>5
<1> QED
  BY <1>2, <1>5, <1>6, <1>7, <1>8

\* The next read begins with a sound parser, which holds what the last one left.
LEMMA ResumedSound ==
  ASSUME NEW p, Resting(p), NEW r, r = Resumed(p)
  PROVE  /\ Sound(r) /\ r.errno = "OK" /\ ~r.rest /\ r.cut = p.cut /\ ~r.left /\ r.state = p.state
         /\ \A f \in Control : r[f] = p[f]
         /\ \A f \in RequestControl : r.req[f] = p.req[f]
         /\ HeaderHeld(r) = HeaderHeld(p) /\ RawHeld(r) = RawHeld(p) /\ BodyHeld(r) = BodyHeld(p)
         /\ Masks(r) = Masks(p)
         /\ r.state \in UrlStates => ~r.req.whole
<1>1. /\ DOMAIN r = ParserFields /\ DOMAIN r.req = RequestFields
      /\ r.p = 0 /\ r.start = 0 /\ r.text = <<>> /\ r.left = FALSE /\ r.mark = MarkOf(p.state)
      /\ \A f \in ParserFields \ {"p", "start", "text", "left", "mark", "req"} : r[f] = p[f]
      /\ \A f \in RequestFields \ {"whole"} : r.req[f] = p.req[f]
      /\ p.state \in UrlStates => ~r.req.whole
  BY ResumedIs DEF Resting
<1>2. /\ r.state = p.state /\ r.errno = p.errno /\ r.complete = p.complete /\ r.rest = p.rest /\ r.cut = p.cut
      /\ r.field = p.field /\ r.value = p.value /\ r.building = p.building /\ r.handled = p.handled /\ r.qs = p.qs
  BY <1>1 DEF ParserFields, Rest, Control
<1>3. /\ r.req.raw = p.req.raw /\ r.req.headers = p.req.headers /\ r.req.body = p.req.body
      /\ r.req.upgrade = p.req.upgrade
  BY <1>1 DEF RequestFields, RequestControl
<1>4. Shaped(r)
  BY <1>1, <1>2, <1>3, IsSeqEmpty DEF Resting, Shaped
<1>5. Placed(r)
  BY <1>1, <1>2, <1>3 DEF Resting, Placed
<1>6. \A f \in Control : r[f] = p[f]
  BY <1>1 DEF ParserFields, Control
<1>7. \A f \in RequestControl : r.req[f] = p.req[f]
  BY <1>1 DEF RequestFields, RequestControl
<1>8. /\ p.field \o <<>> = p.field /\ p.value \o <<>> = p.value /\ p.req.raw \o <<>> = p.req.raw
      /\ p.req.body \o <<>> = p.req.body
  BY ConcatEmpty DEF Resting, Shaped
<1>9. Masks(r) = Masks(p)
  BY <1>2 DEF Masks
<1>10. RawHeld(r) = RawHeld(p) /\ BodyHeld(r) = BodyHeld(p)
  <2>1. RawHeld(p) = p.req.raw /\ BodyHeld(p) = p.req.body
    BY DEF Resting, RawHeld, BodyHeld
  <2>2. RawHeld(r) = p.req.raw
    BY <1>1, <1>3, <1>8 DEF RawHeld
  <2>3. BodyHeld(r) = p.req.body
    BY <1>1, <1>3, <1>8 DEF BodyHeld
  <2> QED
    BY <2>1, <2>2, <2>3
<1>11. HeaderHeld(r) = HeaderHeld(p)
  <2>1. HeaderHeld(p) = <<p.building, p.field, p.value, p.req.headers>>
    BY DEF Resting, HeaderHeld
  <2>2. CASE p.state = "field"
    <3>1. r.mark = "field" /\ r.building = 1
      <4>1. r.mark = "field"
        BY <1>1, <2>2 DEF MarkOf, UrlStates
      <4>2. r.building = 1
        BY <1>2, <2>2 DEF Resting
      <4> QED
        BY <4>1, <4>2
    <3> QED
      BY <1>1, <1>2, <1>3, <1>8, <2>1, <3>1 DEF HeaderHeld, FieldHeld
  <2>3. CASE p.state = "value"
    <3>1. r.mark = "value" /\ r.building = 0
      <4>1. r.mark = "value"
        BY <1>1, <2>3 DEF MarkOf, UrlStates
      <4>2. r.building = 0
        BY <1>2, <2>3 DEF Resting
      <4> QED
        BY <4>1, <4>2
    <3> QED
      BY <1>1, <1>2, <1>3, <1>8, <2>1, <3>1 DEF HeaderHeld, ValueHeld
  <2>4. CASE p.state \notin {"field", "value"}
    <3>1. r.mark \notin {"field", "value"}
      BY <1>1, <2>4 DEF MarkOf
    <3> QED
      BY <1>2, <1>3, <2>1, <3>1 DEF HeaderHeld
  <2> QED
    BY <2>2, <2>3, <2>4
<1>12. Sound(r) /\ r.errno = "OK" /\ ~r.rest /\ ~r.left
  BY <1>1, <1>2, <1>4, <1>5 DEF Resting, Sound
<1>13. r.state \in UrlStates => ~r.req.whole
  BY <1>1, <1>2
<1> QED
  BY <1>2, <1>6, <1>7, <1>9, <1>10, <1>11, <1>12, <1>13

LEMMA ResumedSame ==
  ASSUME NEW p, Resting(p), NEW b, Alike(p, b), NEW r, r = Resumed(p)
  PROVE  Same(r, b)
<1>1. /\ ~r.left
      /\ \A f \in Control : r[f] = p[f]
      /\ \A f \in RequestControl : r.req[f] = p.req[f]
      /\ HeaderHeld(r) = HeaderHeld(p) /\ RawHeld(r) = RawHeld(p) /\ BodyHeld(r) = BodyHeld(p)
      /\ Masks(r) = Masks(p)
      /\ r.state \in UrlStates => ~r.req.whole
  BY ResumedSound
<1>2. Alike(r, b)
  BY <1>1 DEF Alike
<1>3. Query(r, b)
  BY <1>1 DEF Query
<1> QED
  BY <1>2, <1>3 DEF Same

\* What a read leaves to the next one.
Leaves(f) == [f EXCEPT !.mark = "none", !.text = <<>>, !.p = 0, !.start = 0, !.next = ""]

LEMMA EndOfRead ==
  ASSUME NEW a, Sound(a), NEW f, f = Ended(a), GoesOn(f), NEW q, q = Leaves(f)
  PROVE  /\ Resting(q) /\ ~a.rest /\ (a.cut => q.cut) /\ a.errno = "OK"
         /\ \A b : Alike(a, b) => Alike(q, b)
<1>1. f.errno = "OK" /\ ~f.rest
  BY DEF GoesOn
<1>2. a.errno = "OK"
  BY <1>1 DEF Ended
<1>3. /\ f.mark = "none" /\ f.rest = a.rest /\ (a.cut => f.cut)
      /\ a.mark = "url" /\ a.req.method = "OPTIONS" => f.errno # "OK"
      /\ Kept(a, f)
      /\ \A g \in Control \cup {"qs"} : f[g] = a[g]
      /\ \A g \in RequestControl : f.req[g] = a.req[g]
  BY <1>1, <1>2, EndedIs
<1>4. Shaped(f) /\ f.handled = a.handled /\ f.left = a.left
  BY <1>3 DEF Kept
<1>5. /\ DOMAIN q = ParserFields /\ q.mark = "none" /\ q.text = <<>> /\ q.p = 0 /\ q.start = 0
      /\ \A g \in ParserFields \ {"mark", "text", "p", "start", "next"} : q[g] = f[g]
  BY <1>4 DEF Leaves, Shaped, ParserFields, Rest, Control
<1>6. /\ q.state = f.state /\ q.errno = f.errno /\ q.complete = f.complete /\ q.rest = f.rest /\ q.cut = f.cut
      /\ q.field = f.field /\ q.value = f.value /\ q.building = f.building /\ q.handled = f.handled /\ q.qs = f.qs
      /\ q.req = f.req /\ q.left = f.left
  BY <1>5 DEF ParserFields, Rest, Control
<1>7. Shaped(q)
  BY <1>4, <1>5, <1>6, IsSeqEmpty DEF Shaped
<1>8. f.state = a.state /\ f.complete = a.complete /\ f.qs = a.qs
  BY <1>3 DEF Control
<1>9. f.req.upgrade = a.req.upgrade /\ f.req.method = a.req.method
  BY <1>3 DEF RequestControl
<1>10. Placed(a)
  BY <1>2 DEF Sound
<1>11. a.state \in Reading
  BY <1>4, <1>10 DEF Placed, GoesOn
<1>12. ~a.complete /\ ~a.req.upgrade /\ (a.state \in BeforeTarget => a.qs = 0)
  BY <1>10, <1>11 DEF Placed
<1>13. HeaderHeld(f) = HeaderHeld(a) /\ HeaderHeld(f) = <<f.building, f.field, f.value, f.req.headers>>
  BY <1>3 DEF Kept, HeaderHeld
<1>14. a.state = "field" => f.building = 1
  <2> SUFFICES ASSUME a.state = "field" PROVE f.building = 1
    OBVIOUS
  <2>1. a.mark = "field"
    BY <1>2, SoundMark
  <2>2. HeaderHeld(a)[1] = 1
    BY <2>1 DEF HeaderHeld, FieldHeld
  <2> QED
    BY <1>13, <2>2
<1>15. a.state = "value" => f.building = 0
  <2> SUFFICES ASSUME a.state = "value" PROVE f.building = 0
    OBVIOUS
  <2>1. a.mark = "value"
    BY <1>2, SoundMark
  <2>2. HeaderHeld(a)[1] = 0
    BY <2>1 DEF HeaderHeld, ValueHeld
  <2> QED
    BY <1>13, <2>2
<1>16. a.state \in UrlStates => a.req.method # "OPTIONS"
  BY <1>1, <1>2, <1>3, SoundMark
<1>17. Resting(q)
  BY <1>1, <1>5, <1>6, <1>7, <1>8, <1>9, <1>11, <1>12, <1>14, <1>15, <1>16 DEF Resting
<1>18. ASSUME NEW b, Alike(a, b) PROVE Alike(q, b)
  <2>1. HeaderHeld(q) = HeaderHeld(a) /\ RawHeld(q) = RawHeld(a) /\ BodyHeld(q) = BodyHeld(a) /\ Masks(q) = Masks(a)
    <3>1. HeaderHeld(q) = HeaderHeld(f)
      BY <1>3, <1>5, <1>6 DEF HeaderHeld
    <3>2. RawHeld(q) = RawHeld(f) /\ BodyHeld(q) = BodyHeld(f)
      BY <1>3, <1>5, <1>6 DEF RawHeld, BodyHeld
    <3>3. Masks(q) = Masks(f)
      BY <1>6 DEF Masks
    <3> QED
      BY <1>3, <3>1, <3>2, <3>3 DEF Kept
  <2>2. \A g \in Control : q[g] = a[g]
    BY <1>3, <1>5 DEF ParserFields, Rest, Control
  <2>3. \A g \in RequestControl : q.req[g] = a.req[g]
    BY <1>3, <1>6
  <2> QED
    BY <1>4, <1>6, <1>18, <2>1, <2>2, <2>3 DEF Alike
<1>19. ~a.rest /\ (a.cut => q.cut)
  BY <1>1, <1>3, <1>6
<1> QED
  BY <1>2, <1>17, <1>18, <1>19

-----------------------------------------------------------------------------
(* The connection, read by read. *)

\* A connection's parser, and one that has read the first bytes at once.
Beside(p, all, n) ==
  LET b == After(NewParser, all, n)
  IN Sound(b) /\ (p.cut \/ b.cut \/ b.rest \/ Alike(p, b))

ReadInv ==
  /\ wire \in Wires /\ pos \in 0 .. Len(wire.bytes)
  /\ open => /\ Resting(parser)
             /\ Beside(parser, wire.bytes, pos)
             /\ Beside(parser, SubSeq(wire.bytes, 1, pos), pos)

\* A read that goes on leaves the connection's parser beside the other.
LEMMA OneRead ==
  ASSUME NEW p, Resting(p), NEW n \in Nat, NEW m \in Nat, NEW all, Len(all) \in Nat, n + m <= Len(all),
         Beside(p, all, n), NEW data, Len(data) = m, \A i \in 1 .. m : data[i] = all[n + i],
         NEW f, f = Execute(p, data), GoesOn(f), NEW q, q = Leaves(f)
  PROVE  Resting(q) /\ Beside(q, all, n + m)
<1>1. PICK r : r = Resumed(p)
  OBVIOUS
<1>2. PICK b : b = After(NewParser, all, n)
  OBVIOUS
<1>3. PICK a : a = After(p, data, m)
  OBVIOUS
<1>4. PICK c : c = After(NewParser, all, n + m)
  OBVIOUS
<1>5. Sound(b) /\ (p.cut \/ b.cut \/ b.rest \/ Alike(p, b))
  BY <1>2 DEF Beside
<1>6. Sound(r) /\ r.cut = p.cut
  BY <1>1, ResumedSound
<1>7. Related(r, b)
  <2>1. CASE Alike(p, b)
    BY <1>1, <2>1, ResumedSame DEF Related, Agree
  <2> QED
    BY <1>5, <1>6, <2>1 DEF Related, Agree, Apart
<1>8. Sound(a) /\ Sound(c) /\ Related(a, c)
  BY <1>1, <1>2, <1>3, <1>4, <1>5, <1>6, <1>7, SideBySide
<1>9. f = Ended(a)
  BY <1>3, ExecuteIs
<1>10. /\ Resting(q) /\ ~a.rest /\ (a.cut => q.cut) /\ a.errno = "OK"
       /\ \A d : Alike(a, d) => Alike(q, d)
  BY <1>8, <1>9, EndOfRead
<1>11. q.cut \/ c.cut \/ c.rest \/ Alike(q, c)
  BY <1>8, <1>10 DEF Related, Agree, Apart, Same
<1> QED
  BY <1>4, <1>8, <1>10, <1>11 DEF Beside

LEMMA BytesAre ==
  ASSUME NEW s \in Seq(STRING), NEW n \in 0 .. Len(s)
  PROVE  /\ Len(s) \in Nat /\ Len(SubSeq(s, 1, n)) = n
         /\ \A i \in 1 .. n : SubSeq(s, 1, n)[i] = s[i]
OBVIOUS

LEMMA PieceIs ==
  ASSUME NEW s \in Seq(STRING), NEW n \in 0 .. Len(s), NEW m \in 1 .. Len(s) - n
  PROVE  /\ n \in Nat /\ m \in Nat /\ n + m \in 0 .. Len(s) /\ n + m <= Len(s)
         /\ Len(SubSeq(s, n + 1, n + m)) = m
         /\ \A i \in 1 .. m : SubSeq(s, n + 1, n + m)[i] = s[n + i]
OBVIOUS

\* To the parser that has read some bytes only, those after them do not matter.
LEMMA LessRead ==
  ASSUME NEW s \in Seq(STRING), NEW n \in Nat, NEW m \in 0 .. Len(s), n < m
  PROVE  After(NewParser, SubSeq(s, 1, m), n) = After(NewParser, s, n)
<1>1. PICK d : d = SubSeq(s, 1, m)
  OBVIOUS
<1>2. Len(s) \in Nat /\ Len(d) = m /\ \A i \in 1 .. m : d[i] = s[i]
  BY <1>1, BytesAre
<1>3. ASSUME NEW i \in 1 .. n PROVE d[i] = s[i] /\ Following(d, i) = Following(s, i)
  <2>1. i \in 1 .. m /\ i + 1 \in 1 .. m /\ i # Len(d) /\ i # Len(s)
    BY <1>2
  <2> QED
    BY <1>2, <2>1 DEF Following
<1> QED
  BY <1>1, <1>3, SamePrefix

LEMMA NewRests == Resting(NewParser) /\ NewParser.left = FALSE
BY IsSeqEmpty DEF Resting, NewParser, NoRequest, Shaped, ParserFields, Control, Rest, RequestFields, RequestControl,
  Reading, BeforeTarget, UrlStates

LEMMA ReadInit == Init => ReadInv
<1> SUFFICES ASSUME Init PROVE ReadInv
  OBVIOUS
<1>1. wire \in Wires /\ pos = 0 /\ parser = NewParser
  BY DEF Init
<1>2. Len(wire.bytes) \in Nat
  BY <1>1, WiresAssumption
<1>3. ASSUME NEW all PROVE Beside(parser, all, pos)
  <2>1. PICK p : p = NewParser
    OBVIOUS
  <2>2. PICK b : b = Resumed(p)
    OBVIOUS
  <2>3. Resting(p) /\ p.left = FALSE
    BY <2>1, NewRests
  <2>4. After(NewParser, all, 0) = b
    BY <2>1, <2>2, AfterStep
  <2>5. /\ Sound(b)
        /\ \A f \in Control : b[f] = p[f]
        /\ \A f \in RequestControl : b.req[f] = p.req[f]
        /\ HeaderHeld(b) = HeaderHeld(p) /\ RawHeld(b) = RawHeld(p) /\ BodyHeld(b) = BodyHeld(p)
        /\ Masks(b) = Masks(p)
    BY <2>2, <2>3, ResumedSound
  <2>6. Alike(p, b)
    BY <2>3, <2>5 DEF Alike
  <2> QED
    BY <1>1, <2>1, <2>4, <2>5, <2>6 DEF Beside
<1> QED
  BY <1>1, <1>2, <1>3, NewRests DEF ReadInv

LEMMA ReadKeeps == ASSUME ReadInv, [Next]_vars PROVE ReadInv'
<1>1. CASE UNCHANGED vars
  <2>1. wire' = wire /\ pos' = pos /\ parser' = parser /\ open' = open
    BY <1>1 DEF vars
  <2> QED
    BY <2>1 DEF ReadInv
<1>2. CASE Next
  <2>1. open /\ wire' = wire
    BY <1>2 DEF Next, Read
  <2>2. PICK n \in 1 .. Len(wire.bytes) - pos :
          /\ parser' = Leaves(Feed(parser, SubSeq(wire.bytes, pos + 1, pos + n)))
          /\ pos' = pos + n
          /\ open' = GoesOn(Feed(parser, SubSeq(wire.bytes, pos + 1, pos + n)))
    BY <1>2, Zenon DEF Next, Read, Leaves
  <2>3. PICK s : s = wire.bytes
    OBVIOUS
  <2>4. /\ wire \in Wires /\ pos \in 0 .. Len(s)
        /\ Resting(parser) /\ Beside(parser, s, pos)
    BY <2>1, <2>3 DEF ReadInv
  <2>5. s \in Seq(STRING)
    BY <2>3, <2>4, WiresAssumption
  <2>6. PICK data : data = SubSeq(s, pos + 1, pos + n)
    OBVIOUS
  <2>7. PICK e : e = SubSeq(s, 1, pos + n)
    OBVIOUS
  <2>8. /\ pos \in Nat /\ n \in Nat /\ pos + n \in 0 .. Len(s) /\ pos + n <= Len(s)
        /\ Len(data) = n /\ \A i \in 1 .. n : data[i] = s[pos + i]
    BY <2>2, <2>3, <2>4, <2>5, <2>6, PieceIs
  <2>9. Len(s) \in Nat /\ Len(e) = pos + n /\ \A i \in 1 .. pos + n : e[i] = s[i]
    BY <2>5, <2>7, <2>8, BytesAre
  <2>10. PICK f : f = Execute(parser, data)
    OBVIOUS
  <2>11. Feed(parser, data) = f
    BY <2>4, <2>10 DEF Feed, Resting
  <2>12. parser' = Leaves(f) /\ pos' = pos + n /\ open' = GoesOn(f)
    BY <2>2, <2>3, <2>6, <2>11
  <2>13. Beside(parser, e, pos)
    <3>1. pos < pos + n
      BY <2>2, <2>8
    <3>2. After(NewParser, e, pos) = After(NewParser, s, pos)
      BY <2>5, <2>7, <2>8, <3>1, LessRead
    <3> QED
      BY <2>4, <3>2 DEF Beside
  <2>14. \A i \in 1 .. n : data[i] = e[pos + i]
    BY <2>8, <2>9
  <2>15. ASSUME GoesOn(f) PROVE Resting(parser') /\ Beside(parser', s, pos + n) /\ Beside(parser', e, pos + n)
    <3>1. PICK q : q = Leaves(f)
      OBVIOUS
    <3>2. Resting(q) /\ Beside(q, s, pos + n)
      BY <2>4, <2>8, <2>9, <2>10, <2>15, <3>1, OneRead
    <3>3. Len(e) \in Nat /\ pos + n <= Len(e)
      BY <2>8, <2>9
    <3>4. Resting(parser) /\ pos \in Nat /\ n \in Nat /\ Len(data) = n
      BY <2>4, <2>8
    <3>5. GoesOn(f)
      BY <2>15
    <3>6. Resting(q) /\ Beside(q, e, pos + n)
      BY <2>10, <2>13, <2>14, <3>1, <3>3, <3>4, <3>5, OneRead
    <3> QED
      BY <2>12, <3>1, <3>2, <3>6
  <2>16. wire'.bytes = s /\ pos' \in 0 .. Len(s) /\ wire' \in Wires
    BY <2>1, <2>3, <2>4, <2>8, <2>12
  <2> QED
    BY <2>7, <2>12, <2>15, <2>16 DEF ReadInv
<1> QED
  BY <1>1, <1>2

\* What the two leave is the same.
LEMMA LeftIs ==
  ASSUME NEW x, NEW y, \A f \in Control : x[f] = y[f], x.mark = "none", y.mark = "none",
         HeaderHeld(x) = HeaderHeld(y), Masks(x) = Masks(y)
  PROVE  Left(x) = Left(y)
<1>1. /\ x.state = y.state /\ x.header = y.header /\ x.index = y.index /\ x.flags = y.flags
      /\ x.encoded = y.encoded /\ x.length = y.length /\ x.errno = y.errno
  BY DEF Control
<1>2. x.building = y.building /\ x.field = y.field /\ x.value = y.value
  BY DEF HeaderHeld
<1>3. [i \in DOMAIN x.handled |-> [x.handled[i] EXCEPT !.url = <<>>, !.whole = TRUE]]
        = [i \in DOMAIN y.handled |-> [y.handled[i] EXCEPT !.url = <<>>, !.whole = TRUE]]
  BY DEF Masks, Masked
<1> QED
  BY <1>1, <1>2, <1>3 DEF Left

LEMMA ReadInvSays == ReadInv => ReadsDoNotMatter
<1> DEFINE one == Execute(NewParser, SubSeq(wire.bytes, 1, pos))
<1> SUFFICES ASSUME ReadInv, open, ~parser.cut, ~one.cut, ~one.rest PROVE Left(parser) = Left(one)
  BY DEF ReadsDoNotMatter
<1>1. PICK e : e = SubSeq(wire.bytes, 1, pos)
  OBVIOUS
<1>2. wire \in Wires /\ pos \in 0 .. Len(wire.bytes) /\ Resting(parser) /\ Beside(parser, e, pos)
  BY <1>1 DEF ReadInv
<1>3. Len(e) = pos
  BY <1>1, <1>2, BytesAre, WiresAssumption
<1>4. PICK b : b = After(NewParser, e, pos)
  OBVIOUS
<1>5. PICK y : y = Ended(b)
  OBVIOUS
<1>6. one = y
  BY <1>1, <1>3, <1>4, <1>5, ExecuteIs
<1> HIDE DEF one
<1>7. ~y.cut /\ ~y.rest
  BY <1>6
<1>8. Sound(b) /\ (b.cut \/ b.rest \/ Alike(parser, b))
  BY <1>2, <1>4 DEF Beside
<1>9. (b.cut => y.cut) /\ (b.rest => y.rest)
  <2>1. CASE b.errno # "OK"
    BY <1>5, <2>1 DEF Ended
  <2>2. CASE b.errno = "OK"
    BY <1>5, <1>8, <2>2, EndedIs
  <2> QED
    BY <2>1, <2>2
<1>10. Alike(parser, b)
  BY <1>7, <1>8, <1>9
<1>11. b.errno = "OK" /\ b.state = parser.state /\ b.req.method = parser.req.method
  BY <1>2, <1>10 DEF Alike, Control, RequestControl, Resting
<1>12. /\ y.mark = "none"
       /\ b.mark = "url" /\ b.req.method = "HEAD" => y.cut
       /\ ~(b.mark = "url" /\ b.req.method \in {"OPTIONS", "HEAD"}) => y.errno = "OK"
       /\ y.errno = "OK" => Kept(b, y) /\ (\A f \in Control \cup {"qs"} : y[f] = b[f])
  BY <1>5, <1>8, <1>11, EndedIs
<1>13. b.mark = "url" => b.req.method # "OPTIONS"
  BY <1>2, <1>8, <1>11, SoundMark DEF Resting
<1>14. y.errno = "OK"
  BY <1>7, <1>12, <1>13
<1>15. HeaderHeld(y) = HeaderHeld(parser) /\ Masks(y) = Masks(parser)
  BY <1>10, <1>12, <1>14 DEF Kept, Alike
<1>16. \A f \in Control : parser[f] = y[f]
  BY <1>10, <1>12, <1>14 DEF Alike
<1>17. parser.mark = "none"
  BY <1>2 DEF Resting
<1>18. Left(parser) = Left(y)
  BY <1>12, <1>15, <1>16, <1>17, LeftIs
<1> QED
  BY <1>6, <1>18

\* http_parser_merged.h:72: whatever bytes come, in however many reads that end
\* wherever they like (but where Left's properties say), the parser is left as
\* one read of them would leave it, and has handed on the same requests.
THEOREM ReadsAreOne == Spec => []ReadsDoNotMatter
<1>1. Spec => []ReadInv
  BY ReadInit, ReadKeeps, PTL DEF Spec
<1> QED
  BY <1>1, ReadInvSays, PTL
=============================================================================
