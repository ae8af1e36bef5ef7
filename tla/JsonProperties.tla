--------------------------- MODULE JsonProperties ---------------------------
(***************************************************************************)
(* What load() accepts, what strings read as, and what dump() writes.      *)
(***************************************************************************)
EXTENDS Json

\* JSON, by its grammar (RFC 8259), with what load() takes besides: digits may
\* be missing behind the point and behind the sign of an exponent, strings may hold any byte.
\* A zero has no exponent, though it may.

Blank(s) == Range(s) \subseteq {" "}

AllDigits(s) == Range(s) \subseteq {"0", "1"}

IsInteger(s) == s # <<>> /\ AllDigits(s) /\ (Len(s) > 1 => s[1] # "0")

IsFraction(s) == s # <<>> => s[1] = "." /\ AllDigits(Tail(s))

IsExponent(s) ==
  s # <<>> => s[1] = "e" /\ Len(s) > 1 /\ (s[2] \in {"+", "-", "0", "1"}) /\ AllDigits(SubSeq(s, 3, Len(s)))

IsNumber(s) ==
  \E i \in 0 .. 1, j, k \in 0 .. Len(s) :
    /\ i <= j /\ j <= k
    /\ SubSeq(s, 1, i) \in {<<>>, <<"-">>}
    /\ IsInteger(SubSeq(s, i + 1, j))
    /\ IsFraction(SubSeq(s, j + 1, k))
    /\ IsExponent(SubSeq(s, k + 1, Len(s)))
    /\ k < Len(s) => SubSeq(s, i + 1, k) # <<"0">>

RECURSIVE IsContent(_)
IsContent(s) ==
  \/ s = <<>>
  \/ s # <<>> /\ s[1] \notin {"quote", "\\", "nul"} /\ IsContent(Tail(s))
  \/ Len(s) > 1 /\ s[1] = "\\" /\ s[2] \in DOMAIN Escapes /\ IsContent(SubSeq(s, 3, Len(s)))
  \/ Len(s) > 5 /\ s[1] = "\\" /\ s[2] = "u" /\ Range(SubSeq(s, 3, 6)) \subseteq Hex /\ IsContent(SubSeq(s, 7, Len(s)))

IsString(s) == Len(s) > 1 /\ s[1] = "quote" /\ Last(s) = "quote" /\ IsContent(Tail(Front(s)))

\* Spaces around a part do not count.
Stripped(s) ==
  LET solid == {i \in DOMAIN s : s[i] # " "}
  IN IF solid = {} THEN <<>>
     ELSE SubSeq(s, CHOOSE i \in solid : \A j \in solid : i <= j, CHOOSE i \in solid : \A j \in solid : j <= i)

RECURSIVE IsValue(_, _)
RECURSIVE AreItems(_, _)
RECURSIVE AreMembers(_, _)
AreItems(s, n) ==
  \/ IsValue(Stripped(s), n)
  \/ \E k \in DOMAIN s : s[k] = "," /\ IsValue(Stripped(SubSeq(s, 1, k - 1)), n) /\ AreItems(SubSeq(s, k + 1, Len(s)), n)

IsMember(s, n) ==
  \E k \in DOMAIN s :
    s[k] = ":" /\ IsString(Stripped(SubSeq(s, 1, k - 1))) /\ IsValue(Stripped(SubSeq(s, k + 1, Len(s))), n)

AreMembers(s, n) ==
  \/ IsMember(s, n)
  \/ \E k \in DOMAIN s : s[k] = "," /\ IsMember(SubSeq(s, 1, k - 1), n) /\ AreMembers(SubSeq(s, k + 1, Len(s)), n)

\* A value in which containers are nested at most n deep.
IsValue(s, n) ==
  \/ Len(s) = 1 /\ s[1] \in DOMAIN Words
  \/ IsNumber(s)
  \/ IsString(s)
  \/ n > 0 /\ Len(s) > 1 /\ s[1] = "[" /\ Last(s) = "]" /\ (Blank(Tail(Front(s))) \/ AreItems(Tail(Front(s)), n - 1))
  \/ n > 0 /\ Len(s) > 1 /\ s[1] = "{" /\ Last(s) = "}" /\ (Blank(Tail(Front(s))) \/ AreMembers(Tail(Front(s)), n - 1))

\* What is behind a zero byte does not count.
UpToZero(s) == LET zero == SelectInSeq(s, LAMBDA c : c = "nul") IN IF zero = 0 THEN s ELSE SubSeq(s, 1, zero - 1)

\* A body is loaded exactly if it is JSON, with the differences named above, and
\* not nested deeper than max_depth allows, which counts every level twice.
LoadIsJson == Load(text).v.ok = IsValue(Stripped(UpToZero(text)), (MaxDepth + 1) \div 2)

-----------------------------------------------------------------------------
\* What a wvalue says, whatever its other fields hold.
RECURSIVE Meaning(_)
Meaning(v) ==
  [t |-> v.t, num |-> IF v.t = "Number" THEN v.num ELSE 0, s |-> IF v.t = "String" THEN v.s ELSE <<>>,
   l |-> IF v.t = "List" THEN [i \in DOMAIN v.l |-> Meaning(v.l[i])] ELSE <<>>,
   o |-> IF v.t = "Object" THEN {<<k, Meaning(v.o[k])>> : k \in DOMAIN v.o} ELSE {}]

RECURSIVE Whole(_)
Whole(r) == r.nt # "Floating_point" /\ \A i \in DOMAIN r.items : Whole(r.items[i])

\* What was assigned: a key or an index keeps what is at the others, if the value was an object, or a list, before.
Says(m, a) ==
  LET v == Meaning(a.value)
      others == IF m.t = "Object" THEN {x \in m.o : x[1] # a.path[2]} ELSE {}
      items == IF m.t = "List" THEN m.l ELSE <<>>
      longer == [i \in 1 .. (IF a.path[2] > Len(items) THEN a.path[2] ELSE Len(items)) |->
                   IF i = a.path[2] THEN v ELSE IF i <= Len(items) THEN items[i] ELSE Meaning(Wvalue("Null"))]
  IN CASE a.path = <<>> -> v
       [] a.path # <<>> /\ a.path[1] = "key" -> [Meaning(Wvalue("Object")) EXCEPT !.o = others \cup {<<a.path[2], v>>}]
       [] OTHER -> [Meaning(Wvalue("List")) EXCEPT !.l = longer]

LoadsAs(d, m) == \E v \in {Load(d).v} : v.ok /\ Meaning(Rewritten(v)) = m

\* The decimal digits of a number, and where its point is, without zeros that do not count.
NumberOf(s) ==
  LET e == SelectInSeq(s, LAMBDA c : c = "e")
      mantissa == IF e = 0 THEN s ELSE SubSeq(s, 1, e - 1)
      point == SelectInSeq(mantissa, LAMBDA c : c = ".")
      solid == {i \in DOMAIN mantissa : i < point \/ point = 0 \/ mantissa[i] # "0" \/ \E j \in i .. Len(mantissa) : mantissa[j] = "1"}
  IN [mantissa |-> SelectSeq(SubSeq(mantissa, 1, Cardinality(solid)), LAMBDA c : c # "."),
      point |-> IF point = 0 THEN Cardinality(solid) ELSE point - 1,
      e |-> IF e = 0 THEN <<>> ELSE SubSeq(s, e, Len(s))]

\* An answer says what its handler assigned last to each part of it, and is
\* JSON: loaded again it has the same parts, strings with their control characters
\* and quotes.  So has a value that came from a body.  json.h:1906, "this is so that
\* 1.00000 becomes 1.0 and not 1.": the zeros cut off a floating point number do
\* not change it.  The code does not keep this of one printed with a point and an
\* exponent that ends in zero.
DumpsLoadBack ==
  /\ LoadsAs(Dump(w), FoldLeft(Says, Meaning(Wvalue("Null")), meant))
  /\ \A v \in {Load(text).v} :
       /\ v.ok /\ Whole(v) => LoadsAs(Dump(Rewritten(v)), Meaning(Rewritten(v)))
       /\ v.ok /\ v.nt = "Floating_point" /\ v.raw = text /\ "e" \notin Range(text) =>
            NumberOf(Trimmed(text)) = NumberOf(text)

\* s() gives the string that was sent each time, unless a copy of the value was
\* made before the first time: then the copies that were not read do not know where it ends.
ReadsAgree == read # <<>> /\ ~buffer.shared => read = Unescaped(buffer.raw)
=============================================================================
