-------------------------------- MODULE Json --------------------------------
(***************************************************************************)
(* JSON as the handlers read and write it (crow/json.h): load() of a       *)
(* request's body, the values it makes and how their strings are read, and *)
(* the values an answer is put together from, with dump().                 *)
(*                                                                         *)
(* A symbol stands for a byte, "nul" for the zero that ends a buffer; the  *)
(* three words are symbols, "1" stands for the digits from 1 to 9, "a" for *)
(* any other letter, and bytes above 127 for the character they are part   *)
(* of.                                                                     *)
(***************************************************************************)
EXTENDS Integers, Sequences, FiniteSets, SequencesExt, Functions

CONSTANTS
  Alphabets,  \* sets of symbols, each text is over one of them
  MaxText,    \* symbols of a text
  MaxDepth,   \* max_depth of load_nocopy_internal()
  MaxCopies,  \* copies of a string value
  Assigned,   \* what a handler assigns: paths and values
  MaxAssigned \* assignments of a handler

VARIABLES
  text,     \* a text to load
  buffer,   \* the string load() found: its bytes in memory, and the flag in front of them
  copies,   \* the rvalues of it: where each one takes it to end
  read,     \* what s() said last
  w,        \* the wvalue a handler puts together
  meant     \* the assignments it made

vars == <<text, buffer, copies, read, w, meant>>

-----------------------------------------------------------------------------
\* The values load() makes.  "raw" are the bytes from start_ to end_, "nt" the kind of a number.

Rvalue(t) == [t |-> t, ok |-> TRUE, raw |-> <<>>, nt |-> "Null", key |-> <<>>, items |-> <<>>]

NoValue == [Rvalue("Null") EXCEPT !.ok = FALSE]

Hex == {"0", "1", "a"}
HexValue == [c \in Hex |-> CASE c = "0" -> 0 [] c = "1" -> 1 [] c = "a" -> 10]

\* The characters after a backslash, and what they stand for.
Escapes == [quote |-> "quote", n |-> "lf"] @@ ("\\" :> "\\")

At(d, i) == IF i \in DOMAIN d THEN d[i] ELSE "nul"

\* A position where the parser goes on, with what it found, or with an error.
Found(v, at) == [v |-> v, at |-> at]
Wrong(at) == Found(NoValue, at)

Skip(d, i) == CHOOSE j \in i .. Len(d) + 1 : At(d, j) # " " /\ \A k \in i .. j - 1 : d[k] = " "

\* The code of a character written \uXXXX, which may take two or three bytes.
Character(code) == IF code = 10 THEN "lf" ELSE "u" \o ToString(code)

\* unescape()
RECURSIVE Unescaped(_)
Unescaped(s) ==
  CASE s = <<>> -> <<>>
    [] s # <<>> /\ Head(s) # "\\" -> <<Head(s)>> \o Unescaped(Tail(s))
    [] s # <<>> /\ Head(s) = "\\" /\ At(s, 2) \in DOMAIN Escapes ->
         <<Escapes[s[2]]>> \o Unescaped(SubSeq(s, 3, Len(s)))
    [] s # <<>> /\ Head(s) = "\\" /\ At(s, 2) = "u" ->
         <<Character(FoldLeft(LAMBDA n, c : 16 * n + HexValue[c], 0, SubSeq(s, 3, 6)))>> \o Unescaped(SubSeq(s, 7, Len(s)))
    [] OTHER -> Unescaped(SubSeq(s, 3, Len(s)))

\* determine_num_type()
NumberType(raw) ==
  CASE Range(raw) \cap {".", "e"} # {} -> "Floating_point"
    [] Range(raw) \cap {".", "e"} = {} /\ "-" \in Range(raw) -> "Signed_integer"
    [] OTHER -> "Unsigned_integer"

-----------------------------------------------------------------------------
\* load_nocopy_internal()

RECURSIVE StringEnd(_, _)
StringEnd(d, i) ==
  CASE At(d, i) = "quote" -> Found([Rvalue("String") EXCEPT !.raw = <<>>], i)
    [] At(d, i) = "nul" -> Wrong(i)
    [] At(d, i) = "\\" ->
         LET c == At(d, i + 1)
             other == {k \in 2 .. 5 : At(d, i + k) \notin Hex}
         IN CASE c = "u" /\ other = {} -> StringEnd(d, i + 6)
              [] c = "u" /\ other # {} -> Wrong(i + CHOOSE k \in other : \A l \in other : k <= l)
              [] OTHER -> IF c \in DOMAIN Escapes THEN StringEnd(d, i + 2) ELSE Wrong(i + 1)
    [] OTHER -> StringEnd(d, i + 1)

DecodeString(d, i) ==
  IF At(d, i) # "quote" THEN Wrong(i)
  ELSE LET end == StringEnd(d, i + 1)
       IN IF end.v.ok THEN Found([end.v EXCEPT !.raw = SubSeq(d, i + 1, end.at - 1)], end.at + 1) ELSE end

NumberSymbols == {"0", "1", ".", "-", "+", "e"}

\* A faulty table: the point is enough of a number.
AfterAnyPoint(state) == IF state \in {"Minus", "AfterMinus", "ZeroFirst", "Digits"} THEN "DigitsAfterPoints" ELSE "Invalid"

AfterPoint(state) == IF state \in {"ZeroFirst", "Digits"} THEN "DigitsAfterPoints" ELSE "Invalid"

\* The table of decode_number().
After(state, c) ==
  CASE c = "0" /\ state \in {"Minus", "AfterMinus"} -> "ZeroFirst"
    [] c = "1" /\ state \in {"Minus", "AfterMinus"} -> "Digits"
    [] c \in {"0", "1"} /\ state \in {"Digits", "DigitsAfterPoints"} -> state
    [] c \in {"0", "1"} /\ state \in {"E", "DigitsAfterE"} -> "DigitsAfterE"
    [] c = "." -> AfterPoint(state)
    [] c = "-" /\ state = "Minus" -> "AfterMinus"
    [] c \in {"-", "+"} /\ state = "E" -> "DigitsAfterE"
    [] c = "e" /\ state \in {"Digits", "DigitsAfterPoints"} -> "E"
    [] OTHER -> "Invalid"

RECURSIVE NumberEnd(_, _, _)
NumberEnd(d, i, state) ==
  CASE state = "Invalid" -> Wrong(i - 1)
    [] state # "Invalid" /\ At(d, i) \in NumberSymbols -> NumberEnd(d, i + 1, After(state, d[i]))
    [] OTHER -> IF state \in {"ZeroFirst", "Digits", "DigitsAfterPoints", "DigitsAfterE"}
                THEN Found(Rvalue("Number"), i) ELSE Wrong(i)

DecodeNumber(d, i) ==
  LET end == NumberEnd(d, i, "Minus")
      raw == SubSeq(d, i, end.at - 1)
  IN IF end.v.ok THEN Found([end.v EXCEPT !.raw = raw, !.nt = NumberType(raw)], end.at) ELSE end

Words == [true |-> "True", false |-> "False", null |-> "Null"]

RECURSIVE DecodeValue(_, _, _)
RECURSIVE DecodeItems(_, _, _, _)
RECURSIVE DecodeMembers(_, _, _, _)

\* decode_list(), from a value on.
AfterItem(d, depth, ret, item) ==
  LET j == Skip(d, item.at)
      longer == [ret EXCEPT !.items = Append(@, item.v)]
  IN CASE ~item.v.ok -> item
       [] item.v.ok /\ At(d, j) = "]" -> Found(longer, j + 1)
       [] item.v.ok /\ At(d, j) = "," -> DecodeItems(d, Skip(d, j + 1), depth, longer)
       [] OTHER -> Wrong(j)

DecodeItems(d, i, depth, ret) == AfterItem(d, depth, ret, DecodeValue(d, i, depth + 1))

DecodeList(d, i, depth) ==
  LET j == Skip(d, i + 1)
  IN CASE depth > MaxDepth -> Wrong(i)
       [] depth <= MaxDepth /\ At(d, j) = "]" -> Found(Rvalue("List"), j + 1)
       [] OTHER -> DecodeItems(d, j, depth, Rvalue("List"))

\* decode_object(), from a key on.
AfterMember(d, depth, ret, key, item) ==
  LET j == Skip(d, item.at)
      longer == [ret EXCEPT !.items = Append(@, [item.v EXCEPT !.key = Unescaped(key.raw)])]
  IN CASE ~item.v.ok -> item
       [] item.v.ok /\ At(d, j) = "}" -> Found(longer, j + 1)
       [] item.v.ok /\ At(d, j) = "," -> DecodeMembers(d, Skip(d, j + 1), depth, longer)
       [] OTHER -> Wrong(j)

AfterKey(d, depth, ret, key) ==
  LET colon == Skip(d, key.at)
  IN CASE ~key.v.ok -> key
       [] key.v.ok /\ At(d, colon) # ":" -> Wrong(colon)
       [] OTHER -> AfterMember(d, depth, ret, key.v, DecodeValue(d, Skip(d, colon + 1), depth + 1))

DecodeMembers(d, i, depth, ret) == AfterKey(d, depth, ret, DecodeString(d, i))

DecodeObject(d, i, depth) ==
  LET j == Skip(d, i + 1)
  IN CASE depth > MaxDepth -> Wrong(i)
       [] depth <= MaxDepth /\ At(d, j) = "}" -> Found(Rvalue("Object"), j + 1)
       [] OTHER -> DecodeMembers(d, j, depth, Rvalue("Object"))

DecodeValue(d, i, depth) ==
  CASE At(d, i) = "[" -> DecodeList(d, i, depth + 1)
    [] At(d, i) = "{" -> DecodeObject(d, i, depth + 1)
    [] At(d, i) = "quote" -> DecodeString(d, i)
    [] At(d, i) \in DOMAIN Words -> Found(Rvalue(Words[d[i]]), i + 1)
    [] OTHER -> DecodeNumber(d, i)

\* parse(), and load(), which copies the text and puts a zero behind it.
Parsed(d, ret) ==
  LET end == Skip(d, ret.at)
  IN CASE ~ret.v.ok -> ret
       [] ret.v.ok /\ At(d, end) = "nul" -> Found(ret.v, end)
       [] OTHER -> Wrong(end)

Load(d) == Parsed(d, DecodeValue(d, Skip(d, 1), 0))

-----------------------------------------------------------------------------
\* The values of an answer.  The fields of a wvalue stay when it becomes of another type, unless they are reset.

Wvalue(t) == [t |-> t, nt |-> "Null", num |-> 0, s |-> <<>>, l |-> <<>>, o |-> <<>>]

\* A faulty reset(): what was listed stays.
ResetType(v) == [v EXCEPT !.t = "Null"]

\* reset()
Reset(v) == [v EXCEPT !.t = "Null", !.l = <<>>, !.o = <<>>]

\* Digits of an integer, as lexical_cast reads them.
IntegerOf(raw) ==
  LET digits == SelectSeq(raw, LAMBDA c : c # "-")
      n == FoldLeft(LAMBDA m, c : 10 * m + HexValue[c], 0, digits)
  IN IF "-" \in Range(raw) THEN -n ELSE n

\* wvalue(const rvalue&): of two members with one key the first is taken.
RECURSIVE Rewritten(_)
Rewritten(r) ==
  LET to == Wvalue(r.t)
      member == [k \in {r.items[i].key : i \in DOMAIN r.items} |->
                   Rewritten(r.items[CHOOSE i \in DOMAIN r.items :
                                       r.items[i].key = k /\ \A j \in 1 .. i - 1 : r.items[j].key # k])]
  IN CASE r.t = "Number" -> [to EXCEPT !.nt = r.nt, !.num = IntegerOf(r.raw)]
       [] r.t = "String" -> [to EXCEPT !.s = Unescaped(r.raw)]
       [] r.t = "List" -> [to EXCEPT !.l = [i \in DOMAIN r.items |-> Rewritten(r.items[i])]]
       [] r.t = "Object" -> [to EXCEPT !.o = member]
       [] OTHER -> to

\* The constructors and operator=: the value v is assigned to what u was.
Assign(u, v) ==
  LET r == Reset(u)
  IN CASE v.t = "Number" -> [r EXCEPT !.t = v.t, !.nt = v.nt, !.num = v.num]
       [] v.t = "String" -> [r EXCEPT !.t = v.t, !.s = v.s]
       [] v.t = "List" -> [(IF u.t = "List" THEN u ELSE r) EXCEPT !.t = v.t, !.l = v.l]
       [] v.t = "Object" -> [(IF u.t = "Object" THEN u ELSE r) EXCEPT !.t = v.t, !.o = v.o]
       [] OTHER -> [r EXCEPT !.t = v.t]

\* operator[] with a key, or with an index, which makes the value an object, or
\* a list that is long enough, and assignment to what it returns.
AssignAt(u, path, v) ==
  CASE path = <<>> -> Assign(u, v)
    [] path # <<>> /\ path[1] = "key" ->
         LET r == IF u.t = "Object" THEN u ELSE Reset(u)
             old == IF path[2] \in DOMAIN r.o THEN r.o[path[2]] ELSE Wvalue("Null")
         IN [r EXCEPT !.t = "Object", !.o = (path[2] :> Assign(old, v)) @@ @]
    [] OTHER ->
         LET r == IF u.t = "List" THEN u ELSE Reset(u)
             size == IF path[2] > Len(r.l) THEN path[2] ELSE Len(r.l)
             old == [i \in 1 .. size |-> IF i <= Len(r.l) THEN r.l[i] ELSE Wvalue("Null")]
         IN [r EXCEPT !.t = "List", !.l = [old EXCEPT ![path[2]] = Assign(@, v)]]

\* escape()
Escaped(s) ==
  FlattenSeq([i \in DOMAIN s |->
    CASE s[i] \in {"quote", "\\"} -> <<"\\", s[i]>>
      [] s[i] = "lf" -> <<"\\", "n">>
      [] s[i] \in {"u" \o ToString(n) : n \in 0 .. 31} ->
           LET n == CHOOSE n \in 0 .. 31 : s[i] = "u" \o ToString(n)
           IN <<"\\", "u", "0", "0", ToString(n \div 16), IF n % 16 = 10 THEN "a" ELSE ToString(n % 16)>>
      [] OTHER -> <<s[i]>>])

\* to_string()
RECURSIVE Printed(_)
Printed(n) ==
  CASE n < 0 -> <<"-">> \o Printed(-n)
    [] n \in 0 .. 9 -> <<ToString(n)>>
    [] OTHER -> Append(Printed(n \div 10), ToString(n % 10))

\* A faulty end of the number: at the first zero after the point.
TrimmedAtZero(s) ==
  LET point == SelectInSeq(s, LAMBDA c : c = ".")
      zeros == {i \in point + 2 .. Len(s) : s[i] = "0"}
  IN IF point = 0 \/ zeros = {} THEN s ELSE SubSeq(s, 1, (CHOOSE i \in zeros : \A k \in zeros : i <= k) - 1)

\* What is left of the text printf() makes of a floating point number.
Trimmed(s) ==
  LET point == SelectInSeq(s, LAMBDA c : c = ".")
      from == IF point = 0 THEN Len(s) + 1 ELSE IF At(s, point + 1) = "0" THEN point + 2 ELSE point + 1
      zeros == {i \in from .. Len(s) : \A k \in i .. Len(s) : s[k] = "0"}
  IN IF zeros = {} THEN s ELSE SubSeq(s, 1, (CHOOSE i \in zeros : \A k \in zeros : i <= k) - 1)

Separated(seqs) == FlattenSeq([i \in DOMAIN seqs |-> IF i = 1 THEN seqs[i] ELSE <<",">> \o seqs[i]])

\* dump(): members of an object come in the order of its hash table.
RECURSIVE Dump(_)
Dump(v) ==
  LET keys == SetToSeq(DOMAIN v.o)
  IN CASE v.t = "Null" -> <<"null">>
       [] v.t = "True" -> <<"true">>
       [] v.t = "False" -> <<"false">>
       [] v.t = "Number" -> Printed(v.num)
       [] v.t = "String" -> <<"quote">> \o Escaped(v.s) \o <<"quote">>
       [] v.t = "List" -> <<"[">> \o Separated([i \in DOMAIN v.l |-> Dump(v.l[i])]) \o <<"]">>
       [] v.t = "Object" ->
            <<"{">> \o Separated([i \in DOMAIN keys |->
                         <<"quote">> \o Escaped(keys[i]) \o <<"quote", ":">> \o Dump(v.o[keys[i]])]) \o <<"}">>

-----------------------------------------------------------------------------
NoString == [data |-> <<>>, escaped |-> FALSE, raw |-> <<>>, shared |-> FALSE]

Init ==
  /\ text = <<>>
  /\ buffer = NoString
  /\ copies = <<>>
  /\ read = <<>>
  /\ w = Wvalue("Null")
  /\ meant = <<>>

\* The text goes on, as long as it matters how.
Type ==
  /\ Len(text) < MaxText
  /\ copies = <<>> /\ meant = <<>>
  /\ Load(text).at > Len(text)
  /\ \E alphabet \in Alphabets : \E c \in alphabet : Range(text) \subseteq alphabet /\ text' = Append(text, c)
  /\ UNCHANGED <<buffer, copies, read, w, meant>>

\* load() finds a string: the zero behind it replaces its quote, and the byte in
\* front of it says whether it has escapes.
LoadString ==
  /\ copies = <<>> /\ meant = <<>>
  /\ \E v \in {Load(text).v} :
       /\ v.ok /\ v.t = "String"
       /\ buffer' = [data |-> v.raw, escaped |-> "\\" \in Range(v.raw), raw |-> v.raw, shared |-> FALSE]
       /\ copies' = <<Len(v.raw)>>
  /\ UNCHANGED <<text, read, w, meant>>

\* rvalue(const rvalue&) copies the pointers, and neither the bytes nor the flag.
Copy ==
  /\ copies # <<>> /\ Len(copies) < MaxCopies
  /\ \E end \in Range(copies) : copies' = Append(copies, end)
  /\ buffer' = [buffer EXCEPT !.shared = @ \/ buffer.escaped]
  /\ UNCHANGED <<text, read, w, meant>>

\* The buffer with its first bytes replaced by the string s and a zero.
Overwritten(b, s) == s \o [i \in 1 .. Len(b.data) - Len(s) |-> IF i = 1 THEN "nul" ELSE b.data[Len(s) + i]]

\* A faulty unescape(): it does not say that it was done.
UnescapingAgain(b) == [b EXCEPT !.data = Overwritten(b, Unescaped(@))]

\* unescape(), in place.
Unescaping(b) == [b EXCEPT !.data = Overwritten(b, Unescaped(@)), !.escaped = FALSE]

\* s()
ReadString ==
  \E k \in DOMAIN copies :
    /\ IF buffer.escaped
       THEN LET b == Unescaping(buffer)
                end == Len(Unescaped(buffer.data))
            IN buffer' = b /\ copies' = [copies EXCEPT ![k] = end] /\ read' = SubSeq(b.data, 1, end)
       ELSE buffer' = buffer /\ copies' = copies /\ read' = SubSeq(buffer.data, 1, copies[k])
    /\ UNCHANGED <<text, w, meant>>

\* A handler assigns to its answer, or to a part of it.
Put ==
  /\ text = <<>> /\ Len(meant) < MaxAssigned
  /\ \E a \in Assigned : w' = AssignAt(w, a.path, a.value) /\ meant' = Append(meant, a)
  /\ UNCHANGED <<text, buffer, copies, read>>

Next == Type \/ LoadString \/ Copy \/ ReadString \/ Put

Spec == Init /\ [][Next]_vars
=============================================================================
