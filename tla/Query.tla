------------------------------- MODULE Query -------------------------------
(***************************************************************************)
(* The parameters behind the "?" of a target (crow/query_string.h): how    *)
(* they are parsed and decoded in place, and got and popped by handlers.   *)
(*                                                                         *)
(* A symbol stands for a byte; "nul" ends a string.  A pair of the vector  *)
(* is a pointer in the code, and here the string it points to.             *)
(***************************************************************************)
EXTENDS Integers, Sequences, FiniteSets, SequencesExt, Functions

CONSTANTS
  Targets,  \* targets that are asked for, and the pairs that were meant
  Asked,    \* names that handlers ask for
  MaxPairs  \* MAX_KEY_VALUE_PAIRS_COUNT

VARIABLES
  pairs,  \* key_value_pairs_
  left    \* what was meant, without what was popped

vars == <<pairs, left>>

HexDigits == {"0", "1", "2", "3", "5", "6", "b", "d"}

\* The characters that two hexadecimal digits stand for.
Codes ==
  (<<"0", "0">> :> "nul") @@ (<<"2", "0">> :> " ") @@ (<<"2", "5">> :> "%") @@ (<<"2", "6">> :> "&")
    @@ (<<"2", "b">> :> "+") @@ (<<"3", "d">> :> "=") @@ (<<"5", "b">> :> "[") @@ (<<"5", "d">> :> "]") @@ (<<"6", "1">> :> "a")

Ends == {"=", "#", "&", "nul"}

\* strcspn(): the symbols in front of the first of a set.
UpTo(s, set) == LET i == SelectInSeq(s, LAMBDA c : c \in set) IN IF i = 0 THEN s ELSE SubSeq(s, 1, i - 1)

Behind(s, n) == SubSeq(s, n + 1, Len(s))

IsEscape(s) == Len(s) > 2 /\ s[1] = "%" /\ s[2] \in HexDigits /\ s[3] \in HexDigits

\* qs_decode(): a "%" that no digits follow ends the value.
RECURSIVE Decoded(_)
Decoded(s) ==
  CASE s = <<>> \/ (s # <<>> /\ Head(s) \in Ends) -> <<>>
    [] s # <<>> /\ Head(s) = "%" ->
         IF IsEscape(s) THEN <<Codes[<<s[2], s[3]>>]>> \o Decoded(Behind(s, 3)) ELSE <<>>
    [] s # <<>> /\ Head(s) = "+" -> <<" ">> \o Decoded(Tail(s))
    [] OTHER -> <<Head(s)>> \o Decoded(Tail(s))

RECURSIVE SplitAt(_, _)
SplitAt(s, c) ==
  LET first == UpTo(s, {c})
  IN IF first = s THEN <<s>> ELSE <<first>> \o SplitAt(Behind(s, Len(first) + 1), c)

\* A pair as it is stored: its name as it was sent, and its value decoded.
Stored(piece) ==
  LET name == UpTo(piece, {"=", "#"})
  IN IF name = piece THEN piece
     ELSE UpTo(name \o <<piece[Len(name) + 1]>> \o Decoded(Behind(piece, Len(name) + 1)), {"nul"})

FirstOf(s, n) == SubSeq(s, 1, IF n < Len(s) THEN n ELSE Len(s))

\* qs_parse()
Parsed(target) ==
  LET path == UpTo(target, {"?", "#"})
      pieces == FirstOf(SplitAt(Behind(target, Len(path) + 1), "&"), MaxPairs)
  IN IF path = target THEN <<>>
     ELSE [i \in DOMAIN pieces |-> Stored(pieces[i])]

\* A byte of a name, and what is behind it, as qs_strncmp() reads them.
Byte(s) ==
  CASE s = <<>> \/ (s # <<>> /\ Head(s) \in Ends) -> [c |-> "nul", rest |-> <<>>]
    [] s # <<>> /\ Head(s) = "%" ->
         IF IsEscape(s) THEN [c |-> Codes[<<s[2], s[3]>>], rest |-> Behind(s, 3)] ELSE [c |-> "nul", rest |-> <<>>]
    [] s # <<>> /\ Head(s) = "+" -> [c |-> " ", rest |-> Tail(s)]
    [] OTHER -> [c |-> Head(s), rest |-> Tail(s)]

\* qs_strncmp(), for the first n bytes of a key.
RECURSIVE Same(_, _, _)
Same(key, s, n) ==
  LET u1 == Byte(key)
      u2 == Byte(s)
  IN CASE n = 0 -> s = <<>> \/ Head(s) \in Ends
       [] n # 0 /\ u1.c # u2.c -> FALSE
       [] n # 0 /\ u1.c = u2.c /\ u1.c = "nul" -> TRUE
       [] OTHER -> Same(u1.rest, u2.rest, n - 1)

ValueOf(pair) == Behind(pair, Len(UpTo(pair, {"="})) + 1)

\* qs_k2v(), for all of nth: the values of a key, in order.
GetAll(key) ==
  LET found == SelectSeq(pairs, LAMBDA p : Same(key, p, Len(key)))
  IN [i \in DOMAIN found |-> ValueOf(found[i])]

Brackets(name, use) == IF use THEN name \o <<"[", "]">> ELSE name

GetList(name, use) == GetAll(Brackets(name, use))

\* get(), without an answer if there is none.
Get(name) == IF GetAll(name) = <<>> THEN <<>> ELSE <<GetAll(name)[1]>>

\* qs_dict_name2kv(), for nth: it is counted down by every pair whose name begins
\* so, and one whose brackets close before they open stops what comes behind it.
DictAt(name, nth) ==
  LET found == SelectSeq(pairs, LAMBDA p : IsPrefix(name, p))
      p == found[nth + 1]
      open == IF UpTo(p, {"["}) = p THEN Len(p) ELSE Len(UpTo(p, {"["})) + 1
      close == Len(UpTo(p, {"]"}))
  IN IF nth < Len(found) /\ open > 0 /\ close > 0 /\ open <= close
     THEN <<SubSeq(p, open + 1, close), ValueOf(p)>> ELSE <<>>

\* get_dict(): the first value of a key counts.
GetDict(name) ==
  LET stops == {n \in 0 .. Len(pairs) : DictAt(name, n) = <<>>}
      stop == CHOOSE n \in stops : \A m \in stops : n <= m
      item == [n \in 1 .. stop |-> DictAt(name, n - 1)]
  IN [key \in {item[n][1] : n \in 1 .. stop} |->
        item[CHOOSE n \in 1 .. stop : item[n][1] = key /\ \A m \in 1 .. n - 1 : item[m][1] # key][2]]

\* keys()
Keys == [i \in DOMAIN pairs |-> UpTo(pairs[i], {"="})]

\* A faulty removal: the pair behind one that was erased is not looked at.
RECURSIVE ErasedAlternately(_, _)
ErasedAlternately(s, start) ==
  CASE s = <<>> -> <<>>
    [] s # <<>> /\ IsPrefix(start, Head(s)) /\ Len(s) > 1 -> <<s[2]>> \o ErasedAlternately(Behind(s, 2), start)
    [] OTHER -> (IF IsPrefix(start, Head(s)) THEN <<>> ELSE <<Head(s)>>) \o ErasedAlternately(Tail(s), start)

\* The pairs that do not begin so, once those that do are erased.
Erased(s, start) == SelectSeq(s, LAMBDA p : ~IsPrefix(start, p))

-----------------------------------------------------------------------------
Init ==
  \E t \in Targets :
    /\ pairs = Parsed(t.target)
    /\ left = FirstOf(t.meant, MaxPairs)

\* pop() erases the first pair that begins with the name as it is asked for.
Pop(name) ==
  LET i == SelectInSeq(pairs, LAMBDA p : IsPrefix(name \o <<"=">>, p))
      j == SelectInSeq(left, LAMBDA p : p.name = name)
  IN /\ Get(name) # <<>>
     /\ pairs' = IF i = 0 THEN pairs ELSE RemoveAt(pairs, i)
     /\ left' = IF j = 0 THEN left ELSE RemoveAt(left, j)

PopList(name, use) ==
  /\ GetList(name, use) # <<>>
  /\ pairs' = Erased(pairs, Brackets(name, use) \o <<"=">>)
  /\ left' = SelectSeq(left, LAMBDA p : p.name # Brackets(name, use))

PopDict(name) ==
  /\ DOMAIN GetDict(name) # {}
  /\ pairs' = Erased(pairs, name \o <<"[">>)
  /\ left' = SelectSeq(left, LAMBDA p : ~IsPrefix(name \o <<"[">>, p.name))

Next ==
  \E name \in Asked :
    \/ Pop(name)
    \/ \E use \in BOOLEAN : PopList(name, use)
    \/ PopDict(name)

Spec == Init /\ [][Next]_vars
=============================================================================
