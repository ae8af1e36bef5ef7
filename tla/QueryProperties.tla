-------------------------- MODULE QueryProperties --------------------------
(***************************************************************************)
(* What handlers find in a query.                                          *)
(***************************************************************************)
EXTENDS Query

\* What "name[key]" is a key of.
InBrackets(name, p) ==
  /\ IsPrefix(name \o <<"[">>, p.name) /\ Last(p.name) = "]"

KeyOf(name, p) == SubSeq(p.name, Len(name) + 2, Len(p.name) - 1)

Values(s) == [i \in DOMAIN s |-> s[i].value]

\* A handler finds under each name the values that were meant, however they were
\* encoded, in their order, and without those it popped before, one by one, as a
\* list or as a dictionary.  The code does not keep this of names that are
\* encoded, or that begin like the name of a dictionary, and of pairs without "=":
\* those are never popped.
ContentsAreWhatIsLeft ==
  LET plain == \A i \in DOMAIN pairs : "=" \in Range(pairs[i]) /\ "%" \notin Range(UpTo(pairs[i], {"="}))
  IN plain =>
       /\ Keys = [i \in DOMAIN left |-> left[i].name]
       /\ \A name \in Asked :
            LET of == SelectSeq(left, LAMBDA p : p.name = name)
                dict == SelectSeq(left, LAMBDA p : InBrackets(name, p))
            IN /\ Get(name) = IF of = <<>> THEN <<>> ELSE <<of[1].value>>
               /\ \A use \in BOOLEAN :
                    GetList(name, use) = Values(SelectSeq(left, LAMBDA p : p.name = Brackets(name, use)))
               /\ (\A i \in DOMAIN left : IsPrefix(name, left[i].name) => InBrackets(name, left[i])) =>
                    /\ DOMAIN GetDict(name) = {KeyOf(name, p) : p \in Range(dict)}
                    /\ \A i \in DOMAIN dict :
                         (\A j \in 1 .. i - 1 : KeyOf(name, dict[j]) # KeyOf(name, dict[i])) =>
                           GetDict(name)[KeyOf(name, dict[i])] = dict[i].value
=============================================================================
