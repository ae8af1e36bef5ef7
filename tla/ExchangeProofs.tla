--------------------------- MODULE ExchangeProofs ---------------------------
(***************************************************************************)
(* Proofs about the router and the answers, for any applications: that the *)
(* tries find the rules of the reference, and what requests are answered.  *)
(***************************************************************************)
EXTENDS ExchangeProperties, FiniteSetTheorems, Induction

-----------------------------------------------------------------------------
(* Numbers. *)

\* Sets of naturals have a least member, and a greatest if they are bounded.
LEMMA LeastIs ==
  ASSUME NEW S, S \subseteq Nat, S # {}
  PROVE  \E n \in S : \A m \in S : n <= m
<1> DEFINE T == {n \in Nat : (\E k \in S : k <= n) => \E k \in S : \A m \in S : k <= m}
<1>1. 0 \in T
  OBVIOUS
<1>2. ASSUME NEW n \in Nat, n \in T PROVE n + 1 \in T
  <2> SUFFICES ASSUME NEW k \in S, k <= n + 1 PROVE \E l \in S : \A m \in S : l <= m
    OBVIOUS
  <2>1. CASE \E l \in S : l <= n
    BY <1>2, <2>1
  <2>2. CASE \A l \in S : ~(l <= n)
    <3>1. \A m \in S : k <= m
      BY <2>2
    <3> QED
      BY <3>1
  <2> QED
    BY <2>1, <2>2
<1>3. Nat \subseteq T
  <2> HIDE DEF T
  <2> QED
    BY <1>1, <1>2, NumbersInduct
<1>4. PICK k : k \in S
  OBVIOUS
<1>5. k \in Nat /\ k <= k
  BY <1>4
<1>6. k \in T
  <2> HIDE DEF T
  <2> QED
    BY <1>3, <1>5
<1>7. (\E l \in S : l <= k) => \E l \in S : \A m \in S : l <= m
  BY <1>6
<1> QED
  BY <1>4, <1>5, <1>7

\* GreatestOf picks an element that no other exceeds.
LEMMA GreatestIs ==
  ASSUME NEW S, NEW b \in Nat, S \subseteq 0 .. b, S # {}
  PROVE  \E n \in S : \A m \in S : n >= m
<1> DEFINE T == {b - n : n \in S}
<1>1. T \subseteq Nat /\ T # {}
  <2>1. \A n \in S : n \in Nat /\ n <= b
    OBVIOUS
  <2>2. \A n \in S : b - n \in Nat
    BY <2>1
  <2> QED
    BY <2>2
<1>2. PICK t \in T : \A u \in T : t <= u
  BY <1>1, LeastIs
<1>3. PICK n \in S : t = b - n
  BY <1>2
<1>4. \A m \in S : n >= m
  BY <1>2, <1>3
<1> QED
  BY <1>4

-----------------------------------------------------------------------------
(* What parameters and keys take of a target. *)

\* The symbols of targets and rules.
Symbols == STRING

Traits == {"INT", "UINT", "DOUBLE", "STRING", "PATH"}

\* What is left of a target ends it.
LEMMA EndingIs ==
  ASSUME NEW url \in Seq(Symbols), NEW n \in 0 .. Len(url)
  PROVE  /\ Ending(url, n) \in Seq(Symbols) /\ Len(Ending(url, n)) = n
         /\ \A i \in 1 .. n : Ending(url, n)[i] = url[Len(url) - n + i]
<1>1. Len(url) \in Nat /\ \A i \in 1 .. Len(url) : url[i] \in Symbols
  OBVIOUS
<1>2. Ending(url, n) = [i \in 1 .. n |-> url[Len(url) - n + i]]
  BY DEF Ending
<1> QED
  BY <1>1, <1>2

\* A parameter takes no more than is left.
LEMMA TakenFits ==
  ASSUME NEW s \in Seq(Symbols), NEW param
  PROVE  Taken(s, param) \in 0 .. Len(s)
<1> DEFINE numerals == {k \in DOMAIN s : IsNumeral(SubSeq(s, 1, k), param)}
           number == IF numerals = {} THEN 0 ELSE Max(numerals)
           slashes == {i \in 1 .. Len(s) : s[i] = "/"}
           slash == IF slashes # {} THEN Min(slashes) ELSE 0
<1>1. number \in 0 .. Len(s)
  <2>1. CASE numerals = {}
    BY <2>1
  <2>2. CASE numerals # {}
    <3>1. Len(s) \in Nat /\ numerals \subseteq 0 .. Len(s)
      OBVIOUS
    <3> HIDE DEF numerals
    <3>2. \E n \in numerals : \A m \in numerals : n >= m
      BY <2>2, <3>1, GreatestIs
    <3>3. Max(numerals) \in numerals
      BY <3>2 DEF Max
    <3> QED
      BY <2>2, <3>1, <3>3
  <2> QED
    BY <2>1, <2>2
<1>2. slash \in 0 .. Len(s)
  <2>1. CASE slashes # {}
    <3>1. Len(s) \in Nat /\ slashes \subseteq 0 .. Len(s) /\ slashes \subseteq Nat
      OBVIOUS
    <3> HIDE DEF slashes
    <3>2. \E n \in slashes : \A m \in slashes : n <= m
      BY <2>1, <3>1, LeastIs
    <3>3. Min(slashes) \in slashes
      BY <3>2 DEF Min
    <3> QED
      BY <2>1, <3>1, <3>3
  <2> QED
    BY <2>1
<1>3. slash = SelectInSeq(s, LAMBDA c : c = "/")
  BY DEF SelectInSeq
<1> DEFINE tooLong == Cardinality({i \in 1 .. number : s[i] \in Figures}) > MaxDigits
<1>4. Taken(s, param) = CASE param = "STRING" -> IF slash = 0 THEN Len(s) ELSE slash - 1
                          [] param = "PATH" -> Len(s)
                          [] param = "DOUBLE" -> number
                          [] OTHER -> IF tooLong THEN 0 ELSE number
  BY <1>3 DEF Taken
<1> HIDE DEF number, slash, tooLong
<1> QED
  BY <1>1, <1>2, <1>4

-----------------------------------------------------------------------------
(* Symbols of rules. *)

\* What parameters take is none of the keys, and a slash takes no parameter.
LEMMA TraitsAre ==
  /\ "/" \notin DOMAIN ParamTraits
  /\ \A c \in DOMAIN ParamTraits : ParamTraits[c] \in Traits /\ ParamTraits[c] # "MAX"
<1>1. \A c \in DOMAIN ParamTraits : ParamTraits[c] \in Traits
  BY DEF ParamTraits, Traits
<1>2. "/" \notin DOMAIN ParamTraits
  BY DEF ParamTraits
<1>3. \A t \in Traits : t # "MAX"
  BY DEF Traits
<1> QED
  BY <1>1, <1>2, <1>3

\* The node of a symbol.
LEMMA NodeOfIs ==
  ASSUME NEW c \in Symbols
  PROVE  /\ NodeOf(c).rule = 0 /\ NodeOf(c).children = {}
         /\ NodeOf(c).key \in Seq(Symbols) /\ NodeOf(c).param \in Traits \cup {"MAX"}
         /\ c \in DOMAIN ParamTraits => NodeOf(c).key = <<>> /\ NodeOf(c).param = ParamTraits[c] /\ NodeOf(c).param # "MAX"
         /\ c \notin DOMAIN ParamTraits => NodeOf(c).key = <<c>> /\ NodeOf(c).param = "MAX"
         /\ NodeOf(c) = [rule |-> 0, key |-> NodeOf(c).key, param |-> NodeOf(c).param, children |-> {}]
<1>0. <<c>> \in Seq(Symbols) /\ Len(<<c>>) = 1 /\ <<c>>[1] = c /\ <<>> \in Seq(Symbols)
  OBVIOUS
<1>1. CASE c \in DOMAIN ParamTraits
  <2>1. NodeOf(c) = [rule |-> 0, key |-> <<>>, param |-> ParamTraits[c], children |-> {}]
    BY <1>1 DEF NodeOf, Node
  <2>3. ParamTraits[c] \in Traits /\ ParamTraits[c] # "MAX"
    BY <1>1, TraitsAre
  <2> QED
    BY <1>0, <1>1, <2>1, <2>3
<1>2. CASE c \notin DOMAIN ParamTraits
  <2>1. NodeOf(c) = [rule |-> 0, key |-> <<c>>, param |-> "MAX", children |-> {}]
    BY <1>2 DEF NodeOf, Node
  <2> QED
    BY <1>0, <1>2, <2>1
<1> QED
  BY <1>1, <1>2

\* Nor does a symbol of a rule.
LEMMA TakenForFits ==
  ASSUME NEW c \in Symbols, NEW s \in Seq(Symbols)
  PROVE  TakenFor(c, s) \in 0 .. Len(s)
<1>1. CASE c \in DOMAIN ParamTraits
  <2>1. TakenFor(c, s) = Taken(s, ParamTraits[c])
    BY <1>1 DEF TakenFor
  <2> QED
    BY <2>1, TakenFits
<1>2. CASE c \notin DOMAIN ParamTraits /\ s # <<>> /\ Head(s) = c
  <2>1. TakenFor(c, s) = 1
    BY <1>2 DEF TakenFor
  <2> QED
    BY <1>2, <2>1
<1>3. CASE c \notin DOMAIN ParamTraits /\ ~(s # <<>> /\ Head(s) = c)
  <2>1. TakenFor(c, s) = 0
    BY <1>3 DEF TakenFor
  <2> QED
    BY <2>1
<1> QED
  BY <1>1, <1>2, <1>3

-----------------------------------------------------------------------------
(* What the last symbols of a rule read of those of a target. *)

\* The reading of j symbols, from that of one less.
Read(below, rule, url, j, n) ==
  IF j = 0 THEN [fits |-> n = 0, params |-> <<>>] ELSE ReadingFrom(below, rule[Len(rule) - j + 1], url, n)

IsReading(reading, rule, url, m) ==
  reading = [j \in 0 .. m |-> [n \in 0 .. Len(url) |-> Read(reading[j - 1], rule, url, j, n)]]

ReadingOf(rule, url) == CHOOSE reading : IsReading(reading, rule, url, Len(rule))

\* A reading exists for every length of the rule's end, by induction over it.
LEMMA ReadingsExist ==
  ASSUME NEW rule, NEW url
  PROVE  \A m \in Nat : \E reading : IsReading(reading, rule, url, m)
<1> DEFINE S == {m \in Nat : \E reading : IsReading(reading, rule, url, m)}
<1>1. 0 \in S
  <2> DEFINE row == [n \in 0 .. Len(url) |-> [fits |-> n = 0, params |-> <<>>]]
             zero == [j \in 0 .. 0 |-> row]
  <2>1. \A below, n : \A j \in 0 .. 0 : Read(below, rule, url, j, n) = [fits |-> n = 0, params |-> <<>>]
    BY DEF Read
  <2> HIDE DEF zero
  <2>2. \A j \in 0 .. 0 : [n \in 0 .. Len(url) |-> Read(zero[j - 1], rule, url, j, n)] = row
    <3> SUFFICES ASSUME NEW j \in 0 .. 0
                 PROVE  [n \in 0 .. Len(url) |-> Read(zero[j - 1], rule, url, j, n)] = row
      OBVIOUS
    <3>1. \A n : Read(zero[j - 1], rule, url, j, n) = [fits |-> n = 0, params |-> <<>>]
      BY <2>1, Zenon
    <3> QED
      BY <3>1, Zenon
  <2> USE DEF zero
  <2>3. IsReading(zero, rule, url, 0)
    BY <2>2, Zenon DEF IsReading
  <2> QED
    BY <2>3
<1>2. ASSUME NEW m \in Nat, m \in S PROVE m + 1 \in S
  <2>1. PICK f : IsReading(f, rule, url, m)
    BY <1>2
  <2> DEFINE row(g, j) == [n \in 0 .. Len(url) |-> Read(g[j - 1], rule, url, j, n)]
             g == [j \in 0 .. m + 1 |-> IF j = m + 1 THEN row(f, m + 1) ELSE f[j]]
  <2>2. ASSUME NEW j \in 0 .. m + 1 PROVE g[j] = row(g, j)
    <3>1. CASE j = 0
      <4>1. g[j] = f[0] /\ 0 \in 0 .. m
        BY <3>1
      <4>3. f[0] = row(f, 0)
        BY <2>1, <4>1 DEF IsReading
      <4>2. \A n : Read(f[0 - 1], rule, url, 0, n) = Read(g[0 - 1], rule, url, 0, n)
        BY DEF Read
      <4>4. row(f, 0) = row(g, 0)
        BY <4>2, Zenon
      <4> QED
        BY <3>1, <4>1, <4>3, <4>4
    <3>2. CASE j = m + 1
      <4>1. j - 1 = m /\ m \in 0 .. m + 1 /\ m # m + 1 /\ (m + 1) - 1 = m
        BY <3>2
      <4>2. g[j - 1] = f[m] /\ g[j] = row(f, m + 1)
        BY <3>2, <4>1
      <4> QED
        BY <3>2, <4>1, <4>2
    <3>3. CASE j # 0 /\ j # m + 1
      <4>1. j \in 0 .. m /\ j - 1 \in 0 .. m + 1 /\ j - 1 # m + 1
        BY <3>3
      <4>2. g[j - 1] = f[j - 1] /\ g[j] = f[j]
        BY <3>3, <4>1
      <4>3. f[j] = row(f, j)
        BY <2>1, <4>1 DEF IsReading
      <4> QED
        BY <4>2, <4>3
    <3> QED
      BY <3>1, <3>2, <3>3
  <2>3. g = [j \in 0 .. m + 1 |-> row(g, j)]
    BY <2>2, Zenon
  <2>4. IsReading(g, rule, url, m + 1)
    BY <2>3 DEF IsReading
  <2> QED
    BY <2>4
<1>3. Nat \subseteq S
  <2> HIDE DEF S
  <2> QED
    BY <1>1, <1>2, NumbersInduct
<1> QED
  BY <1>3

\* The reading of a rule and a target is one.
LEMMA ReadingIs ==
  ASSUME NEW rule \in Seq(Symbols), NEW url \in Seq(Symbols)
  PROVE  /\ Reading(rule, url) = ReadingOf(rule, url)[Len(rule)][Len(url)]
         /\ \A j \in 0 .. Len(rule), n \in 0 .. Len(url) :
              ReadingOf(rule, url)[j][n] = Read(ReadingOf(rule, url)[j - 1], rule, url, j, n)
<1>1. Len(rule) \in Nat
  OBVIOUS
<1>2. IsReading(ReadingOf(rule, url), rule, url, Len(rule))
  BY <1>1, ReadingsExist DEF ReadingOf
<1>3. Reading(rule, url) = ReadingOf(rule, url)[Len(rule)][Len(url)]
  BY Zenon DEF Reading, ReadingOf, IsReading, Read
<1> DEFINE row(f, j) == [n \in 0 .. Len(url) |-> Read(f[j - 1], rule, url, j, n)]
<1>4. \A j \in 0 .. Len(rule) : ReadingOf(rule, url)[j] = row(ReadingOf(rule, url), j)
  BY <1>2, Zenon DEF IsReading
<1>5. \A j \in 0 .. Len(rule), n \in 0 .. Len(url) :
        row(ReadingOf(rule, url), j)[n] = Read(ReadingOf(rule, url)[j - 1], rule, url, j, n)
  OBVIOUS
<1> QED
  BY <1>3, <1>4, <1>5, Zenon

\* Symbol by symbol, for a rule and a target that are given.
LEMMA ReadingSteps ==
  ASSUME NEW rule \in Seq(Symbols), NEW url \in Seq(Symbols)
  PROVE  /\ \A n \in 0 .. Len(url) : ReadingOf(rule, url)[0][n] = [fits |-> n = 0, params |-> <<>>]
         /\ \A j \in 1 .. Len(rule), n \in 0 .. Len(url) :
              ReadingOf(rule, url)[j][n] = ReadingFrom(ReadingOf(rule, url)[j - 1], rule[Len(rule) - j + 1], url, n)
<1>1. Len(rule) \in Nat /\ Len(url) \in Nat
  OBVIOUS
<1>2. ASSUME NEW n \in 0 .. Len(url) PROVE ReadingOf(rule, url)[0][n] = [fits |-> n = 0, params |-> <<>>]
  <2>1. 0 \in 0 .. Len(rule)
    BY <1>1
  <2>2. ReadingOf(rule, url)[0][n] = Read(ReadingOf(rule, url)[0 - 1], rule, url, 0, n)
    BY <2>1, ReadingIs
  <2> QED
    BY <2>2, Zenon DEF Read
<1>3. ASSUME NEW j \in 1 .. Len(rule), NEW n \in 0 .. Len(url)
      PROVE  ReadingOf(rule, url)[j][n] = ReadingFrom(ReadingOf(rule, url)[j - 1], rule[Len(rule) - j + 1], url, n)
  <2>1. j \in 0 .. Len(rule) /\ j # 0
    BY <1>1
  <2>2. ReadingOf(rule, url)[j][n] = Read(ReadingOf(rule, url)[j - 1], rule, url, j, n)
    BY <2>1, ReadingIs
  <2> QED
    BY <2>1, <2>2, Zenon DEF Read
<1> QED
  BY <1>2, <1>3

IsRead(r) == r.fits \in BOOLEAN /\ r = [fits |-> r.fits, params |-> r.params]

\* What the reference reads of a symbol, and of what follows it.
LEMMA ReadingFromIs ==
  ASSUME NEW c \in Symbols, NEW url \in Seq(Symbols), NEW n \in 0 .. Len(url),
         NEW below, \A k \in 0 .. Len(url) : IsRead(below[k])
  PROVE  LET t == TakenFor(c, Ending(url, n))
             r == ReadingFrom(below, c, url, n)
         IN /\ t \in 0 .. n /\ IsRead(r)
            /\ t = 0 => ~r.fits
            /\ t > 0 => r.fits = below[n - t].fits
            /\ t > 0 /\ c \notin DOMAIN ParamTraits => r.params = below[n - t].params
            /\ t > 0 /\ c \in DOMAIN ParamTraits =>
                 r.params = <<<<ParamTraits[c], SubSeq(Ending(url, n), 1, t)>>>> \o below[n - t].params
<1> DEFINE t == TakenFor(c, Ending(url, n))
           rest == below[n - t]
<1>1. t \in 0 .. n /\ n \in Nat
  BY EndingIs, TakenForFits
<1> DEFINE first == <<<<ParamTraits[c], SubSeq(Ending(url, n), 1, t)>>>>
<1>2. ReadingFrom(below, c, url, n)
        = IF t = 0 THEN NoFit ELSE IF c \notin DOMAIN ParamTraits THEN rest ELSE [rest EXCEPT !.params = first \o @]
  BY DEF ReadingFrom, ReadingBy
<1> HIDE DEF t, first
<1>3. n - t \in 0 .. Len(url)
  BY <1>1
<1>4. IsRead(rest)
  BY <1>3
<1>5. CASE t = 0
  <2>1. ReadingFrom(below, c, url, n) = NoFit
    BY <1>2, <1>5
  <2>2. IsRead(NoFit) /\ ~NoFit.fits
    BY DEF IsRead, NoFit
  <2> QED
    BY <1>1, <1>5, <2>1, <2>2 DEF t
<1>6. CASE t > 0 /\ c \notin DOMAIN ParamTraits
  <2>1. ReadingFrom(below, c, url, n) = rest
    BY <1>2, <1>6
  <2> QED
    BY <1>1, <1>4, <1>6, <2>1 DEF t
<1>7. CASE t > 0 /\ c \in DOMAIN ParamTraits
  <2>1. ReadingFrom(below, c, url, n) = [rest EXCEPT !.params = first \o @]
    BY <1>2, <1>7
  <2> DEFINE f == rest.fits
             p == rest.params
  <2>2. rest = [fits |-> f, params |-> p] /\ f \in BOOLEAN
    BY <1>4 DEF IsRead
  <2> HIDE DEF rest, f, p
  <2>3. ReadingFrom(below, c, url, n) = [fits |-> f, params |-> first \o p]
    BY <2>1, <2>2
  <2>4. IsRead(ReadingFrom(below, c, url, n))
    BY <2>2, <2>3 DEF IsRead
  <2> USE DEF f, p
  <2> QED
    BY <1>1, <1>7, <2>3, <2>4 DEF rest, first, t
<1>8. t = 0 \/ t > 0
  BY <1>1
<1> QED
  BY <1>5, <1>6, <1>7, <1>8 DEF t

\* What is read are records, and nothing is left of a rule when nothing is left of a target.
LEMMA ReadingsAre ==
  ASSUME NEW rule \in Seq(Symbols), NEW url \in Seq(Symbols)
  PROVE  \A j \in 0 .. Len(rule), n \in 0 .. Len(url) : IsRead(ReadingOf(rule, url)[j][n])
<1> DEFINE r == ReadingOf(rule, url)
           S == {j \in Nat : j <= Len(rule) => \A n \in 0 .. Len(url) : IsRead(r[j][n])}
<1>1. 0 \in S
  <2>1. \A n \in 0 .. Len(url) : r[0][n] = [fits |-> n = 0, params |-> <<>>]
    BY ReadingSteps
  <2>2. \A n \in 0 .. Len(url) : IsRead([fits |-> n = 0, params |-> <<>>])
    BY DEF IsRead
  <2> HIDE DEF r
  <2> QED
    BY <2>1, <2>2
<1>2. ASSUME NEW j \in Nat, j \in S PROVE j + 1 \in S
  <2> SUFFICES ASSUME j + 1 <= Len(rule), NEW n \in 0 .. Len(url) PROVE IsRead(r[j + 1][n])
    OBVIOUS
  <2>1. \A k \in 0 .. Len(url) : IsRead(r[j][k])
    BY <1>2
  <2>2. j + 1 \in 1 .. Len(rule) /\ (j + 1) - 1 = j
    OBVIOUS
  <2> DEFINE c == rule[Len(rule) - (j + 1) + 1]
  <2>3. c \in Symbols
    BY <2>2
  <2>4. r[j + 1][n] = ReadingFrom(r[j], c, url, n)
    BY <2>2, ReadingSteps
  <2> HIDE DEF c, r
  <2>5. IsRead(ReadingFrom(r[j], c, url, n))
    BY <2>1, <2>3, ReadingFromIs
  <2> QED
    BY <2>4, <2>5
<1>3. Nat \subseteq S
  <2> HIDE DEF S
  <2> QED
    BY <1>1, <1>2, NumbersInduct
<1> HIDE DEF r
<1> QED
  BY <1>3 DEF r

\* The reading of j symbols, from that of those behind the first of them, which is c and takes t.
ReadsOn(rule, url, j, n, c, t) ==
  LET r == ReadingOf(rule, url)[j][n]
      rest == ReadingOf(rule, url)[j - 1][n - t]
  IN /\ c \in Symbols /\ t \in 0 .. n /\ IsRead(r)
     /\ t = 0 => ~r.fits
     /\ t > 0 => r.fits = rest.fits
     /\ t > 0 /\ c \notin DOMAIN ParamTraits => r.params = rest.params
     /\ t > 0 /\ c \in DOMAIN ParamTraits =>
          r.params = <<<<ParamTraits[c], SubSeq(Ending(url, n), 1, t)>>>> \o rest.params

\* A reading goes on by one symbol of the rule.
LEMMA ReadingStep ==
  ASSUME NEW rule \in Seq(Symbols), NEW url \in Seq(Symbols), NEW j \in 1 .. Len(rule), NEW n \in 0 .. Len(url)
  PROVE  ReadsOn(rule, url, j, n, rule[Len(rule) - j + 1], TakenFor(rule[Len(rule) - j + 1], Ending(url, n)))
<1> DEFINE c == rule[Len(rule) - j + 1]
           below == ReadingOf(rule, url)[j - 1]
<1>1. c \in Symbols /\ j - 1 \in 0 .. Len(rule)
  OBVIOUS
<1>2. \A k \in 0 .. Len(url) : IsRead(below[k])
  BY <1>1, ReadingsAre
<1>3. ReadingOf(rule, url)[j][n] = ReadingFrom(below, c, url, n)
  BY ReadingSteps
<1> DEFINE t == TakenFor(c, Ending(url, n))
           r == ReadingFrom(below, c, url, n)
<1>4. /\ t \in 0 .. n /\ IsRead(r)
      /\ t = 0 => ~r.fits
      /\ t > 0 => r.fits = below[n - t].fits
      /\ t > 0 /\ c \notin DOMAIN ParamTraits => r.params = below[n - t].params
      /\ t > 0 /\ c \in DOMAIN ParamTraits =>
           r.params = <<<<ParamTraits[c], SubSeq(Ending(url, n), 1, t)>>>> \o below[n - t].params
  <2> HIDE DEF c, below
  <2> QED
    BY <1>1, <1>2, ReadingFromIs
<1>5. r = ReadingOf(rule, url)[j][n]
  BY <1>3
<1> HIDE DEF r
<1>6. ReadsOn(rule, url, j, n, c, t)
  <2> HIDE DEF c, t
  <2> QED
    BY <1>1, <1>4, <1>5 DEF ReadsOn, below
<1> QED
  BY <1>6 DEF c, t

\* With nothing left of a target only a rule that is read as a whole fits.
LEMMA NothingLeft ==
  ASSUME NEW rule \in Seq(Symbols), NEW url \in Seq(Symbols), NEW j \in 0 .. Len(rule)
  PROVE  /\ ReadingOf(rule, url)[j][0].fits <=> j = 0
         /\ j = 0 => ReadingOf(rule, url)[j][0].params = <<>>
         /\ \A n \in 1 .. Len(url) : j = 0 => ~ReadingOf(rule, url)[j][n].fits
<1>1. 0 \in 0 .. Len(url)
  OBVIOUS
<1>2. CASE j = 0
  <2>1. \A n \in 0 .. Len(url) : ReadingOf(rule, url)[j][n] = [fits |-> n = 0, params |-> <<>>]
    BY <1>2, ReadingSteps
  <2>2. \A n \in 1 .. Len(url) : n \in 0 .. Len(url) /\ n # 0
    OBVIOUS
  <2>3. ASSUME NEW n \in 0 .. Len(url)
        PROVE  (ReadingOf(rule, url)[j][n].fits <=> n = 0) /\ ReadingOf(rule, url)[j][n].params = <<>>
    <3> DEFINE f == n = 0
    <3>1. ReadingOf(rule, url)[j][n] = [fits |-> f, params |-> <<>>]
      BY <2>1
    <3> HIDE DEF f
    <3>2. ReadingOf(rule, url)[j][n].fits = f /\ ReadingOf(rule, url)[j][n].params = <<>>
      BY <3>1
    <3> QED
      BY <3>2 DEF f
  <2> QED
    BY <1>1, <1>2, <2>2, <2>3
<1>3. CASE j # 0
  <2>1. j \in 1 .. Len(rule)
    BY <1>3
  <2>2. ~ReadingOf(rule, url)[j][0].fits
    <3> DEFINE t == TakenFor(rule[Len(rule) - j + 1], Ending(url, 0))
    <3>1. t \in 0 .. 0 /\ (t = 0 => ~ReadingOf(rule, url)[j][0].fits)
      BY <1>1, <2>1, ReadingStep DEF ReadsOn
    <3> HIDE DEF t
    <3> QED
      BY <3>1
  <2> QED
    BY <1>3, <2>2
<1> QED
  BY <1>2, <1>3

-----------------------------------------------------------------------------
(* Keys of several symbols read what their symbols do. *)

\* A prefix is compared symbol by symbol.
LEMMA PrefixIs ==
  ASSUME NEW s \in Seq(Symbols), NEW t \in Seq(Symbols)
  PROVE  IsPrefix(s, t) <=> Len(s) <= Len(t) /\ \A q \in 1 .. Len(s) : t[q] = s[q]
<1>1. SUFFICES ASSUME Len(s) <= Len(t)
               PROVE  SubSeq(s, 1, Len(s)) = SubSeq(t, 1, Len(s)) <=> \A q \in 1 .. Len(s) : t[q] = s[q]
  BY DEF IsPrefix
<1>2. /\ SubSeq(s, 1, Len(s)) = [q \in 1 .. Len(s) |-> s[q]]
      /\ SubSeq(t, 1, Len(s)) = [q \in 1 .. Len(s) |-> t[q]]
  BY <1>1
<1> QED
  BY <1>2

\* The first p symbols of a key are those at the place where n symbols of a target are left.
Matches(key, url, n, p) == p <= n /\ \A q \in 1 .. p : url[Len(url) - n + q] = key[q]

\* A key is a prefix of what is left if its symbols are there.
LEMMA MatchesIs ==
  ASSUME NEW key \in Seq(Symbols), NEW url \in Seq(Symbols), NEW n \in 0 .. Len(url)
  PROVE  IsPrefix(key, Ending(url, n)) <=> Matches(key, url, n, Len(key))
<1>1. /\ Ending(url, n) \in Seq(Symbols) /\ Len(Ending(url, n)) = n
      /\ \A i \in 1 .. n : Ending(url, n)[i] = url[Len(url) - n + i]
  BY EndingIs
<1>2. IsPrefix(key, Ending(url, n)) <=> Len(key) <= n /\ \A q \in 1 .. Len(key) : Ending(url, n)[q] = key[q]
  BY <1>1, PrefixIs
<1>3. Len(key) <= n => \A q \in 1 .. Len(key) : q \in 1 .. n
  OBVIOUS
<1> QED
  BY <1>1, <1>2, <1>3 DEF Matches

\* What p symbols of a key read, from what those behind them do.
KeyReadsOn(rule, url, key, l, n, p) ==
  LET r == ReadingOf(rule, url)
  IN /\ Matches(key, url, n, p) => r[l][n].fits = r[l - p][n - p].fits /\ r[l][n].params = r[l - p][n - p].params
     /\ ~Matches(key, url, n, p) => ~r[l][n].fits

\* A rule that continues with a key reads what the key's symbols do.
LEMMA KeyReads ==
  ASSUME NEW rule \in Seq(Symbols), NEW url \in Seq(Symbols), NEW key \in Seq(Symbols),
         NEW l \in 0 .. Len(rule), NEW n \in 0 .. Len(url), Len(key) <= l,
         \A q \in 1 .. Len(key) : rule[Len(rule) - l + q] = key[q] /\ key[q] \notin DOMAIN ParamTraits
  PROVE  \A p \in 0 .. Len(key) : KeyReadsOn(rule, url, key, l, n, p)
<1> DEFINE r == ReadingOf(rule, url)
           Good(p) == /\ Matches(key, url, n, p) => r[l][n].fits = r[l - p][n - p].fits /\ r[l][n].params = r[l - p][n - p].params
                      /\ ~Matches(key, url, n, p) => ~r[l][n].fits
           S == {p \in Nat : p <= Len(key) => Good(p)}
<1>0. Len(key) \in Nat /\ Len(url) \in Nat /\ Len(rule) \in Nat
  OBVIOUS
<1>1. 0 \in S
  <2>1. Matches(key, url, n, 0)
    BY DEF Matches
  <2>2. l - 0 = l /\ n - 0 = n
    OBVIOUS
  <2> HIDE DEF r
  <2> QED
    BY <2>1, <2>2
<1>2. ASSUME NEW p \in Nat, p \in S PROVE p + 1 \in S
  <2> SUFFICES ASSUME p + 1 <= Len(key) PROVE Good(p + 1)
    OBVIOUS
  <2>1. Good(p) /\ p + 1 \in 1 .. Len(key)
    BY <1>0, <1>2
  <2> DEFINE j == l - p
             m == n - p
             c == key[p + 1]
             t == TakenFor(c, Ending(url, m))
  <2>2. j \in 1 .. Len(rule) /\ l - (p + 1) = j - 1 /\ Len(rule) - j + 1 = Len(rule) - l + (p + 1)
    BY <1>0, <2>1
  <2>3. rule[Len(rule) - j + 1] = c /\ c \notin DOMAIN ParamTraits
    BY <2>1, <2>2
  <2>4. CASE ~Matches(key, url, n, p)
    <3>1. ~Matches(key, url, n, p + 1)
      BY <1>0, <2>4 DEF Matches
    <3> QED
      BY <2>1, <2>4, <3>1
  <2>5. CASE Matches(key, url, n, p)
    <3>1. m \in 0 .. Len(url) /\ n - (p + 1) = m - 1 /\ p <= n
      BY <1>0, <2>5 DEF Matches
    <3>2. Ending(url, m) \in Seq(Symbols) /\ Len(Ending(url, m)) = m
          /\ \A i \in 1 .. m : Ending(url, m)[i] = url[Len(url) - m + i]
      BY <3>1, EndingIs
    <3>3. t = IF m > 0 /\ url[Len(url) - n + (p + 1)] = c THEN 1 ELSE 0
      <4>1. t = IF Ending(url, m) # <<>> /\ Head(Ending(url, m)) = c THEN 1 ELSE 0
        BY <2>3 DEF TakenFor
      <4>2. Ending(url, m) # <<>> <=> m > 0
        BY <3>1, <3>2
      <4>3. m > 0 => Head(Ending(url, m)) = Ending(url, m)[1]
        BY <3>2, <4>2
      <4>4. m > 0 => 1 \in 1 .. m /\ Len(url) - m + 1 = Len(url) - n + (p + 1)
        BY <1>0, <3>1
      <4>5. m > 0 => Head(Ending(url, m)) = url[Len(url) - n + (p + 1)]
        BY <3>2, <4>3, <4>4
      <4> HIDE DEF t
      <4> QED
        BY <4>1, <4>2, <4>5
    <3>4. Matches(key, url, n, p + 1) <=> t = 1
      <4> HIDE DEF t
      <4>1. Matches(key, url, n, p + 1) <=> p + 1 <= n /\ url[Len(url) - n + (p + 1)] = c
        BY <1>0, <2>1, <2>5 DEF Matches
      <4> QED
        BY <1>0, <3>1, <3>3, <4>1
    <3>5. /\ t \in 0 .. m
          /\ t = 0 => ~r[j][m].fits
          /\ t > 0 => r[j][m].fits = r[j - 1][m - t].fits /\ r[j][m].params = r[j - 1][m - t].params
      <4> HIDE DEF j, m
      <4>1. ReadsOn(rule, url, j, m, rule[Len(rule) - j + 1], TakenFor(rule[Len(rule) - j + 1], Ending(url, m)))
        BY <2>2, <3>1, ReadingStep
      <4>2. ReadsOn(rule, url, j, m, c, t)
        BY <2>3, <4>1
      <4> HIDE DEF t, c
      <4> QED
        BY <2>3, <4>2 DEF ReadsOn
    <3>6. r[l][n].fits = r[j][m].fits /\ r[l][n].params = r[j][m].params
      BY <2>1, <2>5
    <3> HIDE DEF t, r, c, j, m
    <3>7. t = 0 \/ t = 1
      BY <3>3
    <3>8. CASE t = 0
      <4> QED
        BY <3>4, <3>5, <3>6, <3>8
    <3>9. CASE t = 1
      BY <2>2, <3>1, <3>4, <3>5, <3>6, <3>9
    <3> QED
      BY <3>7, <3>8, <3>9
  <2> QED
    BY <2>4, <2>5
<1>3. Nat \subseteq S
  <2> HIDE DEF S
  <2> QED
    BY <1>1, <1>2, NumbersInduct
<1>4. \A p \in 0 .. Len(key) : Good(p)
  <2> HIDE DEF Good
  <2> QED
    BY <1>0, <1>3
<1> QED
  BY <1>4 DEF KeyReadsOn

-----------------------------------------------------------------------------
(* Nodes of a trie take what the symbols they stand for do. *)

Nodes == [rule : Nat, key : Seq(Symbols), param : Traits \cup {"MAX"}, children : SUBSET Nat]

\* A node leads an entry's url from l symbols that are left to j.
Leads(x, url, l, j) ==
  /\ x.param = "MAX" =>
       /\ x.key # <<>> /\ l = j + Len(x.key)
       /\ \A q \in 1 .. Len(x.key) : url[Len(url) - l + q] = x.key[q] /\ x.key[q] \notin DOMAIN ParamTraits
  /\ x.param # "MAX" =>
       /\ l = j + 1 /\ url[Len(url) - l + 1] \in DOMAIN ParamTraits
       /\ ParamTraits[url[Len(url) - l + 1]] = x.param

\* A node takes no more than is left.
LEMMA TakenByFits ==
  ASSUME NEW x \in Nodes, NEW s \in Seq(Symbols)
  PROVE  TakenBy(x, s) \in 0 .. Len(s)
<1>1. CASE x.param # "MAX"
  BY <1>1, TakenFits DEF TakenBy
<1>2. CASE x.param = "MAX" /\ IsPrefix(x.key, s)
  <2>1. TakenBy(x, s) = Len(x.key) /\ x.key \in Seq(Symbols)
    BY <1>2 DEF TakenBy, Nodes
  <2>2. Len(x.key) <= Len(s)
    BY <1>2, <2>1, PrefixIs
  <2> QED
    BY <2>1, <2>2
<1>3. CASE x.param = "MAX" /\ ~IsPrefix(x.key, s)
  BY <1>3 DEF TakenBy
<1> QED
  BY <1>1, <1>2, <1>3

\* What is read from l symbols on, from what is read behind those that a node takes.
NodeReads(x, rule, url, l, j, n, t) ==
  LET r == ReadingOf(rule, url)[l][n]
      rest == ReadingOf(rule, url)[j][n - t]
  IN /\ t \in 0 .. n
     /\ t = 0 => ~r.fits
     /\ t > 0 => r.fits = rest.fits
     /\ t > 0 /\ x.param = "MAX" => r.params = rest.params
     /\ t > 0 /\ x.param # "MAX" => r.params = <<<<x.param, SubSeq(Ending(url, n), 1, t)>>>> \o rest.params

\* A rule that leads through a node reads what the node takes.
LEMMA LeadsReads ==
  ASSUME NEW rule \in Seq(Symbols), NEW url \in Seq(Symbols), NEW x \in Nodes,
         NEW l \in 0 .. Len(rule), NEW j \in 0 .. Len(rule), Leads(x, rule, l, j), NEW n \in 0 .. Len(url)
  PROVE  NodeReads(x, rule, url, l, j, n, TakenBy(x, Ending(url, n)))
<1> DEFINE t == TakenBy(x, Ending(url, n))
<1>0. Ending(url, n) \in Seq(Symbols) /\ Len(Ending(url, n)) = n /\ x.key \in Seq(Symbols)
  BY EndingIs DEF Nodes
<1>1. t \in 0 .. n
  BY <1>0, TakenByFits
<1>2. CASE x.param # "MAX"
  <2> DEFINE c == rule[Len(rule) - l + 1]
  <2>1. l = j + 1 /\ c \in DOMAIN ParamTraits /\ ParamTraits[c] = x.param
    BY <1>2 DEF Leads
  <2>2. TakenFor(c, Ending(url, n)) = t
    BY <1>2, <2>1 DEF TakenFor, TakenBy
  <2>3. l \in 1 .. Len(rule) /\ l - 1 = j
    BY <2>1
  <2>4. ReadsOn(rule, url, l, n, c, t)
    BY <2>2, <2>3, ReadingStep
  <2> HIDE DEF c, t
  <2> USE DEF t
  <2>5. NodeReads(x, rule, url, l, j, n, t)
    <3> HIDE DEF t
    <3> QED
      BY <1>2, <2>1, <2>3, <2>4 DEF NodeReads, ReadsOn
  <2> QED
    BY <2>5
<1>3. CASE x.param = "MAX"
  <2> DEFINE p == Len(x.key)
             r == ReadingOf(rule, url)
  <2>1. /\ x.key # <<>> /\ l = j + p
        /\ \A q \in 1 .. p : rule[Len(rule) - l + q] = x.key[q] /\ x.key[q] \notin DOMAIN ParamTraits
    BY <1>3 DEF Leads
  <2>2. p \in Nat /\ p > 0 /\ p <= l /\ l - p = j /\ p \in 0 .. p
    BY <1>0, <2>1
  <2>3. /\ Matches(x.key, url, n, p) => r[l][n].fits = r[l - p][n - p].fits /\ r[l][n].params = r[l - p][n - p].params
        /\ ~Matches(x.key, url, n, p) => ~r[l][n].fits
    <3> HIDE DEF p
    <3>1. KeyReadsOn(rule, url, x.key, l, n, p)
      BY <1>0, <2>1, <2>2, KeyReads DEF p
    <3> QED
      BY <3>1 DEF KeyReadsOn
  <2>4. t = IF Matches(x.key, url, n, p) THEN p ELSE 0
    BY <1>0, <1>3, MatchesIs DEF TakenBy
  <2>5. NodeReads(x, rule, url, l, j, n, t)
    <3> HIDE DEF t, p, r
    <3>1. CASE Matches(x.key, url, n, p)
      BY <1>1, <1>3, <2>2, <2>3, <2>4, <3>1 DEF NodeReads, r
    <3>2. CASE ~Matches(x.key, url, n, p)
      BY <1>1, <1>3, <2>2, <2>3, <2>4, <3>2 DEF NodeReads, r
    <3> QED
      BY <3>1, <3>2
  <2> QED
    BY <2>5
<1> QED
  BY <1>2, <1>3

-----------------------------------------------------------------------------
(* What is found in a trie. *)

\* What is found from a node on for the last n symbols of a target, from what is found for fewer.
FoundFrom(found, trie, url, n, i) ==
  IF n = 0 THEN [rule |-> trie[i].rule, params |-> <<>>]
  ELSE LET taken(k) == TakenBy(trie[k], Ending(url, n))
       IN FirstOf({WithParam(trie[k], SubSeq(Ending(url, n), 1, taken(k)), found[n - taken(k)][k]) :
                     k \in {c \in trie[i].children : taken(c) > 0}})

IsFound(found, trie, url, m) ==
  found = [n \in 0 .. m |-> [i \in DOMAIN trie |-> FoundFrom(found, trie, url, n, i)]]

FoundIn(trie, url) == CHOOSE found : IsFound(found, trie, url, Len(url))

\* A node's children are nodes.
IsTrie(trie) ==
  /\ trie \in Seq(Nodes) /\ trie # <<>>
  /\ \A i \in DOMAIN trie : trie[i].children \subseteq DOMAIN trie

\* Only what is found for fewer symbols counts.
LEMMA FoundFromFewer ==
  ASSUME NEW trie, IsTrie(trie), NEW url \in Seq(Symbols), NEW n \in 0 .. Len(url), NEW i \in DOMAIN trie,
         NEW f, NEW g, \A m \in 0 .. n - 1 : f[m] = g[m]
  PROVE  FoundFrom(f, trie, url, n, i) = FoundFrom(g, trie, url, n, i)
<1> DEFINE taken(k) == TakenBy(trie[k], Ending(url, n))
           within == {c \in trie[i].children : taken(c) > 0}
           at(h, k) == WithParam(trie[k], SubSeq(Ending(url, n), 1, taken(k)), h[n - taken(k)][k])
<1>1. ASSUME NEW k \in within PROVE f[n - taken(k)] = g[n - taken(k)]
  <2>1. trie[k] \in Nodes
    BY DEF IsTrie
  <2>2. taken(k) \in 0 .. n /\ taken(k) > 0
    BY <2>1, EndingIs, TakenByFits
  <2>3. n - taken(k) \in 0 .. n - 1
    BY <2>2
  <2> QED
    BY <2>3
<1>2. {at(f, k) : k \in within} = {at(g, k) : k \in within}
  <2> HIDE DEF within, taken
  <2> QED
    BY <1>1
<1>3. \A h : n # 0 => FoundFrom(h, trie, url, n, i) = FirstOf({at(h, k) : k \in within})
  BY DEF FoundFrom
<1>4. \A h : n = 0 => FoundFrom(h, trie, url, n, i) = [rule |-> trie[i].rule, params |-> <<>>]
  BY DEF FoundFrom
<1> HIDE DEF at, within
<1> QED
  BY <1>2, <1>3, <1>4, Zenon

\* What every node finds exists, by induction over the nodes from the last.
LEMMA FoundsExist ==
  ASSUME NEW trie, IsTrie(trie), NEW url \in Seq(Symbols)
  PROVE  \A m \in Nat : m <= Len(url) => \E found : IsFound(found, trie, url, m)
<1> DEFINE row(f, n) == [i \in DOMAIN trie |-> FoundFrom(f, trie, url, n, i)]
           S == {m \in Nat : m <= Len(url) => \E found : IsFound(found, trie, url, m)}
<1>0. ASSUME NEW n \in 0 .. Len(url), NEW f, NEW g, \A m \in 0 .. n - 1 : f[m] = g[m] PROVE row(f, n) = row(g, n)
  BY <1>0, FoundFromFewer
<1>1. 0 \in S
  <2> DEFINE zero == [n \in 0 .. 0 |-> row(<<>>, n)]
  <2>1. row(<<>>, 0) = row(zero, 0)
    <3>1. 0 \in 0 .. Len(url) /\ \A m \in 0 .. 0 - 1 : <<>>[m] = zero[m]
      OBVIOUS
    <3> HIDE DEF row, zero
    <3> QED
      BY <1>0, <3>1
  <2> HIDE DEF row
  <2>2. zero = [n \in 0 .. 0 |-> row(zero, n)]
    BY <2>1
  <2> HIDE DEF zero
  <2>3. IsFound(zero, trie, url, 0)
    BY <2>2, Zenon DEF IsFound, row
  <2> QED
    BY <2>3
<1>2. ASSUME NEW m \in Nat, m \in S PROVE m + 1 \in S
  <2> SUFFICES ASSUME m + 1 <= Len(url) PROVE \E found : IsFound(found, trie, url, m + 1)
    OBVIOUS
  <2>1. PICK f : IsFound(f, trie, url, m)
    BY <1>2
  <2> DEFINE g == [n \in 0 .. m + 1 |-> IF n = m + 1 THEN row(f, m + 1) ELSE f[n]]
  <2>2. \A n \in 0 .. m : f[n] = row(f, n) /\ g[n] = f[n]
    BY <2>1 DEF IsFound
  <2>3. \A n \in 0 .. m + 1 : row(f, n) = row(g, n)
    <3> SUFFICES ASSUME NEW n \in 0 .. m + 1 PROVE row(f, n) = row(g, n)
      OBVIOUS
    <3>1. \A k \in 0 .. n - 1 : f[k] = g[k]
      <4> HIDE DEF g, row
      <4> QED
        BY <2>2
    <3>2. n \in 0 .. Len(url)
      OBVIOUS
    <3> HIDE DEF g, row
    <3> QED
      BY <1>0, <3>1, <3>2
  <2>4. ASSUME NEW n \in 0 .. m + 1 PROVE g[n] = row(g, n)
    <3>1. CASE n = m + 1
      <4>1. g[n] = row(f, n)
        BY <3>1
      <4> HIDE DEF g, row
      <4> QED
        BY <2>3, <4>1
    <3>2. CASE n # m + 1
      <4>1. n \in 0 .. m
        BY <3>2
      <4> HIDE DEF g, row
      <4> QED
        BY <2>2, <2>3, <4>1
    <3> QED
      BY <3>1, <3>2
  <2>5. g = [n \in 0 .. m + 1 |-> row(g, n)]
    BY <2>4, Zenon
  <2> HIDE DEF g
  <2>6. IsFound(g, trie, url, m + 1)
    BY <2>5, Zenon DEF IsFound
  <2> QED
    BY <2>6
<1>3. Nat \subseteq S
  <2> HIDE DEF S
  <2> QED
    BY <1>1, <1>2, NumbersInduct
<1> QED
  BY <1>3

\* It is what each node finds with what its children do.
LEMMA FoundInIs ==
  ASSUME NEW trie, IsTrie(trie), NEW url \in Seq(Symbols)
  PROVE  /\ Find(trie, url) = FoundIn(trie, url)[Len(url)][1]
         /\ \A n \in 0 .. Len(url), i \in DOMAIN trie :
              FoundIn(trie, url)[n][i] = FoundFrom(FoundIn(trie, url), trie, url, n, i)
<1>1. Len(url) \in Nat /\ Len(url) <= Len(url)
  OBVIOUS
<1>2. IsFound(FoundIn(trie, url), trie, url, Len(url))
  BY <1>1, FoundsExist, Zenon DEF FoundIn
<1>3. Find(trie, url) = FoundIn(trie, url)[Len(url)][1]
  BY Zenon DEF Find, FoundIn, IsFound, FoundFrom
<1> DEFINE row(n) == [i \in DOMAIN trie |-> FoundFrom(FoundIn(trie, url), trie, url, n, i)]
<1>4. \A n \in 0 .. Len(url) : FoundIn(trie, url)[n] = row(n)
  BY <1>2, Zenon DEF IsFound
<1>5. \A n \in 0 .. Len(url), i \in DOMAIN trie : row(n)[i] = FoundFrom(FoundIn(trie, url), trie, url, n, i)
  OBVIOUS
<1> QED
  BY <1>3, <1>4, <1>5, Zenon

IsRoute(r) == r.rule \in Nat /\ r = [rule |-> r.rule, params |-> r.params]

\* FirstOf picks the lowest rule that is found, or none.
LEMMA FirstOfIs ==
  ASSUME NEW S, \A r \in S : r.rule \in Nat
  PROVE  \/ FirstOf(S) = NotFound /\ \A r \in S : r.rule = 0
         \/ FirstOf(S) \in S /\ FirstOf(S).rule # 0 /\ \A r \in S : r.rule # 0 => FirstOf(S).rule <= r.rule
<1> DEFINE rules == {r \in S : r.rule # 0}
           first == CHOOSE r \in rules : \A q \in rules : r.rule <= q.rule
<1>1. FirstOf(S) = IF rules = {} THEN NotFound ELSE first
  BY DEF FirstOf
<1>2. CASE rules = {}
  BY <1>1, <1>2
<1>3. CASE rules # {}
  <2> DEFINE T == {r.rule : r \in rules}
  <2>1. T \subseteq Nat /\ T # {}
    BY <1>3
  <2>2. PICK n \in T : \A m \in T : n <= m
    BY <2>1, LeastIs
  <2>3. PICK r \in rules : n = r.rule
    BY <2>2
  <2>4. \A q \in rules : r.rule <= q.rule
    BY <2>2, <2>3
  <2> HIDE DEF rules
  <2>5. first \in rules /\ \A q \in rules : first.rule <= q.rule
    BY <2>3, <2>4, Zenon
  <2> HIDE DEF first
  <2> USE DEF rules
  <2> QED
    BY <1>1, <1>3, <2>5
<1> QED
  BY <1>2, <1>3

\* A parameter that is taken comes before those found behind it.
LEMMA WithParamIs ==
  ASSUME NEW x, NEW s, NEW r, IsRoute(r)
  PROVE  /\ IsRoute(WithParam(x, s, r))
         /\ WithParam(x, s, r).rule = r.rule
         /\ x.param = "MAX" => WithParam(x, s, r).params = r.params
         /\ x.param # "MAX" /\ r.rule # 0 => WithParam(x, s, r).params = <<<<x.param, s>>>> \o r.params
         /\ r.rule = 0 => WithParam(x, s, r) = r
<1>1. CASE x.param = "MAX" \/ r.rule = 0
  BY <1>1 DEF WithParam
<1>2. CASE ~(x.param = "MAX" \/ r.rule = 0)
  <2> DEFINE first == <<<<x.param, s>>>>
             i == r.rule
             p == r.params
  <2>1. WithParam(x, s, r) = [r EXCEPT !.params = first \o @]
    BY <1>2 DEF WithParam
  <2>2. r = [rule |-> i, params |-> p] /\ i \in Nat
    BY DEF IsRoute
  <2> HIDE DEF first, i, p
  <2>3. WithParam(x, s, r) = [rule |-> i, params |-> first \o p]
    BY <2>1, <2>2
  <2>4. IsRoute(WithParam(x, s, r))
    BY <2>2, <2>3 DEF IsRoute
  <2> USE DEF first, i, p
  <2> QED
    BY <1>2, <2>3, <2>4
<1> QED
  BY <1>1, <1>2

IsEntry(e) == e.url \in Seq(Symbols) /\ e.rule \in Nat \ {0}

\* A trie speaks of some entries, of which res says how many symbols may be left
\* at each node: from the head, where all are left, a node's children lead on, until none is.
Speaks(trie, res, E) ==
  /\ IsTrie(trie) /\ \A e \in E : IsEntry(e)
  /\ \A e \in E : \A j \in 0 .. Len(e.url) : <<e, j>> \in res[1] <=> j = Len(e.url)
  /\ \A i \in DOMAIN trie : trie[i].rule # 0 => \E e \in E : <<e, 0>> \in res[i]
  /\ \A i \in DOMAIN trie, e \in E : <<e, 0>> \in res[i] => e.rule = trie[i].rule
  /\ \A i \in DOMAIN trie, e \in E : \A l \in 1 .. Len(e.url) : <<e, l>> \in res[i] =>
       \E k \in trie[i].children, j \in 0 .. Len(e.url) : <<e, j>> \in res[k] /\ Leads(trie[k], e.url, l, j)
  /\ \A i \in DOMAIN trie : \A k \in trie[i].children : \A e \in E : \A j \in 0 .. Len(e.url) : <<e, j>> \in res[k] =>
       \E l \in 0 .. Len(e.url) : <<e, l>> \in res[i] /\ Leads(trie[k], e.url, l, j)

\* What is found at a node, of the entries whose last symbols fit, is one that was added first.
FoundIs(res, E, url, r, n, i) ==
  /\ IsRoute(r)
  /\ r.rule = 0 => r = NotFound
  /\ r.rule # 0 =>
       \E e \in E, j \in Nat :
         /\ j \in 0 .. Len(e.url) /\ <<e, j>> \in res[i] /\ ReadingOf(e.url, url)[j][n].fits
         /\ r.rule = e.rule /\ r.params = ReadingOf(e.url, url)[j][n].params
  /\ \A e \in E : \A j \in 0 .. Len(e.url) :
       <<e, j>> \in res[i] /\ ReadingOf(e.url, url)[j][n].fits => r.rule # 0 /\ r.rule <= e.rule

\* At the end of the target, a node finds its own rule.
LEMMA FoundAtTheEnd ==
  ASSUME NEW trie, NEW res, NEW E, Speaks(trie, res, E), NEW url \in Seq(Symbols), NEW i \in DOMAIN trie
  PROVE  FoundIs(res, E, url, [rule |-> trie[i].rule, params |-> <<>>], 0, i)
<1> DEFINE r == [rule |-> trie[i].rule, params |-> <<>>]
<1>1. trie[i].rule \in Nat
  <2>1. trie[i] \in Nodes
    BY DEF Speaks, IsTrie
  <2> QED
    BY <2>1 DEF Nodes
<1>2. IsRoute(r) /\ (r.rule = 0 => r = NotFound)
  BY <1>1 DEF IsRoute, NotFound
<1>3. \A e \in E : \A j \in 0 .. Len(e.url) :
        /\ ReadingOf(e.url, url)[j][0].fits <=> j = 0
        /\ j = 0 => ReadingOf(e.url, url)[j][0].params = <<>>
  BY NothingLeft DEF Speaks, IsEntry
<1>4. ASSUME r.rule # 0
      PROVE  \E e \in E, j \in Nat :
               /\ j \in 0 .. Len(e.url) /\ <<e, j>> \in res[i] /\ ReadingOf(e.url, url)[j][0].fits
               /\ r.rule = e.rule /\ r.params = ReadingOf(e.url, url)[j][0].params
  <2>1. PICK e \in E : <<e, 0>> \in res[i]
    BY <1>4 DEF Speaks
  <2>2. e.rule = trie[i].rule
    BY <2>1 DEF Speaks
  <2>3. 0 \in 0 .. Len(e.url)
    BY DEF Speaks, IsEntry
  <2> QED
    BY <1>3, <2>1, <2>2, <2>3
<1>5. ASSUME NEW e \in E, NEW j \in 0 .. Len(e.url), <<e, j>> \in res[i], ReadingOf(e.url, url)[j][0].fits
      PROVE  r.rule # 0 /\ r.rule <= e.rule
  <2>1. j = 0
    BY <1>3, <1>5
  <2>2. e.rule = trie[i].rule /\ e.rule # 0
    BY <1>5, <2>1 DEF Speaks, IsEntry
  <2> QED
    BY <1>1, <2>2
<1> HIDE DEF r
<1> QED
  BY <1>2, <1>4, <1>5 DEF FoundIs, r

\* A node finds the lowest of the entries that go on from it and fit, by induction over what is left.
LEMMA FoundFromIs ==
  ASSUME NEW trie, NEW res, NEW E, Speaks(trie, res, E), NEW url \in Seq(Symbols), NEW n \in 1 .. Len(url),
         NEW found, \A m \in 0 .. n - 1 : \A k \in DOMAIN trie : FoundIs(res, E, url, found[m][k], m, k),
         NEW i \in DOMAIN trie
  PROVE  FoundIs(res, E, url, FoundFrom(found, trie, url, n, i), n, i)
<1> DEFINE t(k) == TakenBy(trie[k], Ending(url, n))
           piece(k) == SubSeq(Ending(url, n), 1, t(k))
           within == {c \in trie[i].children : t(c) > 0}
           below(k) == found[n - t(k)][k]
           at(k) == WithParam(trie[k], piece(k), below(k))
           S == {at(k) : k \in within}
           r == FirstOf(S)
<1>1. FoundFrom(found, trie, url, n, i) = r
  BY DEF FoundFrom
<1>2. \A k \in trie[i].children : k \in DOMAIN trie /\ trie[k] \in Nodes
  BY DEF Speaks, IsTrie
<1>3. \A e \in E : e.url \in Seq(Symbols) /\ e.rule \in Nat /\ e.rule # 0
  BY DEF Speaks, IsEntry
<1>4. ASSUME NEW k \in within
      PROVE  n - t(k) \in 0 .. n - 1 /\ FoundIs(res, E, url, below(k), n - t(k), k)
  <2>1. t(k) \in 0 .. n /\ t(k) > 0
    BY <1>2, EndingIs, TakenByFits
  <2>2. n - t(k) \in 0 .. n - 1
    BY <2>1
  <2> QED
    BY <1>2, <2>2
<1>5. ASSUME NEW k \in within
      PROVE  /\ IsRoute(at(k)) /\ at(k).rule = below(k).rule
             /\ trie[k].param = "MAX" => at(k).params = below(k).params
             /\ trie[k].param # "MAX" /\ below(k).rule # 0 =>
                  at(k).params = <<<<trie[k].param, piece(k)>>>> \o below(k).params
  <2>1. IsRoute(below(k))
    BY <1>4 DEF FoundIs
  <2> HIDE DEF below, piece
  <2> QED
    BY <2>1, WithParamIs
<1>6. ASSUME NEW e \in E, NEW l \in 0 .. Len(e.url), NEW j \in 0 .. Len(e.url), NEW k \in trie[i].children,
             Leads(trie[k], e.url, l, j)
      PROVE  NodeReads(trie[k], e.url, url, l, j, n, t(k))
  BY <1>2, <1>3, <1>6, LeadsReads
<1>7. \/ r = NotFound /\ \A k \in within : at(k).rule = 0
      \/ /\ \E k \in within : r = at(k)
         /\ r.rule # 0 /\ \A k \in within : at(k).rule # 0 => r.rule <= at(k).rule
  <2>1. \A q \in S : q.rule \in Nat
    BY <1>5 DEF IsRoute
  <2> HIDE DEF at, within
  <2>2. \/ r = NotFound /\ \A q \in S : q.rule = 0
        \/ r \in S /\ r.rule # 0 /\ \A q \in S : q.rule # 0 => r.rule <= q.rule
    BY <2>1, FirstOfIs
  <2> QED
    BY <2>2
<1> HIDE DEF r, S, at
<1>8. IsRoute(r) /\ (r.rule = 0 => r = NotFound)
  <2>1. IsRoute(NotFound)
    BY DEF IsRoute, NotFound
  <2> QED
    BY <1>5, <1>7, <2>1
<1>9. ASSUME r.rule # 0
      PROVE  \E e \in E, l \in Nat :
               /\ l \in 0 .. Len(e.url) /\ <<e, l>> \in res[i] /\ ReadingOf(e.url, url)[l][n].fits
               /\ r.rule = e.rule /\ r.params = ReadingOf(e.url, url)[l][n].params
  <2>1. PICK k \in within : r = at(k)
    BY <1>7, <1>9 DEF NotFound
  <2>2. below(k).rule # 0
    BY <1>5, <1>9, <2>1
  <2>3. PICK e \in E, j \in Nat :
          /\ j \in 0 .. Len(e.url) /\ <<e, j>> \in res[k] /\ ReadingOf(e.url, url)[j][n - t(k)].fits
          /\ below(k).rule = e.rule /\ below(k).params = ReadingOf(e.url, url)[j][n - t(k)].params
    <3> HIDE DEF below, t
    <3> QED
      BY <1>4, <2>2 DEF FoundIs
  <2>4. PICK l \in 0 .. Len(e.url) : <<e, l>> \in res[i] /\ Leads(trie[k], e.url, l, j)
    BY <2>3 DEF Speaks
  <2>5. k \in trie[i].children /\ t(k) > 0
    OBVIOUS
  <2>8. NodeReads(trie[k], e.url, url, l, j, n, t(k))
    <3> HIDE DEF t
    <3> QED
      BY <1>6, <2>3, <2>4, <2>5
  <2> HIDE DEF below, t
  <2>6. /\ ReadingOf(e.url, url)[l][n].fits
        /\ trie[k].param = "MAX" => ReadingOf(e.url, url)[l][n].params = ReadingOf(e.url, url)[j][n - t(k)].params
        /\ trie[k].param # "MAX" =>
             ReadingOf(e.url, url)[l][n].params
               = <<<<trie[k].param, piece(k)>>>> \o ReadingOf(e.url, url)[j][n - t(k)].params
    BY <2>3, <2>5, <2>8 DEF NodeReads
  <2> HIDE DEF piece
  <2>7. r.rule = e.rule /\ r.params = ReadingOf(e.url, url)[l][n].params
    BY <1>5, <2>1, <2>2, <2>3, <2>6
  <2>9. l \in Nat
    OBVIOUS
  <2> QED
    BY <2>4, <2>6, <2>7, <2>9, Zenon
<1>10. ASSUME NEW e \in E, NEW l \in 0 .. Len(e.url), <<e, l>> \in res[i], ReadingOf(e.url, url)[l][n].fits
       PROVE  r.rule # 0 /\ r.rule <= e.rule
  <2>1. l \in 1 .. Len(e.url)
    <3>1. e.url \in Seq(Symbols) /\ n \in 1 .. Len(url)
      BY <1>3
    <3>2. l = 0 => ~ReadingOf(e.url, url)[l][n].fits
      BY <3>1, NothingLeft, SMTT(30)
    <3> QED
      BY <1>10, <3>2
  <2>2. PICK k \in trie[i].children, j \in 0 .. Len(e.url) : <<e, j>> \in res[k] /\ Leads(trie[k], e.url, l, j)
    BY <1>10, <2>1 DEF Speaks
  <2>3. NodeReads(trie[k], e.url, url, l, j, n, t(k))
    BY <1>6, <2>2
  <2>4. t(k) > 0 /\ ReadingOf(e.url, url)[j][n - t(k)].fits
    <3> HIDE DEF t
    <3>1. t(k) # 0 /\ t(k) \in 0 .. n
      BY <1>10, <2>3, Zenon DEF NodeReads
    <3>2. t(k) > 0
      BY <3>1
    <3> QED
      BY <1>10, <2>3, <3>2, Zenon DEF NodeReads
  <2>5. k \in within
    BY <2>4
  <2>6. below(k).rule # 0 /\ below(k).rule <= e.rule
    <3> HIDE DEF below, t
    <3> QED
      BY <1>4, <2>2, <2>4, <2>5 DEF FoundIs
  <2>7. at(k).rule = below(k).rule
    BY <1>5, <2>5
  <2>8. at(k).rule \in Nat
    BY <1>5, <2>5 DEF IsRoute
  <2> HIDE DEF within, below
  <2>9. r.rule # 0 /\ r.rule <= at(k).rule
    BY <1>7, <2>5, <2>6, <2>7
  <2> QED
    BY <1>3, <1>8, <2>6, <2>7, <2>8, <2>9 DEF IsRoute
<1>11. FoundIs(res, E, url, r, n, i)
  BY <1>8, <1>9, <1>10 DEF FoundIs
<1> QED
  BY <1>1, <1>11

\* What is found in a trie for a target: the entry that was added first of those
\* that fit it, with the parameters they take, whatever the order they are tried in.
FindsFirst(trie, E, url) ==
  LET r == Find(trie, url)
  IN /\ IsRoute(r)
     /\ r.rule = 0 => r = NotFound
     /\ r.rule # 0 => \E e \in E : Fits(e.url, url) /\ r.rule = e.rule /\ r.params = ParamsOf(e.url, url)
     /\ \A e \in E : Fits(e.url, url) => r.rule # 0 /\ r.rule <= e.rule

\* A trie that speaks for its entries finds the lowest of them that fits.
LEMMA FindIs ==
  ASSUME NEW trie, NEW res, NEW E, Speaks(trie, res, E), NEW url \in Seq(Symbols)
  PROVE  FindsFirst(trie, E, url)
<1> DEFINE found == FoundIn(trie, url)
           Good(n) == \A i \in DOMAIN trie : FoundIs(res, E, url, found[n][i], n, i)
           S == {n \in Nat : \A m \in 0 .. n : m <= Len(url) => Good(m)}
<1>0. Len(url) \in Nat /\ IsTrie(trie)
  BY DEF Speaks
<1>1. \A n \in 0 .. Len(url), i \in DOMAIN trie : found[n][i] = FoundFrom(found, trie, url, n, i)
  BY <1>0, FoundInIs
<1> HIDE DEF found
<1>2. Good(0)
  <2> SUFFICES ASSUME NEW i \in DOMAIN trie PROVE FoundIs(res, E, url, found[0][i], 0, i)
    OBVIOUS
  <2>1. found[0][i] = FoundFrom(found, trie, url, 0, i)
    BY <1>0, <1>1
  <2>2. FoundFrom(found, trie, url, 0, i) = [rule |-> trie[i].rule, params |-> <<>>]
    BY Zenon DEF FoundFrom
  <2> QED
    BY <2>1, <2>2, FoundAtTheEnd
<1>3. ASSUME NEW n \in 1 .. Len(url), \A m \in 0 .. n - 1 : Good(m) PROVE Good(n)
  <2> SUFFICES ASSUME NEW i \in DOMAIN trie PROVE FoundIs(res, E, url, found[n][i], n, i)
    OBVIOUS
  <2>1. found[n][i] = FoundFrom(found, trie, url, n, i)
    BY <1>0, <1>1
  <2>2. FoundIs(res, E, url, FoundFrom(found, trie, url, n, i), n, i)
    BY <1>3, FoundFromIs
  <2> QED
    BY <2>1, <2>2
<1> HIDE DEF Good
<1>4. 0 \in S
  BY <1>2
<1>5. ASSUME NEW n \in Nat, n \in S PROVE n + 1 \in S
  <2>1. \A m \in 0 .. n : m <= Len(url) => Good(m)
    BY <1>5
  <2>2. n + 1 <= Len(url) => Good(n + 1)
    <3>1. SUFFICES ASSUME n + 1 <= Len(url) PROVE Good(n + 1)
      OBVIOUS
    <3>2. n + 1 \in 1 .. Len(url) /\ (n + 1) - 1 = n
      BY <3>1
    <3>3. \A m \in 0 .. (n + 1) - 1 : Good(m)
      BY <2>1, <3>1, <3>2
    <3> QED
      BY <1>3, <3>2, <3>3
  <2> QED
    BY <2>1, <2>2
<1>6. Nat \subseteq S
  <2> HIDE DEF S
  <2> QED
    BY <1>4, <1>5, NumbersInduct
<1>7. Good(Len(url))
  BY <1>0, <1>6
<1> DEFINE r == Find(trie, url)
<1>8. 1 \in DOMAIN trie /\ r = found[Len(url)][1]
  BY <1>0, FoundInIs DEF found, IsTrie
<1>9. FoundIs(res, E, url, r, Len(url), 1)
  BY <1>7, <1>8 DEF Good
<1>10. ASSUME NEW e \in E
       PROVE  /\ e.url \in Seq(Symbols) /\ Len(e.url) \in 0 .. Len(e.url) /\ Len(e.url) \in Nat
              /\ Fits(e.url, url) = ReadingOf(e.url, url)[Len(e.url)][Len(url)].fits
              /\ ParamsOf(e.url, url) = ReadingOf(e.url, url)[Len(e.url)][Len(url)].params
              /\ \A j \in 0 .. Len(e.url) : <<e, j>> \in res[1] <=> j = Len(e.url)
  <2>1. e.url \in Seq(Symbols)
    BY DEF Speaks, IsEntry
  <2>2. Reading(e.url, url) = ReadingOf(e.url, url)[Len(e.url)][Len(url)]
    BY <2>1, ReadingIs
  <2>3. \A j \in 0 .. Len(e.url) : <<e, j>> \in res[1] <=> j = Len(e.url)
    BY DEF Speaks
  <2> QED
    BY <2>1, <2>2, <2>3 DEF Fits, ParamsOf
<1> HIDE DEF r
<1>11. ASSUME r.rule # 0
       PROVE  \E e \in E : Fits(e.url, url) /\ r.rule = e.rule /\ r.params = ParamsOf(e.url, url)
  <2>1. PICK e \in E, j \in Nat :
          /\ j \in 0 .. Len(e.url) /\ <<e, j>> \in res[1] /\ ReadingOf(e.url, url)[j][Len(url)].fits
          /\ r.rule = e.rule /\ r.params = ReadingOf(e.url, url)[j][Len(url)].params
    BY <1>9, <1>11 DEF FoundIs
  <2>2. j = Len(e.url)
    BY <1>10, <2>1
  <2> QED
    BY <1>10, <2>1, <2>2
<1>12. ASSUME NEW e \in E, Fits(e.url, url) PROVE r.rule # 0 /\ r.rule <= e.rule
  <2>1. /\ Len(e.url) \in 0 .. Len(e.url) /\ <<e, Len(e.url)>> \in res[1]
        /\ ReadingOf(e.url, url)[Len(e.url)][Len(url)].fits
    BY <1>10, <1>12
  <2> QED
    BY <1>9, <2>1 DEF FoundIs
<1>13. IsRoute(r) /\ (r.rule = 0 => r = NotFound)
  BY <1>9 DEF FoundIs
<1> QED
  BY <1>11, <1>12, <1>13 DEF FindsFirst, r

-----------------------------------------------------------------------------
(* Tries as rules are added to them. *)

\* A node with one field changed is a node.
LEMMA NodesChange ==
  ASSUME NEW x \in Nodes, NEW C \in SUBSET Nat, NEW r \in Nat, NEW key \in Seq(Symbols)
  PROVE  /\ [x EXCEPT !.children = C] = [rule |-> x.rule, key |-> x.key, param |-> x.param, children |-> C]
         /\ [x EXCEPT !.rule = r] = [rule |-> r, key |-> x.key, param |-> x.param, children |-> x.children]
         /\ [x EXCEPT !.key = key] = [rule |-> x.rule, key |-> key, param |-> x.param, children |-> x.children]
         /\ [x EXCEPT !.children = C] \in Nodes /\ [x EXCEPT !.rule = r] \in Nodes /\ [x EXCEPT !.key = key] \in Nodes
BY DEF Nodes

\* A node stands for a symbol.
Labelled(x, c) == x.key = NodeOf(c).key /\ x.param = NodeOf(c).param

\* Nodes stand for one symbol, which no two children of a node share, the head's
\* for a slash, and have one parent, which comes before them.
IsTree(trie) ==
  /\ trie \in Seq(Nodes) /\ trie # <<>>
  /\ trie[1].rule = 0 /\ trie[1].param = "MAX"
  /\ \A i \in DOMAIN trie : trie[i].children \subseteq i + 1 .. Len(trie)
  /\ \A i \in DOMAIN trie : \A k \in trie[i].children : \E c \in Symbols : Labelled(trie[k], c) /\ (i = 1 => c = "/")
  /\ \A i \in DOMAIN trie : \A k, l \in trie[i].children : trie[k].key = trie[l].key /\ trie[k].param = trie[l].param => k = l
  /\ \A i, j \in DOMAIN trie : \A k \in trie[i].children : k \in trie[j].children => i = j

\* What was in a trie stays in it, and what comes is new.
Continues(old, new) ==
  /\ Len(old) <= Len(new)
  /\ \A i \in DOMAIN old : /\ new[i].rule = old[i].rule /\ new[i].key = old[i].key /\ new[i].param = old[i].param
                           /\ old[i].children \subseteq new[i].children
                           /\ \A k \in DOMAIN old : k \in new[i].children => k \in old[i].children
  /\ \A i \in DOMAIN new : i \notin DOMAIN old => new[i].rule = 0 /\ \A k \in DOMAIN old : k \notin new[i].children

\* Following a symbol ends at a child that stands for it, old or new, and keeps the tree.
LEMMA FollowIs ==
  ASSUME NEW trie, IsTree(trie), NEW at \in DOMAIN trie, NEW c \in Symbols, at = 1 => c = "/"
  PROVE  LET v == Follow([trie |-> trie, at |-> at], c)
         IN /\ v = [trie |-> v.trie, at |-> v.at]
            /\ IsTree(v.trie) /\ Continues(trie, v.trie)
            /\ v.at \in v.trie[at].children /\ Labelled(v.trie[v.at], c)
<1> DEFINE w == [trie |-> trie, at |-> at]
           there == ChildrenFor(trie, at, c)
           new == Len(trie) + 1
           v == Follow(w, c)
<1>0. /\ trie \in Seq(Nodes) /\ Len(trie) \in Nat /\ DOMAIN trie = 1 .. Len(trie)
      /\ \A i \in DOMAIN trie : trie[i] \in Nodes /\ trie[i].children \subseteq i + 1 .. Len(trie)
      /\ 1 \in DOMAIN trie
  BY DEF IsTree
<1>1. v = IF there # {} THEN [w EXCEPT !.at = CHOOSE k \in there : TRUE]
          ELSE [trie |-> Append([trie EXCEPT ![at].children = @ \cup {new}], NodeOf(c)), at |-> new]
  BY DEF Follow
<1>2. CASE there # {}
  <2> DEFINE k == CHOOSE k \in there : TRUE
  <2>1. k \in there
    BY <1>2
  <2>2. v = [trie |-> trie, at |-> k]
    BY <1>1, <1>2
  <2>3. k \in trie[at].children /\ Labelled(trie[k], c)
    BY <2>1 DEF ChildrenFor, Labelled
  <2>4. Continues(trie, trie)
    BY <1>0 DEF Continues
  <2> HIDE DEF k, v
  <2>5. v.trie = trie /\ v.at = k
    BY <2>2
  <2> QED
    BY <2>2, <2>3, <2>4, <2>5 DEF v
<1>3. CASE there = {}
  <2> DEFINE C == trie[at].children \cup {new}
             x == [trie[at] EXCEPT !.children = C]
             t == [trie EXCEPT ![at] = x]
             u == Append(t, NodeOf(c))
  <2>1. v = [trie |-> u, at |-> new]
    BY <1>1, <1>3
  <2>2. C \in SUBSET Nat /\ new \in Nat
    BY <1>0
  <2>3. x = [rule |-> trie[at].rule, key |-> trie[at].key, param |-> trie[at].param, children |-> C] /\ x \in Nodes
    <3>1. trie[at] \in Nodes /\ 0 \in Nat /\ <<>> \in Seq(Symbols)
      BY <1>0
    <3> HIDE DEF C
    <3> QED
      BY <2>2, <3>1, NodesChange
  <2>4. /\ NodeOf(c) \in Nodes /\ NodeOf(c).rule = 0 /\ NodeOf(c).children = {}
        /\ Labelled(NodeOf(c), c)
    <3>1. /\ NodeOf(c).rule = 0 /\ NodeOf(c).children = {}
          /\ NodeOf(c).key \in Seq(Symbols) /\ NodeOf(c).param \in Traits \cup {"MAX"}
          /\ NodeOf(c) = [rule |-> 0, key |-> NodeOf(c).key, param |-> NodeOf(c).param, children |-> {}]
      BY NodeOfIs
    <3> QED
      BY <3>1 DEF Nodes, Labelled
  <2>5. t \in Seq(Nodes) /\ Len(t) = Len(trie) /\ t[at] = x /\ \A i \in DOMAIN trie : i # at => t[i] = trie[i]
    <3> HIDE DEF x
    <3> QED
      BY <1>0, <2>3
  <2>6. /\ u \in Seq(Nodes) /\ Len(u) = new /\ u[new] = NodeOf(c) /\ u[at] = x
        /\ \A i \in DOMAIN trie : i # at => u[i] = trie[i]
    <3> HIDE DEF t, x
    <3> QED
      BY <1>0, <2>4, <2>5
  <2>7. DOMAIN u = DOMAIN trie \cup {new} /\ new \notin DOMAIN trie
    BY <1>0, <2>6
  <2>8. \A i \in DOMAIN trie :
          /\ u[i].rule = trie[i].rule /\ u[i].key = trie[i].key /\ u[i].param = trie[i].param
          /\ u[i].children = IF i = at THEN C ELSE trie[i].children
    <3> HIDE DEF u, C
    <3>1. u[at].rule = trie[at].rule /\ u[at].key = trie[at].key /\ u[at].param = trie[at].param /\ u[at].children = C
      BY <2>3, <2>6
    <3> QED
      BY <2>6, <3>1
  <2> HIDE DEF u, x, t
  <2>9. Continues(trie, u)
    <3>1. \A i \in DOMAIN trie : trie[i].children \subseteq u[i].children
                                 /\ \A k \in DOMAIN trie : k \in u[i].children => k \in trie[i].children
      BY <2>7, <2>8
    <3>2. \A i \in DOMAIN u : i \notin DOMAIN trie => u[i].rule = 0 /\ u[i].children = {}
      BY <2>4, <2>6, <2>7
    <3>3. Len(trie) <= Len(u)
      BY <1>0, <2>6
    <3> QED
      BY <2>8, <3>1, <3>2, <3>3 DEF Continues
  <2>10. \A k \in trie[at].children : ~Labelled(trie[k], c)
    BY <1>3 DEF ChildrenFor, Labelled
  <2>11. IsTree(u)
    <3>1. u # <<>> /\ u[1].rule = 0 /\ u[1].param = "MAX"
      BY <1>0, <2>6, <2>8 DEF IsTree
    <3>2. \A i \in DOMAIN u : u[i].children \subseteq i + 1 .. Len(u)
      <4> SUFFICES ASSUME NEW i \in DOMAIN u PROVE u[i].children \subseteq i + 1 .. Len(u)
        OBVIOUS
      <4>1. CASE i = new
        BY <2>4, <2>6, <4>1
      <4>2. CASE i \in DOMAIN trie
        <5>1. trie[i].children \subseteq i + 1 .. Len(u)
          BY <1>0, <2>6, <4>2
        <5>2. i = at => new \in i + 1 .. Len(u)
          BY <1>0, <2>6, <4>2
        <5> QED
          BY <2>8, <4>2, <5>1, <5>2
      <4> QED
        BY <2>7, <4>1, <4>2
    <3>3. \A i \in DOMAIN u : \A k \in u[i].children : \E d \in Symbols : Labelled(u[k], d) /\ (i = 1 => d = "/")
      <4> SUFFICES ASSUME NEW i \in DOMAIN u, NEW k \in u[i].children
                   PROVE  \E d \in Symbols : Labelled(u[k], d) /\ (i = 1 => d = "/")
        OBVIOUS
      <4>1. i \in DOMAIN trie
        BY <2>4, <2>6, <2>7
      <4>2. CASE k = new
        <5>1. i = at
          BY <1>0, <2>7, <2>8, <4>1, <4>2
        <5> QED
          BY <2>4, <2>6, <4>2, <5>1
      <4>3. CASE k # new
        <5>1. k \in trie[i].children /\ k \in DOMAIN trie
          BY <1>0, <2>8, <4>1, <4>3
        <5>2. PICK d \in Symbols : Labelled(trie[k], d) /\ (i = 1 => d = "/")
          BY <4>1, <5>1 DEF IsTree
        <5> QED
          BY <2>8, <5>1, <5>2 DEF Labelled
      <4> QED
        BY <4>2, <4>3
    <3>4. \A i \in DOMAIN u : \A k, l \in u[i].children : u[k].key = u[l].key /\ u[k].param = u[l].param => k = l
      <4> SUFFICES ASSUME NEW i \in DOMAIN u, NEW k \in u[i].children, NEW l \in u[i].children,
                          u[k].key = u[l].key, u[k].param = u[l].param
                   PROVE  k = l
        OBVIOUS
      <4>1. i \in DOMAIN trie
        BY <2>4, <2>6, <2>7
      <4>2. \A m \in u[i].children : m # new => m \in trie[i].children /\ m \in DOMAIN trie
        BY <1>0, <2>8, <4>1
      <4>3. \A m \in u[i].children : m = new => i = at
        BY <1>0, <2>7, <2>8, <4>1
      <4>4. CASE k # new /\ l # new
        BY <2>8, <4>1, <4>2, <4>4 DEF IsTree
      <4>5. CASE k = new /\ l # new
        BY <2>4, <2>6, <2>8, <2>10, <4>2, <4>3, <4>5 DEF Labelled
      <4>6. CASE k # new /\ l = new
        BY <2>4, <2>6, <2>8, <2>10, <4>2, <4>3, <4>6 DEF Labelled
      <4> QED
        BY <4>4, <4>5, <4>6
    <3>5. \A i, j \in DOMAIN u : \A k \in u[i].children : k \in u[j].children => i = j
      <4> SUFFICES ASSUME NEW i \in DOMAIN u, NEW j \in DOMAIN u, NEW k \in u[i].children, k \in u[j].children
                   PROVE  i = j
        OBVIOUS
      <4>1. i \in DOMAIN trie /\ j \in DOMAIN trie
        BY <2>4, <2>6, <2>7
      <4>2. CASE k = new
        BY <1>0, <2>7, <2>8, <4>1, <4>2
      <4>3. CASE k # new
        <5>1. k \in trie[i].children /\ k \in trie[j].children
          BY <2>8, <4>1, <4>3
        <5> QED
          BY <4>1, <5>1 DEF IsTree
      <4> QED
        BY <4>2, <4>3
    <3> QED
      BY <2>6, <3>1, <3>2, <3>3, <3>4, <3>5 DEF IsTree
  <2>12. new \in u[at].children /\ Labelled(u[new], c)
    BY <2>4, <2>6, <2>8
  <2>13. v.trie = u /\ v.at = new
    BY <2>1
  <2> HIDE DEF v
  <2> QED
    BY <2>1, <2>9, <2>11, <2>12, <2>13 DEF v
<1> QED
  BY <1>2, <1>3

\* What a tree says of the entries that were added to it, symbol by symbol.
Holds(trie, res, E) ==
  /\ \A e \in E : IsEntry(e)
  /\ \A e \in E : \A j \in 0 .. Len(e.url) : <<e, j>> \in res[1] <=> j = Len(e.url)
  /\ \A i \in DOMAIN trie : trie[i].rule # 0 => \E e \in E : <<e, 0>> \in res[i]
  /\ \A i \in DOMAIN trie, e \in E : <<e, 0>> \in res[i] => e.rule = trie[i].rule
  /\ \A i \in DOMAIN trie, e \in E : \A l \in 1 .. Len(e.url) : <<e, l>> \in res[i] =>
       \E k \in trie[i].children : <<e, l - 1>> \in res[k] /\ Labelled(trie[k], e.url[Len(e.url) - l + 1])
  /\ \A i \in DOMAIN trie : \A k \in trie[i].children : \A e \in E : \A j \in 0 .. Len(e.url) : <<e, j>> \in res[k] =>
       j < Len(e.url) /\ <<e, j + 1>> \in res[i] /\ Labelled(trie[k], e.url[Len(e.url) - j])

\* A tree's nodes are numbered, each before its children.
LEMMA TreeIs ==
  ASSUME NEW trie, IsTree(trie)
  PROVE  /\ trie \in Seq(Nodes) /\ Len(trie) \in Nat /\ DOMAIN trie = 1 .. Len(trie) /\ 1 \in DOMAIN trie
         /\ \A i \in DOMAIN trie : trie[i] \in Nodes
         /\ \A i \in DOMAIN trie : \A k \in trie[i].children : k \in DOMAIN trie /\ i < k /\ i \in Nat /\ k \in Nat
<1>1. trie \in Seq(Nodes) /\ Len(trie) \in Nat /\ DOMAIN trie = 1 .. Len(trie) /\ 1 \in DOMAIN trie
  BY DEF IsTree
<1>2. \A i \in DOMAIN trie : trie[i].children \subseteq i + 1 .. Len(trie)
  BY DEF IsTree
<1> QED
  BY <1>1, <1>2

\* A trie that continues another holds its entries.
LEMMA HoldsOn ==
  ASSUME NEW old, IsTree(old), NEW new, IsTree(new), Continues(old, new), NEW res, NEW E, Holds(old, res, E)
  PROVE  Holds(new, [i \in DOMAIN new |-> IF i \in DOMAIN old THEN res[i] ELSE {}], E)
<1> DEFINE res2 == [i \in DOMAIN new |-> IF i \in DOMAIN old THEN res[i] ELSE {}]
<1>1. /\ \A i \in DOMAIN old : i \in DOMAIN new /\ res2[i] = res[i]
      /\ 1 \in DOMAIN old /\ 1 \in DOMAIN new
      /\ \A i \in DOMAIN new : i \notin DOMAIN old => res2[i] = {}
      /\ \A i \in DOMAIN new : \A k \in new[i].children : k \in DOMAIN new
      /\ \A i \in DOMAIN old : \A k \in old[i].children : k \in DOMAIN old
  BY TreeIs DEF Continues
<1>2. \A i \in DOMAIN old : /\ new[i].rule = old[i].rule /\ \A c : Labelled(new[i], c) <=> Labelled(old[i], c)
                            /\ old[i].children \subseteq new[i].children
                            /\ \A k \in DOMAIN old : k \in new[i].children => k \in old[i].children
  BY DEF Continues, Labelled
<1>3. \A i \in DOMAIN new : i \notin DOMAIN old => new[i].rule = 0 /\ \A k \in DOMAIN old : k \notin new[i].children
  BY DEF Continues
<1> HIDE DEF res2
<1>4. \A e \in E : \A j \in 0 .. Len(e.url) : <<e, j>> \in res2[1] <=> j = Len(e.url)
  BY <1>1 DEF Holds
<1>5. \A i \in DOMAIN new : new[i].rule # 0 => \E e \in E : <<e, 0>> \in res2[i]
  BY <1>1, <1>2, <1>3 DEF Holds
<1>6. \A i \in DOMAIN new, e \in E : <<e, 0>> \in res2[i] => e.rule = new[i].rule
  BY <1>1, <1>2 DEF Holds
<1>7. ASSUME NEW i \in DOMAIN new, NEW e \in E, NEW l \in 1 .. Len(e.url), <<e, l>> \in res2[i]
      PROVE  \E k \in new[i].children : <<e, l - 1>> \in res2[k] /\ Labelled(new[k], e.url[Len(e.url) - l + 1])
  <2>1. i \in DOMAIN old /\ <<e, l>> \in res[i]
    BY <1>1, <1>7
  <2>2. PICK k \in old[i].children : <<e, l - 1>> \in res[k] /\ Labelled(old[k], e.url[Len(e.url) - l + 1])
    BY <2>1 DEF Holds
  <2> QED
    BY <1>1, <1>2, <2>1, <2>2
<1>8. ASSUME NEW i \in DOMAIN new, NEW k \in new[i].children, NEW e \in E, NEW j \in 0 .. Len(e.url), <<e, j>> \in res2[k]
      PROVE  j < Len(e.url) /\ <<e, j + 1>> \in res2[i] /\ Labelled(new[k], e.url[Len(e.url) - j])
  <2>1. k \in DOMAIN old /\ <<e, j>> \in res[k]
    BY <1>1, <1>8
  <2>2. i \in DOMAIN old /\ k \in old[i].children
    BY <1>2, <1>3, <2>1
  <2>3. j < Len(e.url) /\ <<e, j + 1>> \in res[i] /\ Labelled(old[k], e.url[Len(e.url) - j])
    BY <2>1, <2>2 DEF Holds
  <2> QED
    BY <1>1, <1>2, <2>1, <2>2, <2>3
<1>9. \A e \in E : IsEntry(e)
  BY DEF Holds
<1>10. Holds(new, res2, E)
  BY <1>4, <1>5, <1>6, <1>7, <1>8, <1>9 DEF Holds
<1> QED
  BY <1>10 DEF res2

\* The nodes along the first n symbols of a target.
Chain(trie, url, n, a) ==
  /\ a[0] = 1
  /\ \A m \in 1 .. n : /\ a[m - 1] \in DOMAIN trie /\ a[m] \in trie[a[m - 1]].children
                       /\ Labelled(trie[a[m]], url[m])

\* A chain of nodes begins at the root and does not come back to it.
LEMMA ChainIs ==
  ASSUME NEW trie, IsTree(trie), NEW url, NEW n \in Nat, NEW a, Chain(trie, url, n, a)
  PROVE  \A m \in 0 .. n : a[m] \in DOMAIN trie /\ (a[m] = 1 <=> m = 0)
<1>1. 1 \in DOMAIN trie /\ \A i \in DOMAIN trie : i \in Nat /\ i >= 1
  BY TreeIs
<1> SUFFICES ASSUME NEW m \in 0 .. n PROVE a[m] \in DOMAIN trie /\ (a[m] = 1 <=> m = 0)
  OBVIOUS
<1>2. CASE m = 0
  BY <1>1, <1>2 DEF Chain
<1>3. CASE m # 0
  <2>1. m \in 1 .. n
    BY <1>3
  <2>2. a[m - 1] \in DOMAIN trie /\ a[m] \in trie[a[m - 1]].children
    BY <2>1 DEF Chain
  <2>3. a[m] \in DOMAIN trie /\ a[m - 1] < a[m] /\ a[m] \in Nat /\ a[m - 1] \in Nat
    BY <2>2, TreeIs
  <2> QED
    BY <1>1, <1>3, <2>2, <2>3
<1> QED
  BY <1>2, <1>3

\* A chain stays one while the trie grows.
LEMMA ChainOn ==
  ASSUME NEW old, IsTree(old), NEW new, Continues(old, new), IsTree(new), NEW url, NEW n \in Nat, NEW a, Chain(old, url, n, a)
  PROVE  Chain(new, url, n, a)
<1>1. \A m \in 0 .. n : a[m] \in DOMAIN old
  BY ChainIs
<1>2. \A i \in DOMAIN old : i \in DOMAIN new
  BY TreeIs DEF Continues
<1> SUFFICES ASSUME NEW m \in 1 .. n
             PROVE  /\ a[m - 1] \in DOMAIN new /\ a[m] \in new[a[m - 1]].children
                    /\ Labelled(new[a[m]], url[m])
  BY DEF Chain
<1>3. m \in 0 .. n /\ m - 1 \in 0 .. n
  OBVIOUS
<1>4. a[m] \in DOMAIN old /\ a[m - 1] \in DOMAIN old
  BY <1>1, <1>3
<1>5. a[m] \in old[a[m - 1]].children /\ Labelled(old[a[m]], url[m])
  BY DEF Chain
<1> QED
  BY <1>2, <1>4, <1>5 DEF Continues, Labelled

IsWalk(walk, trie, url, n) ==
  walk = [i \in 0 .. n |-> IF i = 0 THEN [trie |-> trie, at |-> 1] ELSE Follow(walk[i - 1], url[i])]

WalkOf(trie, url) == CHOOSE walk : IsWalk(walk, trie, url, Len(url))

\* A walk along a target exists, by induction over its length.
LEMMA WalksExist ==
  ASSUME NEW trie, NEW url
  PROVE  \A n \in Nat : \E walk : IsWalk(walk, trie, url, n)
<1> DEFINE start == [trie |-> trie, at |-> 1]
           next(f, i) == IF i = 0 THEN start ELSE Follow(f[i - 1], url[i])
           S == {n \in Nat : \E walk : IsWalk(walk, trie, url, n)}
<1>1. 0 \in S
  <2> DEFINE zero == [i \in 0 .. 0 |-> start]
  <2>1. \A i \in 0 .. 0 : next(zero, i) = start
    OBVIOUS
  <2> HIDE DEF next
  <2>2. zero = [i \in 0 .. 0 |-> next(zero, i)]
    BY <2>1
  <2> HIDE DEF zero
  <2>3. IsWalk(zero, trie, url, 0)
    BY <2>2, Zenon DEF IsWalk, next, start
  <2> QED
    BY <2>3
<1>2. ASSUME NEW n \in Nat, n \in S PROVE n + 1 \in S
  <2>1. PICK f : IsWalk(f, trie, url, n)
    BY <1>2
  <2> DEFINE g == [i \in 0 .. n + 1 |-> IF i = n + 1 THEN Follow(f[n], url[n + 1]) ELSE f[i]]
  <2>2. \A i \in 0 .. n : f[i] = next(f, i)
    BY <2>1 DEF IsWalk
  <2>3. ASSUME NEW i \in 0 .. n + 1 PROVE g[i] = next(g, i)
    <3>1. CASE i = 0
      <4>1. g[i] = f[i] /\ i \in 0 .. n
        BY <3>1
      <4>2. f[i] = start
        BY <2>2, <3>1, <4>1
      <4> HIDE DEF g, start
      <4> QED
        BY <3>1, <4>1, <4>2
    <3>2. CASE i = n + 1
      <4>1. i # 0 /\ i - 1 = n /\ n \in 0 .. n + 1 /\ n # n + 1
        BY <3>2
      <4>2. g[i] = Follow(f[n], url[i]) /\ g[n] = f[n]
        BY <3>2, <4>1
      <4> HIDE DEF g
      <4> QED
        BY <4>1, <4>2
    <3>3. CASE i # 0 /\ i # n + 1
      <4>1. i \in 0 .. n /\ i - 1 \in 0 .. n + 1 /\ i - 1 # n + 1
        BY <3>3
      <4>2. g[i] = f[i] /\ g[i - 1] = f[i - 1]
        BY <3>3, <4>1
      <4>3. f[i] = Follow(f[i - 1], url[i])
        BY <2>2, <3>3, <4>1
      <4> HIDE DEF g
      <4> QED
        BY <3>3, <4>2, <4>3
    <3> QED
      BY <3>1, <3>2, <3>3
  <2> HIDE DEF next
  <2>4. g = [i \in 0 .. n + 1 |-> next(g, i)]
    BY <2>3, Zenon
  <2> HIDE DEF g
  <2>5. IsWalk(g, trie, url, n + 1)
    BY <2>4, Zenon DEF IsWalk, next, start
  <2> QED
    BY <2>5
<1>3. Nat \subseteq S
  <2> HIDE DEF S
  <2> QED
    BY <1>1, <1>2, NumbersInduct
<1> QED
  BY <1>3

\* A walk follows the target symbol by symbol, from the root.
LEMMA WalkOfIs ==
  ASSUME NEW trie, NEW url \in Seq(Symbols)
  PROVE  /\ Walk(trie, url) = WalkOf(trie, url)[Len(url)]
         /\ WalkOf(trie, url)[0] = [trie |-> trie, at |-> 1]
         /\ \A i \in 1 .. Len(url) : WalkOf(trie, url)[i] = Follow(WalkOf(trie, url)[i - 1], url[i])
<1>1. Len(url) \in Nat
  OBVIOUS
<1>2. IsWalk(WalkOf(trie, url), trie, url, Len(url))
  BY <1>1, WalksExist, Zenon DEF WalkOf
<1>3. Walk(trie, url) = WalkOf(trie, url)[Len(url)]
  BY Zenon DEF Walk, WalkOf, IsWalk
<1>4. \A i \in 0 .. Len(url) :
        WalkOf(trie, url)[i] = IF i = 0 THEN [trie |-> trie, at |-> 1] ELSE Follow(WalkOf(trie, url)[i - 1], url[i])
  BY <1>2, Zenon DEF IsWalk
<1>5. 0 \in 0 .. Len(url) /\ \A i \in 1 .. Len(url) : i \in 0 .. Len(url) /\ i # 0
  BY <1>1
<1> QED
  BY <1>3, <1>4, <1>5, Zenon

\* The urls of entries begin with a slash.
IsUrl(url) == url \in Seq(Symbols) /\ url # <<>> /\ url[1] = "/"

\* Along a target a tree gets the nodes it lacks, and says of its entries what it said.
LEMMA WalkIs ==
  ASSUME NEW trie, IsTree(trie), NEW res, NEW E, Holds(trie, res, E), NEW url, IsUrl(url)
  PROVE  LET w == Walk(trie, url)
         IN /\ IsTree(w.trie)
            /\ \E r : Holds(w.trie, r, E)
            /\ \E a : Chain(w.trie, url, Len(url), a) /\ w.at = a[Len(url)]
<1> DEFINE walk == WalkOf(trie, url)
           Good(n) == /\ walk[n] = [trie |-> walk[n].trie, at |-> walk[n].at]
                      /\ IsTree(walk[n].trie)
                      /\ \E r : Holds(walk[n].trie, r, E)
                      /\ \E a : Chain(walk[n].trie, url, n, a) /\ walk[n].at = a[n]
           S == {n \in Nat : n <= Len(url) => Good(n)}
<1>0. url \in Seq(Symbols) /\ Len(url) \in Nat /\ url[1] = "/"
  BY DEF IsUrl
<1>1. /\ Walk(trie, url) = walk[Len(url)]
      /\ walk[0] = [trie |-> trie, at |-> 1]
      /\ \A i \in 1 .. Len(url) : walk[i] = Follow(walk[i - 1], url[i])
  BY <1>0, WalkOfIs
<1> HIDE DEF walk
<1>2. 0 \in S
  <2>1. walk[0].trie = trie /\ walk[0].at = 1
    BY <1>1
  <2>2. Chain(trie, url, 0, [m \in 0 .. 0 |-> 1]) /\ [m \in 0 .. 0 |-> 1][0] = 1
    BY DEF Chain
  <2> QED
    BY <1>1, <2>1, <2>2
<1>3. ASSUME NEW n \in Nat, n \in S PROVE n + 1 \in S
  <2> SUFFICES ASSUME n + 1 <= Len(url) PROVE Good(n + 1)
    OBVIOUS
  <2>1. Good(n) /\ n + 1 \in 1 .. Len(url) /\ (n + 1) - 1 = n
    BY <1>0, <1>3
  <2> DEFINE t == walk[n].trie
             at == walk[n].at
             c == url[n + 1]
             v == walk[n + 1]
  <2>2. PICK r : Holds(t, r, E)
    BY <2>1
  <2>3. PICK a : Chain(t, url, n, a) /\ at = a[n]
    BY <2>1
  <2>4. c \in Symbols
    BY <1>0, <2>1
  <2>5. at \in DOMAIN t /\ (at = 1 => c = "/")
    <3>1. \A m \in 0 .. n : a[m] \in DOMAIN t /\ (a[m] = 1 <=> m = 0)
      <4> HIDE DEF t, at
      <4> QED
        BY <2>1, <2>3, ChainIs DEF t
    <3>2. n \in 0 .. n /\ (n = 0 => n + 1 = 1)
      OBVIOUS
    <3> QED
      BY <1>0, <2>3, <3>1, <3>2
  <2>6. v = Follow([trie |-> t, at |-> at], c)
    BY <1>1, <2>1
  <2>7. IsTree(t)
    BY <2>1
  <2> HIDE DEF t, at, c, v
  <2>8. /\ v = [trie |-> v.trie, at |-> v.at]
        /\ IsTree(v.trie) /\ Continues(t, v.trie)
        /\ v.at \in v.trie[at].children /\ Labelled(v.trie[v.at], c)
    BY <2>4, <2>5, <2>6, <2>7, FollowIs
  <2>9. \E s : Holds(v.trie, s, E)
    BY <2>2, <2>7, <2>8, HoldsOn
  <2> DEFINE b == [m \in 0 .. n + 1 |-> IF m = n + 1 THEN v.at ELSE a[m]]
  <2>10. Chain(v.trie, url, n, a)
    BY <2>3, <2>7, <2>8, ChainOn
  <2>11. Chain(v.trie, url, n + 1, b) /\ v.at = b[n + 1]
    <3>1. b[n + 1] = v.at /\ b[n] = a[n] /\ \A m \in 0 .. n : b[m] = a[m]
      OBVIOUS
    <3> HIDE DEF b
    <3>2. b[0] = 1
      BY <2>10, <3>1 DEF Chain
    <3>3. ASSUME NEW m \in 1 .. n + 1
          PROVE  b[m - 1] \in DOMAIN v.trie /\ b[m] \in v.trie[b[m - 1]].children /\ Labelled(v.trie[b[m]], url[m])
      <4>1. CASE m = n + 1
        <5>1. at \in DOMAIN v.trie
          BY <2>5, <2>7, <2>8, TreeIs DEF Continues
        <5> QED
          BY <2>3, <2>8, <3>1, <4>1, <5>1 DEF c
      <4>2. CASE m # n + 1
        <5>1. m \in 1 .. n /\ m \in 0 .. n /\ m - 1 \in 0 .. n
          BY <4>2
        <5> QED
          BY <2>10, <3>1, <5>1 DEF Chain
      <4> QED
        BY <4>1, <4>2
    <3> QED
      BY <3>1, <3>2, <3>3 DEF Chain
  <2> QED
    BY <2>8, <2>9, <2>11 DEF v
<1>4. Nat \subseteq S
  <2> HIDE DEF S
  <2> QED
    BY <1>2, <1>3, NumbersInduct
<1>5. Good(Len(url))
  <2> HIDE DEF Good
  <2> QED
    BY <1>0, <1>4
<1> QED
  BY <1>1, <1>5

\* A node stands for one symbol, but for parameters that take the same.
LEMMA LabelledSame ==
  ASSUME NEW x, NEW c \in Symbols, NEW d \in Symbols
  PROVE  /\ Labelled(x, c) /\ Labelled(x, d) => NodeOf(c) = NodeOf(d)
         /\ Labelled(x, c) /\ NodeOf(c) = NodeOf(d) => Labelled(x, d)
<1>1. /\ NodeOf(c) = [rule |-> 0, key |-> NodeOf(c).key, param |-> NodeOf(c).param, children |-> {}]
      /\ NodeOf(d) = [rule |-> 0, key |-> NodeOf(d).key, param |-> NodeOf(d).param, children |-> {}]
  BY NodeOfIs
<1> QED
  BY <1>1 DEF Labelled

\* What is left at a node of a chain has the same symbols before it.
LEMMA ChainSame ==
  ASSUME NEW trie, IsTree(trie), NEW res, NEW E, Holds(trie, res, E), NEW url \in Seq(Symbols),
         NEW a, Chain(trie, url, Len(url), a)
  PROVE  \A m \in 0 .. Len(url) : \A e \in E : \A j \in 0 .. Len(e.url) :
           <<e, j>> \in res[a[m]] =>
             Len(e.url) = m + j /\ \A q \in 1 .. m : NodeOf(e.url[q]) = NodeOf(url[q])
<1> DEFINE Good(m) == \A e \in E : \A j \in 0 .. Len(e.url) :
                        <<e, j>> \in res[a[m]] =>
                          Len(e.url) = m + j /\ \A q \in 1 .. m : NodeOf(e.url[q]) = NodeOf(url[q])
           S == {m \in Nat : m <= Len(url) => Good(m)}
<1>0. /\ Len(url) \in Nat /\ \A i \in 1 .. Len(url) : url[i] \in Symbols
      /\ \A e \in E : e.url \in Seq(Symbols) /\ Len(e.url) \in Nat /\ \A i \in 1 .. Len(e.url) : e.url[i] \in Symbols
  BY DEF Holds, IsEntry
<1>1. 0 \in S
  BY <1>0 DEF Holds, Chain
<1>2. ASSUME NEW m \in Nat, m \in S PROVE m + 1 \in S
  <2> SUFFICES ASSUME m + 1 <= Len(url), NEW e \in E, NEW j \in 0 .. Len(e.url), <<e, j>> \in res[a[m + 1]]
               PROVE  Len(e.url) = (m + 1) + j /\ \A q \in 1 .. m + 1 : NodeOf(e.url[q]) = NodeOf(url[q])
    OBVIOUS
  <2>1. m + 1 \in 1 .. Len(url) /\ (m + 1) - 1 = m /\ m <= Len(url)
    BY <1>0
  <2>2. a[m] \in DOMAIN trie /\ a[m + 1] \in trie[a[m]].children /\ Labelled(trie[a[m + 1]], url[m + 1])
    BY <2>1 DEF Chain
  <2>3. j < Len(e.url) /\ <<e, j + 1>> \in res[a[m]] /\ Labelled(trie[a[m + 1]], e.url[Len(e.url) - j])
    BY <2>2 DEF Holds
  <2>4. j + 1 \in 0 .. Len(e.url)
    BY <1>0, <2>3
  <2>5. Len(e.url) = m + (j + 1) /\ \A q \in 1 .. m : NodeOf(e.url[q]) = NodeOf(url[q])
    BY <1>2, <2>1, <2>3, <2>4
  <2>6. Len(e.url) - j = m + 1 /\ m + 1 \in 1 .. Len(e.url)
    BY <1>0, <2>5
  <2>7. NodeOf(e.url[m + 1]) = NodeOf(url[m + 1])
    BY <1>0, <2>1, <2>2, <2>3, <2>6, LabelledSame
  <2>8. \A q \in 1 .. m + 1 : q \in 1 .. m \/ q = m + 1
    OBVIOUS
  <2> QED
    BY <2>5, <2>7, <2>8
<1>3. Nat \subseteq S
  <2> HIDE DEF S
  <2> QED
    BY <1>1, <1>2, NumbersInduct
<1>4. \A m \in 0 .. Len(url) : Good(m)
  <2> HIDE DEF Good
  <2> QED
    BY <1>0, <1>3
<1> QED
  BY <1>4

\* An entry with the same symbols is at each of them.
LEMMA ChainHas ==
  ASSUME NEW trie, IsTree(trie), NEW res, NEW E, Holds(trie, res, E), NEW url \in Seq(Symbols),
         NEW a, Chain(trie, url, Len(url), a), NEW e \in E, SameUrl(e.url, url)
  PROVE  <<e, 0>> \in res[a[Len(url)]]
<1> DEFINE n == Len(url)
           S == {m \in Nat : m <= n => <<e, n - m>> \in res[a[m]]}
<1>0. /\ n \in Nat /\ Len(e.url) = n /\ e.url \in Seq(Symbols)
      /\ \A i \in 1 .. n : url[i] \in Symbols /\ e.url[i] \in Symbols /\ NodeOf(e.url[i]) = NodeOf(url[i])
  BY DEF Holds, IsEntry, SameUrl
<1> HIDE DEF n
<1>1. 0 \in S
  BY <1>0 DEF Holds, Chain
<1>2. ASSUME NEW m \in Nat, m \in S PROVE m + 1 \in S
  <2> SUFFICES ASSUME m + 1 <= n PROVE <<e, n - (m + 1)>> \in res[a[m + 1]]
    OBVIOUS
  <2>1. m + 1 \in 1 .. n /\ (m + 1) - 1 = m /\ n - m \in 1 .. Len(e.url) /\ n - (n - m) + 1 = m + 1 /\ (n - m) - 1 = n - (m + 1)
    BY <1>0
  <2>2. a[m] \in DOMAIN trie /\ a[m + 1] \in trie[a[m]].children /\ Labelled(trie[a[m + 1]], url[m + 1])
    BY <2>1 DEF Chain, n
  <2>3. <<e, n - m>> \in res[a[m]]
    BY <1>0, <1>2
  <2>4. PICK k \in trie[a[m]].children : <<e, (n - m) - 1>> \in res[k] /\ Labelled(trie[k], e.url[Len(e.url) - (n - m) + 1])
    BY <2>1, <2>2, <2>3 DEF Holds
  <2>5. Labelled(trie[k], e.url[m + 1])
    BY <1>0, <2>1, <2>4
  <2>6. Labelled(trie[k], url[m + 1])
    BY <1>0, <2>1, <2>5, LabelledSame
  <2>7. k = a[m + 1]
    BY <2>2, <2>6 DEF IsTree, Labelled
  <2> QED
    BY <2>1, <2>4, <2>7
<1>3. Nat \subseteq S
  <2> HIDE DEF S
  <2> QED
    BY <1>1, <1>2, NumbersInduct
<1>4. <<e, n - n>> \in res[a[n]] /\ n - n = 0
  BY <1>0, <1>3
<1> QED
  BY <1>4 DEF n

\* A rule at the end of a chain that had none.
LEMMA EndIs ==
  ASSUME NEW trie, IsTree(trie), NEW res, NEW E, Holds(trie, res, E),
         NEW e0, IsEntry(e0), e0.url # <<>>,
         NEW a, Chain(trie, e0.url, Len(e0.url), a), trie[a[Len(e0.url)]].rule = 0
  PROVE  LET new == [trie EXCEPT ![a[Len(e0.url)]].rule = e0.rule]
         IN IsTree(new) /\ \E r : Holds(new, r, E \cup {e0})
<1> DEFINE url == e0.url
           n == Len(url)
           end == a[n]
           new == [trie EXCEPT ![end].rule = e0.rule]
<1>0. n \in Nat /\ n > 0 /\ e0.rule \in Nat /\ e0.rule # 0 /\ url \in Seq(Symbols) /\ (\A i \in 1 .. n : url[i] \in Symbols)
  BY DEF IsEntry
<1>1. /\ \A m \in 0 .. n : a[m] \in DOMAIN trie /\ (a[m] = 1 <=> m = 0)
      /\ \A m \in 1 .. n : /\ a[m - 1] \in DOMAIN trie /\ a[m] \in trie[a[m - 1]].children
                           /\ Labelled(trie[a[m]], url[m])
  <2>1. \A m \in 0 .. n : a[m] \in DOMAIN trie /\ (a[m] = 1 <=> m = 0)
    <3> HIDE DEF n, url
    <3>1. n \in Nat /\ Chain(trie, url, n, a)
      BY <1>0 DEF n, url
    <3> QED
      BY <3>1, ChainIs
  <2> QED
    BY <2>1 DEF Chain
<1>2. /\ trie \in Seq(Nodes) /\ Len(trie) \in Nat /\ DOMAIN trie = 1 .. Len(trie) /\ 1 \in DOMAIN trie
      /\ \A i \in DOMAIN trie : trie[i] \in Nodes
  BY TreeIs
<1>3. e0 \notin E
  <2> SUFFICES ASSUME e0 \in E PROVE FALSE
    OBVIOUS
  <2>1. SameUrl(e0.url, url)
    BY DEF SameUrl
  <2>2. <<e0, 0>> \in res[end]
    BY <1>0, <2>1, ChainHas
  <2>3. e0.rule = trie[end].rule
    BY <1>0, <1>1, <2>2 DEF Holds
  <2> QED
    BY <1>0, <2>3
<1> HIDE DEF n, url
<1>4. end \in DOMAIN trie /\ end # 1
  BY <1>0, <1>1
<1>5. /\ new \in Seq(Nodes) /\ Len(new) = Len(trie) /\ DOMAIN new = DOMAIN trie
      /\ \A i \in DOMAIN trie : /\ new[i].key = trie[i].key /\ new[i].param = trie[i].param
                                /\ new[i].children = trie[i].children
                                /\ new[i].rule = IF i = end THEN e0.rule ELSE trie[i].rule
  <2> DEFINE x == [trie[end] EXCEPT !.rule = e0.rule]
  <2>1. trie[end] \in Nodes /\ {} \in SUBSET Nat /\ <<>> \in Seq(Symbols)
    BY <1>2, <1>4
  <2>2. /\ x = [rule |-> e0.rule, key |-> trie[end].key, param |-> trie[end].param, children |-> trie[end].children]
        /\ x \in Nodes
    BY <1>0, <2>1, NodesChange
  <2> HIDE DEF end, x
  <2>3. new = [trie EXCEPT ![end] = x]
    BY DEF x
  <2>4. new \in Seq(Nodes) /\ Len(new) = Len(trie) /\ DOMAIN new = DOMAIN trie
        /\ new[end] = x /\ \A i \in DOMAIN trie : i # end => new[i] = trie[i]
    BY <1>2, <1>4, <2>2, <2>3
  <2> HIDE DEF new
  <2> QED
    BY <2>2, <2>4
<1> HIDE DEF new, end
<1>6. IsTree(new)
  <2>1. \A i \in DOMAIN new : \A k \in new[i].children : k \in DOMAIN trie /\ \A c : Labelled(new[k], c) <=> Labelled(trie[k], c)
    BY <1>5, TreeIs DEF Labelled
  <2>2. new # <<>> /\ new[1].rule = 0 /\ new[1].param = "MAX"
    BY <1>2, <1>4, <1>5 DEF IsTree
  <2>3. \A i \in DOMAIN new : new[i].children \subseteq i + 1 .. Len(new)
    BY <1>5 DEF IsTree
  <2>4. \A i \in DOMAIN new : \A k \in new[i].children : \E c \in Symbols : Labelled(new[k], c) /\ (i = 1 => c = "/")
    <3> SUFFICES ASSUME NEW i \in DOMAIN new, NEW k \in new[i].children
                 PROVE  \E c \in Symbols : Labelled(new[k], c) /\ (i = 1 => c = "/")
      OBVIOUS
    <3>1. i \in DOMAIN trie /\ k \in trie[i].children
      BY <1>5
    <3>2. PICK c \in Symbols : Labelled(trie[k], c) /\ (i = 1 => c = "/")
      BY <3>1 DEF IsTree
    <3> QED
      BY <2>1, <3>2
  <2>5. \A i \in DOMAIN new : \A k, l \in new[i].children : new[k].key = new[l].key /\ new[k].param = new[l].param => k = l
    <3> SUFFICES ASSUME NEW i \in DOMAIN new, NEW k \in new[i].children, NEW l \in new[i].children,
                        new[k].key = new[l].key, new[k].param = new[l].param
                 PROVE  k = l
      OBVIOUS
    <3>1. i \in DOMAIN trie /\ k \in DOMAIN trie /\ l \in DOMAIN trie /\ new[i].children = trie[i].children
      BY <1>5, <2>1
    <3>2. trie[k].key = trie[l].key /\ trie[k].param = trie[l].param
      BY <1>5, <3>1
    <3> QED
      BY <3>1, <3>2 DEF IsTree
  <2>6. \A i, j \in DOMAIN new : \A k \in new[i].children : k \in new[j].children => i = j
    BY <1>5 DEF IsTree
  <2> QED
    BY <1>5, <2>2, <2>3, <2>4, <2>5, <2>6 DEF IsTree
<1> DEFINE more(i) == {<<e0, n - m>> : m \in {q \in 0 .. n : a[q] = i}}
           res2 == [i \in DOMAIN trie |-> {p \in res[i] : p[1] # e0} \cup more(i)]
           F == E \cup {e0}
<1>7. \A i \in DOMAIN trie : \A e \in E : \A j : <<e, j>> \in res2[i] <=> <<e, j>> \in res[i]
  BY <1>3
<1>8. \A i \in DOMAIN trie : \A j \in 0 .. n : <<e0, j>> \in res2[i] <=> a[n - j] = i
  <2> SUFFICES ASSUME NEW i \in DOMAIN trie, NEW j \in 0 .. n PROVE <<e0, j>> \in res2[i] <=> a[n - j] = i
    OBVIOUS
  <2>1. <<e0, j>> \in res2[i] <=> <<e0, j>> \in more(i)
    BY Zenon
  <2>2. \A m \in 0 .. n : j = n - m <=> m = n - j
    BY <1>0
  <2>3. n - j \in 0 .. n /\ j = n - (n - j)
    BY <1>0
  <2> QED
    BY <2>1, <2>2, <2>3
<1> HIDE DEF res2
<1>9. /\ \A e \in E : IsEntry(e) /\ Len(e.url) \in Nat
      /\ \A e \in F : e \in E \/ e = e0
      /\ e0 \in F /\ (\A e \in E : e \in F) /\ Len(e0.url) = n
  BY DEF Holds, IsEntry, n, url
<1> HIDE DEF F
<1>10. \A e \in F : IsEntry(e)
  BY <1>9
<1>11. \A e \in F : \A j \in 0 .. Len(e.url) : <<e, j>> \in res2[1] <=> j = Len(e.url)
  <2> SUFFICES ASSUME NEW e \in F, NEW j \in 0 .. Len(e.url) PROVE <<e, j>> \in res2[1] <=> j = Len(e.url)
    OBVIOUS
  <2>1. CASE e \in E
    BY <1>2, <1>7, <2>1 DEF Holds
  <2>2. CASE e = e0
    <3>1. j \in 0 .. n /\ n - j \in 0 .. n /\ (n - j = 0 <=> j = n)
      BY <1>0, <1>9, <2>2
    <3>2. <<e, j>> \in res2[1] <=> a[n - j] = 1
      BY <1>2, <1>8, <2>2, <3>1
    <3> QED
      BY <1>1, <1>9, <2>2, <3>1, <3>2
  <2> QED
    BY <1>9, <2>1, <2>2
<1>12. \A i \in DOMAIN new : new[i].rule # 0 => \E e \in F : <<e, 0>> \in res2[i]
  <2> SUFFICES ASSUME NEW i \in DOMAIN new, new[i].rule # 0 PROVE \E e \in F : <<e, 0>> \in res2[i]
    OBVIOUS
  <2>1. CASE i = end
    <3>1. 0 \in 0 .. n /\ n - 0 = n /\ a[n] = i
      BY <1>0, <2>1 DEF end
    <3> QED
      BY <1>5, <1>8, <1>9, <3>1
  <2>2. CASE i # end
    <3>1. PICK e \in E : <<e, 0>> \in res[i]
      BY <1>5, <2>2 DEF Holds
    <3> QED
      BY <1>5, <1>7, <1>9, <3>1
  <2> QED
    BY <2>1, <2>2
<1>13. \A i \in DOMAIN new, e \in F : <<e, 0>> \in res2[i] => e.rule = new[i].rule
  <2> SUFFICES ASSUME NEW i \in DOMAIN new, NEW e \in F, <<e, 0>> \in res2[i] PROVE e.rule = new[i].rule
    OBVIOUS
  <2>1. CASE e \in E
    <3>1. e.rule = trie[i].rule /\ e.rule # 0
      BY <1>5, <1>7, <1>9, <2>1 DEF Holds, IsEntry
    <3>2. i # end
      BY <3>1 DEF end, n, url
    <3> QED
      BY <1>5, <3>1, <3>2
  <2>2. CASE e = e0
    <3>1. 0 \in 0 .. n /\ n - 0 = n
      BY <1>0
    <3>2. a[n] = i
      BY <1>5, <1>8, <2>2, <3>1
    <3> QED
      BY <1>5, <2>2, <3>2 DEF end
  <2> QED
    BY <1>9, <2>1, <2>2
<1>14. ASSUME NEW i \in DOMAIN new, NEW e \in F, NEW l \in 1 .. Len(e.url), <<e, l>> \in res2[i]
       PROVE  \E k \in new[i].children : <<e, l - 1>> \in res2[k] /\ Labelled(new[k], e.url[Len(e.url) - l + 1])
  <2>1. CASE e \in E
    <3>1. PICK k \in trie[i].children : <<e, l - 1>> \in res[k] /\ Labelled(trie[k], e.url[Len(e.url) - l + 1])
      BY <1>5, <1>7, <1>14, <2>1 DEF Holds
    <3>2. k \in DOMAIN trie
      BY <1>5, <3>1, TreeIs
    <3> QED
      BY <1>5, <1>7, <2>1, <3>1, <3>2 DEF Labelled
  <2>2. CASE e = e0
    <3>1. l \in 0 .. n /\ n - l + 1 \in 1 .. n /\ (n - l + 1) - 1 = n - l /\ n - (l - 1) = n - l + 1 /\ l - 1 \in 0 .. n
      BY <1>0, <1>9, <2>2
    <3>2. a[n - l] = i
      BY <1>5, <1>8, <1>14, <2>2, <3>1
    <3> DEFINE k == a[n - l + 1]
    <3>3. k \in trie[i].children /\ Labelled(trie[k], url[n - l + 1])
      BY <1>1, <3>1, <3>2
    <3>4. k \in DOMAIN trie
      BY <1>5, <3>3, TreeIs
    <3>5. <<e, l - 1>> \in res2[k]
      BY <1>8, <2>2, <3>1, <3>4
    <3>6. Labelled(new[k], e.url[Len(e.url) - l + 1])
      BY <1>5, <1>9, <2>2, <3>3, <3>4 DEF Labelled, url
    <3> QED
      BY <1>5, <3>3, <3>5, <3>6
  <2> QED
    BY <1>9, <2>1, <2>2
<1>15. ASSUME NEW i \in DOMAIN new, NEW k \in new[i].children, NEW e \in F, NEW j \in 0 .. Len(e.url), <<e, j>> \in res2[k]
       PROVE  j < Len(e.url) /\ <<e, j + 1>> \in res2[i] /\ Labelled(new[k], e.url[Len(e.url) - j])
  <2>0. i \in DOMAIN trie /\ k \in trie[i].children /\ k \in DOMAIN trie /\ k # 1
    BY <1>5, TreeIs
  <2>1. CASE e \in E
    <3>1. <<e, j>> \in res[k]
      BY <1>7, <1>15, <2>0, <2>1
    <3>2. j < Len(e.url) /\ <<e, j + 1>> \in res[i] /\ Labelled(trie[k], e.url[Len(e.url) - j])
      BY <2>0, <2>1, <3>1 DEF Holds
    <3> QED
      BY <1>5, <1>7, <2>0, <2>1, <3>2 DEF Labelled
  <2>2. CASE e = e0
    <3>1. j \in 0 .. n /\ n - j \in 0 .. n
      BY <1>0, <1>9, <2>2
    <3>2. a[n - j] = k
      BY <1>8, <1>15, <2>0, <2>2, <3>1
    <3>3. n - j # 0
      BY <1>1, <2>0, <3>1, <3>2
    <3>4. n - j \in 1 .. n /\ (n - j) - 1 = n - (j + 1) /\ j + 1 \in 0 .. n /\ j < n
      BY <1>0, <3>1, <3>3
    <3>5. a[n - (j + 1)] \in DOMAIN trie /\ k \in trie[a[n - (j + 1)]].children /\ Labelled(trie[k], url[n - j])
      BY <1>1, <3>2, <3>4
    <3>6. a[n - (j + 1)] = i
      BY <2>0, <3>5 DEF IsTree
    <3>7. <<e, j + 1>> \in res2[i]
      BY <1>8, <2>0, <2>2, <3>4, <3>6
    <3>8. Labelled(new[k], e.url[Len(e.url) - j])
      BY <1>5, <1>9, <2>0, <2>2, <3>5 DEF Labelled, url
    <3> QED
      BY <1>9, <2>2, <3>4, <3>7, <3>8
  <2> QED
    BY <1>9, <2>1, <2>2
<1>16. Holds(new, res2, F)
  BY <1>10, <1>11, <1>12, <1>13, <1>14, <1>15 DEF Holds
<1> QED
  BY <1>6, <1>16 DEF new, F, end, n, url

\* An entry is added unless there is one that is the same.
EntryAdded(d, E, e0) ==
  /\ d.ok \in BOOLEAN /\ d = [ok |-> d.ok, trie |-> d.trie]
  /\ d.ok => /\ IsTree(d.trie) /\ \E r : Holds(d.trie, r, E \cup {e0})
             /\ \A e \in E : ~SameUrl(e.url, e0.url)
  /\ ~d.ok => \E e \in E : SameUrl(e.url, e0.url)

\* Adding an entry adds it, unless another with the same target is there.
LEMMA AddEntryIs ==
  ASSUME NEW trie, IsTree(trie), NEW res, NEW E, Holds(trie, res, E), NEW e0, IsEntry(e0), IsUrl(e0.url)
  PROVE  EntryAdded(AddEntry([ok |-> TRUE, trie |-> trie], e0.url, e0.rule), E, e0)
<1> DEFINE url == e0.url
           added == [ok |-> TRUE, trie |-> trie]
           w == Walk(trie, url)
           t == w.trie
           end == w.at
           new == [t EXCEPT ![end].rule = e0.rule]
           d == AddEntry(added, url, e0.rule)
<1>0. url \in Seq(Symbols) /\ url # <<>> /\ Len(url) \in Nat /\ Len(url) \in 0 .. Len(url)
  BY DEF IsUrl
<1>1. d = IF t[end].rule # 0 THEN [added EXCEPT !.ok = FALSE] ELSE [added EXCEPT !.trie = new]
  BY DEF AddEntry
<1>2. d = IF t[end].rule # 0 THEN [ok |-> FALSE, trie |-> trie] ELSE [ok |-> TRUE, trie |-> new]
  <2> HIDE DEF new, t, end, d
  <2>1. \A ok, x : [[ok |-> ok, trie |-> trie] EXCEPT !.ok = x] = [ok |-> x, trie |-> trie]
    OBVIOUS
  <2>2. \A ok, x : [[ok |-> ok, trie |-> trie] EXCEPT !.trie = x] = [ok |-> ok, trie |-> x]
    OBVIOUS
  <2>3. [added EXCEPT !.ok = FALSE] = [ok |-> FALSE, trie |-> trie]
    BY <2>1, Zenon
  <2>4. [added EXCEPT !.trie = new] = [ok |-> TRUE, trie |-> new]
    BY <2>2, Zenon
  <2> HIDE DEF added
  <2> QED
    BY <1>1, <2>3, <2>4
<1>3. IsTree(t) /\ (\E r : Holds(t, r, E)) /\ \E a : Chain(t, url, Len(url), a) /\ end = a[Len(url)]
  <2> HIDE DEF url
  <2>1. IsUrl(url)
    BY DEF url
  <2> QED
    BY <2>1, WalkIs
<1> HIDE DEF t, end
<1>4. PICK r : Holds(t, r, E)
  BY <1>3
<1>5. PICK a : Chain(t, url, Len(url), a) /\ end = a[Len(url)]
  BY <1>3
<1>6. CASE t[end].rule # 0
  <2>1. end \in DOMAIN t
    <3> HIDE DEF url
    <3> QED
      BY <1>0, <1>3, <1>5, ChainIs
  <2>2. PICK e \in E : <<e, 0>> \in r[end]
    BY <1>4, <1>6, <2>1 DEF Holds
  <2>3. e.url \in Seq(Symbols) /\ 0 \in 0 .. Len(e.url) /\ DOMAIN e.url = 1 .. Len(e.url)
    BY <1>4 DEF Holds, IsEntry
  <2>4. Len(e.url) = Len(url) + 0 /\ \A q \in 1 .. Len(url) : NodeOf(e.url[q]) = NodeOf(url[q])
    <3> HIDE DEF url
    <3> QED
      BY <1>0, <1>3, <1>4, <1>5, <2>2, <2>3, ChainSame
  <2>5. SameUrl(e.url, url)
    BY <1>0, <2>3, <2>4 DEF SameUrl
  <2>6. d = [ok |-> FALSE, trie |-> trie]
    BY <1>2, <1>6
  <2> HIDE DEF d
  <2>7. ~d.ok /\ d.ok \in BOOLEAN /\ d = [ok |-> d.ok, trie |-> d.trie]
    BY <2>6
  <2> QED
    BY <2>5, <2>7 DEF EntryAdded, d
<1>7. CASE t[end].rule = 0
  <2>1. IsTree(new) /\ \E s : Holds(new, s, E \cup {e0})
    BY <1>0, <1>3, <1>4, <1>5, <1>7, EndIs
  <2>2. ASSUME NEW e \in E, SameUrl(e.url, url) PROVE FALSE
    <3>1. <<e, 0>> \in r[end]
      <4> HIDE DEF url
      <4> QED
        BY <1>0, <1>3, <1>4, <1>5, <2>2, ChainHas
    <3>2. end \in DOMAIN t
      <4> HIDE DEF url
      <4> QED
        BY <1>0, <1>3, <1>5, ChainIs
    <3>3. e.rule = t[end].rule /\ e.rule # 0
      BY <1>4, <3>1, <3>2 DEF Holds, IsEntry
    <3> QED
      BY <1>7, <3>3
  <2> HIDE DEF new
  <2>3. d = [ok |-> TRUE, trie |-> new]
    BY <1>2, <1>7
  <2> HIDE DEF d
  <2>4. d.ok /\ d.trie = new /\ d.ok \in BOOLEAN /\ d = [ok |-> d.ok, trie |-> d.trie]
    BY <2>3
  <2> QED
    BY <2>1, <2>2, <2>4 DEF EntryAdded, d
<1> QED
  BY <1>6, <1>7

\* The entries of a rule.
EntriesOf(rule, index, from) ==
  {[url |-> rule.url, rule |-> index, from |-> from]}
    \cup IF HasSlash(rule.url) THEN {[url |-> Front(rule.url), rule |-> RuleSpecialRedirectSlash, from |-> from]} ELSE {}

\* A target without its last slash is a target.
LEMMA FrontIs ==
  ASSUME NEW url, IsUrl(url), HasSlash(url)
  PROVE  IsUrl(Front(url)) /\ Len(Front(url)) = Len(url) - 1
<1>1. url \in Seq(Symbols) /\ Len(url) \in Nat /\ Len(url) > 1 /\ url[1] = "/"
  BY DEF IsUrl, HasSlash
<1>2. Front(url) = [i \in 1 .. Len(url) - 1 |-> url[i]]
  BY <1>1 DEF Front
<1>3. /\ Front(url) \in Seq(Symbols) /\ Len(Front(url)) = Len(url) - 1 /\ Front(url)[1] = "/"
  BY <1>1, <1>2
<1>4. Front(url) # <<>>
  BY <1>1, <1>3
<1> QED
  BY <1>3, <1>4 DEF IsUrl

\* Adding a rule to a table adds its target, and a redirection if it ends with a slash.
LEMMA AddEntriesIs ==
  ASSUME NEW trie, IsTree(trie), NEW res, NEW E, Holds(trie, res, E), NEW rule, IsUrl(rule.url),
         NEW index \in Nat, index # 0, NEW from
  PROVE  LET d == AddEntries(trie, rule.url, index)
         IN /\ d.ok \in BOOLEAN
            /\ d.ok => /\ IsTree(d.trie) /\ \E r : Holds(d.trie, r, E \cup EntriesOf(rule, index, from))
                       /\ \A e \in E, u \in UrlsOf(rule) : ~SameUrl(e.url, u)
            /\ ~d.ok => \E e \in E, u \in UrlsOf(rule) : SameUrl(e.url, u)
<1> DEFINE url == rule.url
           e1 == [url |-> url, rule |-> index, from |-> from]
           e2 == [url |-> Front(url), rule |-> RuleSpecialRedirectSlash, from |-> from]
           added == [ok |-> TRUE, trie |-> trie]
           d1 == AddEntry(added, url, index)
           d2 == AddEntry(d1, Front(url), RuleSpecialRedirectSlash)
           d == AddEntries(trie, url, index)
<1>0. IsUrl(url) /\ url \in Seq(Symbols) /\ Len(url) \in Nat
  BY DEF IsUrl
<1>1. d = IF HasSlash(url) THEN d2 ELSE d1
  BY DEF AddEntries
<1>2. IsEntry(e1) /\ e1.url = url /\ e1.rule = index
  BY <1>0 DEF IsEntry
<1>3. /\ d1.ok \in BOOLEAN /\ d1 = [ok |-> d1.ok, trie |-> d1.trie]
      /\ d1.ok => /\ IsTree(d1.trie) /\ \E r : Holds(d1.trie, r, E \cup {e1})
                  /\ \A e \in E : ~SameUrl(e.url, url)
      /\ ~d1.ok => \E e \in E : SameUrl(e.url, url)
  <2> HIDE DEF e1, url
  <2> QED
    BY <1>0, <1>2, AddEntryIs DEF EntryAdded
<1> HIDE DEF d1, d, e1, e2
<1>4. CASE ~HasSlash(url)
  <2>1. d = d1
    BY <1>1, <1>4
  <2>2. UrlsOf(rule) = {url} /\ EntriesOf(rule, index, from) = {e1}
    BY <1>4 DEF UrlsOf, EntriesOf, e1
  <2> QED
    BY <1>3, <2>1, <2>2 DEF d
<1>5. CASE HasSlash(url)
  <2>1. d = d2
    BY <1>1, <1>5
  <2>2. UrlsOf(rule) = {url, Front(url)} /\ EntriesOf(rule, index, from) = {e1, e2}
    BY <1>5 DEF UrlsOf, EntriesOf, e1, e2
  <2>3. IsUrl(Front(url)) /\ Len(Front(url)) = Len(url) - 1
    <3> HIDE DEF url
    <3> QED
      BY <1>0, <1>5, FrontIs
  <2>4. CASE ~d1.ok
    <3>1. d2 = [d1 EXCEPT !.ok = FALSE]
      BY <2>4 DEF AddEntry
    <3>2. d2.ok = FALSE
      BY <1>3, <3>1
    <3> QED
      BY <1>3, <2>1, <2>2, <2>4, <3>2 DEF d
  <2>5. CASE d1.ok
    <3> DEFINE t == d1.trie
               F == E \cup {e1}
    <3>1. d1 = [ok |-> TRUE, trie |-> t]
      BY <1>3, <2>5
    <3>2. IsTree(t) /\ \E r : Holds(t, r, F)
      BY <1>3, <2>5
    <3>3. PICK r : Holds(t, r, F)
      BY <3>2
    <3>4. IsEntry(e2) /\ e2.url = Front(url) /\ e2.rule = RuleSpecialRedirectSlash
      BY <2>3 DEF IsEntry, IsUrl, RuleSpecialRedirectSlash, e2
    <3> HIDE DEF t, F
    <3>5. /\ d2.ok \in BOOLEAN
          /\ d2.ok => /\ IsTree(d2.trie) /\ \E s : Holds(d2.trie, s, F \cup {e2})
                      /\ \A e \in F : ~SameUrl(e.url, Front(url))
          /\ ~d2.ok => \E e \in F : SameUrl(e.url, Front(url))
      <4>1. d2 = AddEntry([ok |-> TRUE, trie |-> t], e2.url, e2.rule)
        BY <3>1, <3>4
      <4>2. EntryAdded(AddEntry([ok |-> TRUE, trie |-> t], e2.url, e2.rule), F, e2)
        BY <2>3, <3>2, <3>3, <3>4, AddEntryIs
      <4> HIDE DEF d2
      <4>3. EntryAdded(d2, F, e2)
        BY <4>1, <4>2
      <4> QED
        BY <3>4, <4>3 DEF EntryAdded
    <3>6. F \cup {e2} = E \cup {e1, e2} /\ (\A e \in E : e \in F) /\ (\A e \in F : e \in E \/ e = e1)
      BY DEF F
    <3>7. ~SameUrl(e1.url, Front(url))
      BY <1>0, <1>2, <2>3 DEF SameUrl
    <3> HIDE DEF d2
    <3>8. CASE d2.ok
      <4>1. IsTree(d2.trie) /\ \E s : Holds(d2.trie, s, E \cup {e1, e2})
        BY <3>5, <3>6, <3>8
      <4>2. \A e \in E, u \in UrlsOf(rule) : ~SameUrl(e.url, u)
        BY <1>3, <2>2, <2>5, <3>5, <3>6, <3>8
      <4> QED
        BY <2>1, <2>2, <3>5, <3>8, <4>1, <4>2 DEF d
    <3>9. CASE ~d2.ok
      <4>1. \E e \in E, u \in UrlsOf(rule) : SameUrl(e.url, u)
        BY <2>2, <3>5, <3>6, <3>7, <3>9
      <4> QED
        BY <2>1, <3>5, <3>9, <4>1 DEF d
    <3> QED
      BY <3>8, <3>9
  <2> QED
    BY <2>4, <2>5
<1> QED
  BY <1>4, <1>5

-----------------------------------------------------------------------------
(* The tables of an application. *)

\* Rules as an application declares them.
Declared(rules) ==
  /\ rules \in Seq({rules[i] : i \in DOMAIN rules})
  /\ \A i \in DOMAIN rules : IsUrl(rules[i].url) /\ rules[i].methods \subseteq Methods

\* The entries a table has for the first n rules that have the method, and where their rules are.
Entered(E, listed, rules, m, n) ==
  /\ listed \in Seq({NoRule} \cup {rules[i] : i \in DOMAIN rules}) /\ Len(listed) > 1
  /\ \A e \in E :
       /\ e.from \in 1 .. n /\ m \in rules[e.from].methods /\ e.rule \in Nat /\ e.rule < Len(listed)
       /\ \/ e.url = rules[e.from].url /\ e.rule > 1 /\ listed[e.rule + 1] = rules[e.from]
          \/ HasSlash(rules[e.from].url) /\ e.url = Front(rules[e.from].url) /\ e.rule = RuleSpecialRedirectSlash
  /\ \A i \in 1 .. n : m \in rules[i].methods => \E index \in Nat : index > 1 /\ EntriesOf(rules[i], index, i) \subseteq E
  /\ \A e, f \in E : e.rule > 1 /\ f.rule > 1 /\ e.rule <= f.rule => e.from <= f.from
  /\ \A i, j \in 1 .. n : i # j /\ m \in rules[i].methods /\ m \in rules[j].methods =>
       \A u \in UrlsOf(rules[i]), v \in UrlsOf(rules[j]) : ~SameUrl(u, v)

SameTwice(rules, m) ==
  \E i, j \in DOMAIN rules :
    /\ i # j /\ m \in rules[i].methods /\ m \in rules[j].methods
    /\ \E u \in UrlsOf(rules[i]), v \in UrlsOf(rules[j]) : SameUrl(u, v)

\* A rule that is not for a method leaves the method's entries alone.
LEMMA EnteredOn ==
  ASSUME NEW E, NEW listed, NEW rules, NEW m, NEW n \in Nat, Entered(E, listed, rules, m, n), m \notin rules[n + 1].methods
  PROVE  Entered(E, listed, rules, m, n + 1)
<1>1. \A i \in 1 .. n + 1 : m \in rules[i].methods => i \in 1 .. n
  OBVIOUS
<1>2. \A e \in E : e.from \in 1 .. n + 1
  BY DEF Entered
<1> QED
  BY <1>1, <1>2 DEF Entered

\* Which of two targets is first does not matter.
LEMMA SameUrlSymmetric ==
  ASSUME NEW u \in Seq(Symbols), NEW v \in Seq(Symbols), SameUrl(u, v)
  PROVE  SameUrl(v, u)
BY DEF SameUrl

\* The targets of a rule are its own and the one without the last slash.
LEMMA UrlsAre ==
  ASSUME NEW rule, IsUrl(rule.url)
  PROVE  /\ rule.url \in UrlsOf(rule) /\ (HasSlash(rule.url) => Front(rule.url) \in UrlsOf(rule))
         /\ \A u \in UrlsOf(rule) : IsUrl(u) /\ (u = rule.url \/ (HasSlash(rule.url) /\ u = Front(rule.url)))
BY FrontIs DEF UrlsOf

\* The url of an entry is one of those of its rule, and each of them has an entry.
LEMMA EnteredUrls ==
  ASSUME NEW E, NEW listed, NEW rules, NEW m, NEW n \in Nat, n <= Len(rules), Declared(rules), Entered(E, listed, rules, m, n)
  PROVE  /\ \A e \in E : e.from \in 1 .. n /\ m \in rules[e.from].methods /\ e.url \in UrlsOf(rules[e.from])
         /\ \A i \in 1 .. n : m \in rules[i].methods => \A u \in UrlsOf(rules[i]) : \E e \in E : e.url = u /\ e.from = i
<1>1. DOMAIN rules = 1 .. Len(rules) /\ Len(rules) \in Nat
  BY DEF Declared
<1>2. \A i \in 1 .. n : i \in DOMAIN rules /\ IsUrl(rules[i].url)
  BY <1>1 DEF Declared
<1>3. \A e \in E : e.from \in 1 .. n /\ m \in rules[e.from].methods /\ e.url \in UrlsOf(rules[e.from])
  BY <1>2, UrlsAre DEF Entered
<1>4. ASSUME NEW i \in 1 .. n, m \in rules[i].methods, NEW u \in UrlsOf(rules[i])
      PROVE  \E e \in E : e.url = u /\ e.from = i
  <2>1. PICK index \in Nat : EntriesOf(rules[i], index, i) \subseteq E
    BY <1>4 DEF Entered
  <2>2. u = rules[i].url \/ (HasSlash(rules[i].url) /\ u = Front(rules[i].url))
    BY <1>2, UrlsAre
  <2> DEFINE e1 == [url |-> rules[i].url, rule |-> index, from |-> i]
             e2 == [url |-> Front(rules[i].url), rule |-> RuleSpecialRedirectSlash, from |-> i]
  <2>3. e1 \in E /\ (HasSlash(rules[i].url) => e2 \in E)
    BY <2>1 DEF EntriesOf
  <2>4. e1.url = rules[i].url /\ e1.from = i /\ e2.url = Front(rules[i].url) /\ e2.from = i
    OBVIOUS
  <2> HIDE DEF e1, e2
  <2> QED
    BY <2>2, <2>3, <2>4
<1> QED
  BY <1>3, <1>4

\* A rule that is for a method adds its entries, and with them all rules so far are entered.
LEMMA EnteredNext ==
  ASSUME NEW E, NEW listed, NEW rules, Declared(rules), NEW m, NEW n \in Nat, n + 1 <= Len(rules),
         Entered(E, listed, rules, m, n), m \in rules[n + 1].methods,
         \A e \in E, u \in UrlsOf(rules[n + 1]) : ~SameUrl(e.url, u)
  PROVE  Entered(E \cup EntriesOf(rules[n + 1], Len(listed), n + 1), Append(listed, rules[n + 1]), rules, m, n + 1)
<1> DEFINE rule == rules[n + 1]
           index == Len(listed)
           R == {NoRule} \cup {rules[i] : i \in DOMAIN rules}
           longer == Append(listed, rule)
           new == EntriesOf(rule, index, n + 1)
           F == E \cup new
<1>0. /\ DOMAIN rules = 1 .. Len(rules) /\ Len(rules) \in Nat /\ n + 1 \in DOMAIN rules /\ rule \in R
      /\ \A i \in 1 .. n + 1 : i \in DOMAIN rules /\ IsUrl(rules[i].url)
  BY DEF Declared
<1>1. listed \in Seq(R) /\ index \in Nat /\ index > 1
  BY DEF Entered
<1>2. /\ longer \in Seq(R) /\ Len(longer) = index + 1 /\ longer[index + 1] = rule
      /\ \A i \in 1 .. index : longer[i] = listed[i]
  <2> HIDE DEF R, rule
  <2> QED
    BY <1>0, <1>1
<1>3. \A e \in new : /\ e.from = n + 1
                     /\ \/ e.url = rule.url /\ e.rule = index
                        \/ HasSlash(rule.url) /\ e.url = Front(rule.url) /\ e.rule = RuleSpecialRedirectSlash
  BY DEF EntriesOf
<1>4. /\ \A e \in E : e.from \in 1 .. n /\ m \in rules[e.from].methods /\ e.url \in UrlsOf(rules[e.from])
      /\ \A i \in 1 .. n : m \in rules[i].methods => \A u \in UrlsOf(rules[i]) : \E e \in E : e.url = u /\ e.from = i
  <2>1. n <= Len(rules)
    BY <1>0
  <2> QED
    BY <2>1, EnteredUrls
<1> HIDE DEF longer, new
<1>5. ASSUME NEW e \in F
      PROVE  /\ e.from \in 1 .. n + 1 /\ m \in rules[e.from].methods /\ e.rule \in Nat /\ e.rule < Len(longer)
             /\ \/ e.url = rules[e.from].url /\ e.rule > 1 /\ longer[e.rule + 1] = rules[e.from]
                \/ HasSlash(rules[e.from].url) /\ e.url = Front(rules[e.from].url) /\ e.rule = RuleSpecialRedirectSlash
  <2>1. CASE e \in E
    <3>1. /\ e.from \in 1 .. n /\ m \in rules[e.from].methods /\ e.rule \in Nat /\ e.rule < index
          /\ \/ e.url = rules[e.from].url /\ e.rule > 1 /\ listed[e.rule + 1] = rules[e.from]
             \/ HasSlash(rules[e.from].url) /\ e.url = Front(rules[e.from].url) /\ e.rule = RuleSpecialRedirectSlash
      BY <2>1 DEF Entered
    <3>2. CASE e.rule > 1
      <4>1. e.rule + 1 \in 1 .. index /\ e.rule # RuleSpecialRedirectSlash
        BY <1>1, <3>1, <3>2 DEF RuleSpecialRedirectSlash
      <4>2. longer[e.rule + 1] = rules[e.from] /\ e.url = rules[e.from].url
        BY <1>2, <3>1, <4>1
      <4>3. e.from \in 1 .. n + 1 /\ e.rule < index + 1
        BY <1>1, <3>1
      <4> QED
        BY <1>2, <3>1, <3>2, <4>2, <4>3
    <3>3. CASE e.rule = RuleSpecialRedirectSlash
      BY <1>1, <1>2, <3>1, <3>3 DEF RuleSpecialRedirectSlash
    <3> QED
      BY <3>1, <3>2, <3>3
  <2>2. CASE e \in new
    BY <1>1, <1>2, <1>3, <2>2 DEF RuleSpecialRedirectSlash
  <2> QED
    BY <2>1, <2>2
<1>6. ASSUME NEW i \in 1 .. n + 1, m \in rules[i].methods
      PROVE  \E k \in Nat : k > 1 /\ EntriesOf(rules[i], k, i) \subseteq F
  <2>1. CASE i = n + 1
    BY <1>1, <2>1 DEF new
  <2>2. CASE i # n + 1
    <3>1. i \in 1 .. n
      BY <2>2
    <3>2. PICK k \in Nat : k > 1 /\ EntriesOf(rules[i], k, i) \subseteq E
      BY <1>6, <3>1 DEF Entered
    <3> QED
      BY <3>2
  <2> QED
    BY <2>1, <2>2
<1>7. ASSUME NEW e \in F, NEW f \in F, e.rule > 1, f.rule > 1, e.rule <= f.rule
      PROVE  e.from <= f.from
  <2>1. \A g \in E : g.from \in 1 .. n /\ g.rule < index
    BY DEF Entered
  <2>2. \A g \in new : g.from = n + 1 /\ (g.rule > 1 => g.rule = index)
    BY <1>3 DEF RuleSpecialRedirectSlash
  <2>3. CASE e \in E /\ f \in E
    BY <1>7, <2>3 DEF Entered
  <2>4. CASE f \in new
    BY <1>5, <2>2, <2>4
  <2>5. CASE e \in new /\ f \in E
    <3>1. e.rule = index /\ f.rule < index
      BY <1>7, <2>1, <2>2, <2>5
    <3>2. FALSE
      <4>1. e.rule \in Nat
        BY <1>1, <3>1
      <4>2. f.rule \in Nat
        BY <2>5 DEF Entered
      <4> QED
        BY <1>1, <1>7, <3>1, <4>1, <4>2
    <3> QED
      BY <3>2
  <2> QED
    BY <2>3, <2>4, <2>5
<1>8. ASSUME NEW i \in 1 .. n + 1, NEW j \in 1 .. n + 1, i # j, m \in rules[i].methods, m \in rules[j].methods,
             NEW u \in UrlsOf(rules[i]), NEW v \in UrlsOf(rules[j])
      PROVE  ~SameUrl(u, v)
  <2>0. u \in Seq(Symbols) /\ v \in Seq(Symbols)
    BY <1>0, UrlsAre DEF IsUrl
  <2>1. CASE i \in 1 .. n /\ j \in 1 .. n
    BY <1>8, <2>1 DEF Entered
  <2>2. CASE j = n + 1
    <3>1. i \in 1 .. n
      BY <1>8, <2>2
    <3>2. PICK e \in E : e.url = u
      BY <1>4, <1>8, <3>1
    <3> QED
      BY <2>2, <3>2
  <2>3. CASE i = n + 1
    <3>1. j \in 1 .. n
      BY <1>8, <2>3
    <3>2. PICK e \in E : e.url = v
      BY <1>4, <1>8, <3>1
    <3>3. ~SameUrl(v, u)
      BY <2>3, <3>2
    <3> QED
      BY <2>0, <3>3, SameUrlSymmetric
  <2> QED
    BY <2>1, <2>2, <2>3
<1> HIDE DEF F
<1>9. Entered(F, longer, rules, m, n + 1)
  BY <1>1, <1>2, <1>5, <1>6, <1>7, <1>8 DEF Entered
<1> QED
  BY <1>9 DEF F, new, longer

TableIs(table, rules, m, n) ==
  /\ table = [rules |-> table.rules, trie |-> table.trie]
  /\ \E E : /\ IsTree(table.trie) /\ \E res : Holds(table.trie, res, E)
            /\ Entered(E, table.rules, rules, m, n)

\* An empty table holds the entries of no rules.
LEMMA NoTableIs ==
  ASSUME NEW rules, NEW m \in Methods
  PROVE  TableIs(NoTables[m], rules, m, 0)
<1> DEFINE head == Node(<<>>, "MAX")
           R == {NoRule} \cup {rules[i] : i \in DOMAIN rules}
           res == [i \in 1 .. 1 |-> {}]
<1>1. /\ NoTables[m].trie = NewTrie /\ NoTables[m].rules = <<NoRule, NoRule>>
      /\ NoTables[m] = [rules |-> NoTables[m].rules, trie |-> NoTables[m].trie]
  BY DEF NoTables
<1>2. head = [rule |-> 0, key |-> <<>>, param |-> "MAX", children |-> {}] /\ head \in Nodes
  <2>1. head = [rule |-> 0, key |-> <<>>, param |-> "MAX", children |-> {}]
    BY DEF Node
  <2>2. <<>> \in Seq(Symbols) /\ {} \in SUBSET Nat /\ 0 \in Nat /\ "MAX" \in Traits \cup {"MAX"}
    OBVIOUS
  <2> HIDE DEF head
  <2>3. head.rule = 0 /\ head.key = <<>> /\ head.param = "MAX" /\ head.children = {}
    BY <2>1
  <2>4. [rule |-> 0, key |-> <<>>, param |-> "MAX", children |-> {}] \in Nodes
    BY <2>2 DEF Nodes
  <2> QED
    BY <2>1, <2>4
<1> HIDE DEF head
<1>3. NewTrie = <<head>>
  BY DEF NewTrie, head
<1>4. /\ NewTrie \in Seq(Nodes) /\ NewTrie # <<>> /\ DOMAIN NewTrie = 1 .. 1 /\ Len(NewTrie) = 1 /\ NewTrie[1] = head
  BY <1>2, <1>3
<1>5. head.rule = 0 /\ head.param = "MAX" /\ head.children = {}
  BY <1>2
<1>6. IsTree(NewTrie)
  <2>1. \A i \in DOMAIN NewTrie : NewTrie[i].children = {}
    BY <1>4, <1>5
  <2> QED
    BY <1>4, <1>5, <2>1 DEF IsTree
<1>7. Holds(NewTrie, res, {})
  BY <1>4, <1>5 DEF Holds
<1>8. Entered({}, <<NoRule, NoRule>>, rules, m, 0)
  <2>1. NoRule \in R
    OBVIOUS
  <2> HIDE DEF R
  <2>2. <<NoRule, NoRule>> \in Seq(R) /\ Len(<<NoRule, NoRule>>) > 1
    BY <2>1
  <2> QED
    BY <2>2 DEF Entered, R
<1> QED
  BY <1>1, <1>6, <1>7, <1>8 DEF TableIs

\* A table after a rule, which is added unless another has a target of it.
LEMMA TableNext ==
  ASSUME NEW rules, Declared(rules), NEW m, NEW n \in Nat, n + 1 <= Len(rules), NEW table, TableIs(table, rules, m, n),
         m \in rules[n + 1].methods
  PROVE  LET d == AddEntries(table.trie, rules[n + 1].url, Len(table.rules))
         IN /\ d.ok \in BOOLEAN
            /\ d.ok => TableIs([rules |-> Append(table.rules, rules[n + 1]), trie |-> d.trie], rules, m, n + 1)
            /\ ~d.ok => SameTwice(rules, m)
<1> DEFINE rule == rules[n + 1]
           index == Len(table.rules)
           d == AddEntries(table.trie, rule.url, index)
           next == [rules |-> Append(table.rules, rule), trie |-> d.trie]
<1>1. PICK E : IsTree(table.trie) /\ (\E res : Holds(table.trie, res, E)) /\ Entered(E, table.rules, rules, m, n)
  BY DEF TableIs
<1>2. PICK res : Holds(table.trie, res, E)
  BY <1>1
<1>3. /\ DOMAIN rules = 1 .. Len(rules) /\ Len(rules) \in Nat /\ n + 1 \in DOMAIN rules /\ n <= Len(rules)
      /\ IsUrl(rule.url)
  BY DEF Declared
<1>4. index \in Nat /\ index # 0
  BY <1>1 DEF Entered
<1>5. /\ d.ok \in BOOLEAN
      /\ d.ok => /\ IsTree(d.trie) /\ \E r : Holds(d.trie, r, E \cup EntriesOf(rule, index, n + 1))
                 /\ \A e \in E, u \in UrlsOf(rule) : ~SameUrl(e.url, u)
      /\ ~d.ok => \E e \in E, u \in UrlsOf(rule) : SameUrl(e.url, u)
  <2> HIDE DEF rule, index
  <2> QED
    BY <1>1, <1>2, <1>3, <1>4, AddEntriesIs
<1> HIDE DEF d
<1>6. ASSUME d.ok PROVE TableIs(next, rules, m, n + 1)
  <2> DEFINE F == E \cup EntriesOf(rule, index, n + 1)
  <2>1. Entered(F, Append(table.rules, rule), rules, m, n + 1)
    BY <1>1, <1>5, <1>6, EnteredNext
  <2>2. next.rules = Append(table.rules, rule) /\ next.trie = d.trie /\ next = [rules |-> next.rules, trie |-> next.trie]
    OBVIOUS
  <2> HIDE DEF F, next
  <2>3. IsTree(next.trie) /\ \E r : Holds(next.trie, r, F)
    BY <1>5, <1>6, <2>2 DEF F
  <2> QED
    BY <2>1, <2>2, <2>3 DEF TableIs
<1>7. ASSUME ~d.ok PROVE SameTwice(rules, m)
  <2>1. PICK e \in E, u \in UrlsOf(rule) : SameUrl(e.url, u)
    BY <1>5, <1>7
  <2>2. e.from \in 1 .. n /\ m \in rules[e.from].methods /\ e.url \in UrlsOf(rules[e.from])
    BY <1>1, <1>3, EnteredUrls
  <2>3. e.from \in DOMAIN rules /\ e.from # n + 1
    BY <1>3, <2>2
  <2> QED
    BY <1>3, <2>1, <2>2, <2>3 DEF SameTwice
<1> QED
  BY <1>5, <1>6, <1>7 DEF d

\* The tables are those of the first n rules, or the rules are faulty.
RouterIs(r, rules, n) ==
  /\ r.ok \in BOOLEAN
  /\ r.ok => \A m \in Methods : TableIs(r.tables[m], rules, m, n)
  /\ ~r.ok => \E m \in Methods : SameTwice(rules, m)

\* Adding the next rule to all tables keeps them right, or finds two rules that are the same.
LEMMA AddRuleIs ==
  ASSUME NEW rules, Declared(rules), NEW n \in Nat, n + 1 <= Len(rules), NEW r, RouterIs(r, rules, n)
  PROVE  RouterIs(AddRule(r, rules[n + 1]), rules, n + 1)
<1> DEFINE rule == rules[n + 1]
           old(m) == r.tables[m]
           new(m) == AddEntries(old(m).trie, rule.url, Len(old(m).rules))
           next(m) == IF m \in rule.methods THEN [rules |-> Append(old(m).rules, rule), trie |-> new(m).trie] ELSE old(m)
           s == AddRule(r, rule)
<1>1. s = [ok |-> r.ok /\ \A m \in rule.methods : new(m).ok, tables |-> [m \in Methods |-> next(m)]]
  BY DEF AddRule
<1> DEFINE ok == r.ok /\ \A m \in rule.methods : new(m).ok
<1>2. s.ok = ok /\ \A m \in Methods : s.tables[m] = next(m)
  <2> HIDE DEF ok, next
  <2>1. \A b, t : [ok |-> b, tables |-> t].ok = b /\ [ok |-> b, tables |-> t].tables = t
    OBVIOUS
  <2>2. s.ok = ok /\ s.tables = [m \in Methods |-> next(m)]
    <3>1. s = [ok |-> ok, tables |-> [m \in Methods |-> next(m)]]
      BY <1>1 DEF ok
    <3> QED
      BY <2>1, <3>1, Zenon
  <2> QED
    BY <2>2
<1>3. rule.methods \subseteq Methods
  <2>1. n + 1 \in DOMAIN rules
    BY DEF Declared
  <2> QED
    BY <2>1 DEF Declared
<1>4. ASSUME r.ok, NEW m \in rule.methods
      PROVE  /\ new(m).ok \in BOOLEAN
             /\ new(m).ok => TableIs([rules |-> Append(old(m).rules, rule), trie |-> new(m).trie], rules, m, n + 1)
             /\ ~new(m).ok => SameTwice(rules, m)
  <2>1. TableIs(old(m), rules, m, n)
    BY <1>3, <1>4 DEF RouterIs
  <2> HIDE DEF old
  <2> QED
    BY <2>1, TableNext
<1>5. ASSUME r.ok, NEW m \in Methods, m \notin rule.methods PROVE TableIs(old(m), rules, m, n + 1)
  <2>1. TableIs(old(m), rules, m, n)
    BY <1>5 DEF RouterIs
  <2> HIDE DEF old
  <2>0. old(m) = [rules |-> old(m).rules, trie |-> old(m).trie]
    BY <2>1 DEF TableIs
  <2>2. PICK E : /\ IsTree(old(m).trie) /\ (\E res : Holds(old(m).trie, res, E))
                 /\ Entered(E, old(m).rules, rules, m, n)
    BY <2>1 DEF TableIs
  <2>3. Entered(E, old(m).rules, rules, m, n + 1)
    BY <1>5, <2>2, EnteredOn
  <2> QED
    BY <2>0, <2>2, <2>3, Zenon DEF TableIs
<1> HIDE DEF s, new, old
<1>6. s.ok \in BOOLEAN
  BY <1>2 DEF RouterIs
<1>7. ASSUME s.ok, NEW m \in Methods PROVE TableIs(s.tables[m], rules, m, n + 1)
  BY <1>2, <1>4, <1>5, <1>7
<1>8. ASSUME ~s.ok PROVE \E m \in Methods : SameTwice(rules, m)
  <2>1. CASE ~r.ok
    BY <2>1 DEF RouterIs
  <2>2. CASE r.ok
    <3>1. \E m \in rule.methods : ~new(m).ok
      BY <1>2, <1>8, <2>2
    <3> QED
      BY <1>3, <1>4, <2>2, <3>1
  <2> QED
    BY <2>1, <2>2
<1>9. RouterIs(s, rules, n + 1)
  BY <1>6, <1>7, <1>8 DEF RouterIs
<1> QED
  BY <1>9 DEF s

IsAdding(added, rules, n) ==
  added = [i \in 0 .. n |-> IF i = 0 THEN [ok |-> TRUE, tables |-> NoTables] ELSE AddRule(added[i - 1], rules[i])]

AddedOf(rules) == CHOOSE added : IsAdding(added, rules, Len(rules))

\* Rules are added one after the other: the recursion of Validated has a solution.
LEMMA AddingsExist ==
  ASSUME NEW rules
  PROVE  \A n \in Nat : \E added : IsAdding(added, rules, n)
<1> DEFINE start == [ok |-> TRUE, tables |-> NoTables]
           next(f, i) == IF i = 0 THEN start ELSE AddRule(f[i - 1], rules[i])
           S == {n \in Nat : \E added : IsAdding(added, rules, n)}
<1>1. 0 \in S
  <2> DEFINE zero == [i \in 0 .. 0 |-> start]
  <2>1. \A i \in 0 .. 0 : next(zero, i) = start
    <3> HIDE DEF start, zero
    <3> QED
      OBVIOUS
  <2> HIDE DEF next, start
  <2>2. zero = [i \in 0 .. 0 |-> next(zero, i)]
    BY <2>1
  <2> HIDE DEF zero
  <2>3. IsAdding(zero, rules, 0)
    BY <2>2, Zenon DEF IsAdding, next, start
  <2> QED
    BY <2>3
<1>2. ASSUME NEW n \in Nat, n \in S PROVE n + 1 \in S
  <2>1. PICK f : IsAdding(f, rules, n)
    BY <1>2
  <2> DEFINE g == [i \in 0 .. n + 1 |-> IF i = n + 1 THEN AddRule(f[n], rules[n + 1]) ELSE f[i]]
  <2>2. \A i \in 0 .. n : f[i] = next(f, i)
    BY <2>1, Zenon DEF IsAdding
  <2> HIDE DEF start
  <2>3. ASSUME NEW i \in 0 .. n + 1 PROVE g[i] = next(g, i)
    <3>1. CASE i = 0
      <4>1. g[i] = f[i] /\ i \in 0 .. n
        BY <3>1
      <4>2. f[i] = start
        BY <2>2, <3>1, <4>1
      <4> HIDE DEF g
      <4> QED
        BY <3>1, <4>1, <4>2
    <3>2. CASE i = n + 1
      <4>1. i # 0 /\ i - 1 = n /\ n \in 0 .. n + 1 /\ n # n + 1
        BY <3>2
      <4>2. g[i] = AddRule(f[n], rules[i]) /\ g[n] = f[n]
        BY <3>2, <4>1
      <4> HIDE DEF g
      <4> QED
        BY <4>1, <4>2
    <3>3. CASE i # 0 /\ i # n + 1
      <4>1. i \in 0 .. n /\ i - 1 \in 0 .. n + 1 /\ i - 1 # n + 1
        BY <3>3
      <4>2. g[i] = f[i] /\ g[i - 1] = f[i - 1]
        BY <3>3, <4>1
      <4>3. f[i] = AddRule(f[i - 1], rules[i])
        BY <2>2, <3>3, <4>1
      <4> HIDE DEF g
      <4> QED
        BY <3>3, <4>2, <4>3
    <3> QED
      BY <3>1, <3>2, <3>3
  <2> HIDE DEF next
  <2>4. g = [i \in 0 .. n + 1 |-> next(g, i)]
    BY <2>3, Zenon
  <2> HIDE DEF g
  <2>5. IsAdding(g, rules, n + 1)
    BY <2>4, Zenon DEF IsAdding, next, start
  <2> QED
    BY <2>5
<1>3. Nat \subseteq S
  <2> HIDE DEF S
  <2> QED
    BY <1>1, <1>2, NumbersInduct
<1> QED
  BY <1>3

\* After all rules the router has what RouterIs says.
LEMMA AddedIs ==
  ASSUME NEW rules, Declared(rules)
  PROVE  /\ AddedOf(rules)[Len(rules)].ok \in BOOLEAN
         /\ RouterIs(AddedOf(rules)[Len(rules)], rules, Len(rules))
<1> DEFINE start == [ok |-> TRUE, tables |-> NoTables]
           f == AddedOf(rules)
           S == {n \in Nat : n <= Len(rules) => RouterIs(f[n], rules, n)}
<1>0. Len(rules) \in Nat
  BY DEF Declared
<1>1. IsAdding(f, rules, Len(rules))
  BY <1>0, AddingsExist, Zenon DEF AddedOf
<1>2. \A i \in 0 .. Len(rules) : f[i] = IF i = 0 THEN start ELSE AddRule(f[i - 1], rules[i])
  BY <1>1, Zenon DEF IsAdding
<1>3. start.ok = TRUE /\ start.tables = NoTables
  <2>1. \A b, t : [ok |-> b, tables |-> t].ok = b /\ [ok |-> b, tables |-> t].tables = t
    OBVIOUS
  <2> QED
    BY <2>1, Zenon
<1> HIDE DEF f, start
<1>4. 0 \in S
  <2>1. f[0] = start
    BY <1>0, <1>2
  <2>2. RouterIs(start, rules, 0)
    BY <1>3, NoTableIs DEF RouterIs
  <2> QED
    BY <2>1, <2>2
<1>5. ASSUME NEW n \in Nat, n \in S PROVE n + 1 \in S
  <2> SUFFICES ASSUME n + 1 <= Len(rules) PROVE RouterIs(f[n + 1], rules, n + 1)
    OBVIOUS
  <2>1. RouterIs(f[n], rules, n)
    BY <1>0, <1>5
  <2>2. n + 1 \in 0 .. Len(rules) /\ n + 1 # 0 /\ n + 1 - 1 = n
    BY <1>0
  <2>3. f[n + 1] = AddRule(f[n], rules[n + 1])
    BY <1>2, <2>2
  <2> QED
    BY <2>1, <2>3, AddRuleIs
<1>6. Nat \subseteq S
  <2> HIDE DEF S
  <2> QED
    BY <1>4, <1>5, NumbersInduct
<1>7. RouterIs(f[Len(rules)], rules, Len(rules))
  BY <1>0, <1>6
<1> QED
  BY <1>7 DEF f, RouterIs

\* The head of a tree is simple: it has one child at most, for a slash.
LEMMA HeadIsSimple ==
  ASSUME NEW trie, IsTree(trie)
  PROVE  IsSimpleNode(trie, 1)
<1>1. 1 \in DOMAIN trie /\ \A k \in trie[1].children : Labelled(trie[k], "/")
  BY TreeIs DEF IsTree
<1>2. NodeOf("/").param = "MAX"
  BY TraitsAre DEF NodeOf, Node
<1>3. \A k \in trie[1].children : trie[k].param = "MAX" /\ trie[k].key = NodeOf("/").key
  BY <1>1, <1>2 DEF Labelled
<1>4. \A k, l \in trie[1].children : k = l
  BY <1>1, <1>3 DEF IsTree
<1>5. Cardinality(trie[1].children) < 2
  <2>1. CASE trie[1].children = {}
    BY <2>1, FS_EmptySet
  <2>2. CASE trie[1].children # {}
    <3>1. PICK k : trie[1].children = {k}
      BY <1>4, <2>2
    <3>2. Cardinality(trie[1].children) = 1
      BY <3>1, FS_Singleton, Zenon
    <3> QED
      BY <3>2
  <2> QED
    BY <2>1, <2>2
<1> QED
  BY <1>3, <1>5 DEF IsSimpleNode, IsTree

\* What Validated makes of the rules: tables of them, optimized, or none if two are the same.
LEMMA ValidatedIs ==
  ASSUME NEW rules, Declared(rules)
  PROVE  LET v == Validated(rules)
         IN /\ v.ok \in BOOLEAN
            /\ v.ok => \A m \in Methods : \E table : /\ TableIs(table, rules, m, Len(rules))
                                                     /\ v.tables[m].rules = table.rules
                                                     /\ v.tables[m].trie = Optimize(table.trie)
            /\ ~v.ok => \E m \in Methods : SameTwice(rules, m)
<1> DEFINE r == AddedOf(rules)[Len(rules)]
           v == Validated(rules)
           simple == \A m \in Methods : IsSimpleNode(r.tables[m].trie, 1)
           new == [m \in Methods |-> [r.tables[m] EXCEPT !.trie = Optimize(@)]]
<1>1. v = [ok |-> r.ok /\ simple, tables |-> new]
  BY Zenon DEF Validated, AddedOf, IsAdding
<1>2. RouterIs(r, rules, Len(rules))
  BY AddedIs
<1> HIDE DEF r
<1>3. v.ok = (r.ok /\ simple) /\ v.tables = new
  <2>1. \A b, t : [ok |-> b, tables |-> t].ok = b /\ [ok |-> b, tables |-> t].tables = t
    OBVIOUS
  <2> HIDE DEF simple, new, v
  <2> QED
    BY <1>1, <2>1, Zenon
<1> HIDE DEF v
<1>4. r.ok => simple
  <2> SUFFICES ASSUME r.ok, NEW m \in Methods PROVE IsSimpleNode(r.tables[m].trie, 1)
    OBVIOUS
  <2>1. IsTree(r.tables[m].trie)
    BY <1>2 DEF RouterIs, TableIs
  <2> QED
    BY <2>1, HeadIsSimple
<1> HIDE DEF simple
<1>5. v.ok = r.ok /\ v.ok \in BOOLEAN
  BY <1>2, <1>3, <1>4 DEF RouterIs
<1>6. ASSUME v.ok, NEW m \in Methods
      PROVE  /\ TableIs(r.tables[m], rules, m, Len(rules))
             /\ v.tables[m].rules = r.tables[m].rules /\ v.tables[m].trie = Optimize(r.tables[m].trie)
  <2>1. TableIs(r.tables[m], rules, m, Len(rules))
    BY <1>2, <1>5, <1>6 DEF RouterIs
  <2>2. r.tables[m] = [rules |-> r.tables[m].rules, trie |-> r.tables[m].trie]
    BY <2>1 DEF TableIs
  <2>3. v.tables[m] = [r.tables[m] EXCEPT !.trie = Optimize(@)]
    BY <1>3
  <2> QED
    BY <2>1, <2>2, <2>3
<1> QED
  BY <1>2, <1>5, <1>6 DEF v, RouterIs

-----------------------------------------------------------------------------
(* What optimizing leaves. *)

Merge(f, trie, i) ==
  IF trie[i].children # {} /\ IsSimpleNode(trie, i)
  THEN [f[CHOOSE k \in trie[i].children : TRUE] EXCEPT !.key = trie[i].key \o @]
  ELSE trie[i]

MergedOf(trie) == CHOOSE optimized : optimized = [i \in DOMAIN trie |-> Merge(optimized, trie, i)]

\* Nodes are merged with those behind them: the recursion of Optimize has a solution.
LEMMA MergedExist ==
  ASSUME NEW trie, IsTree(trie)
  PROVE  \A d \in Nat : d <= Len(trie) => \E f : f = [i \in Len(trie) + 1 - d .. Len(trie) |-> Merge(f, trie, i)]
<1> DEFINE N == Len(trie)
           S == {d \in Nat : d <= N => \E f : f = [i \in N + 1 - d .. N |-> Merge(f, trie, i)]}
<1>0. N \in Nat /\ DOMAIN trie = 1 .. N
  BY TreeIs
<1> HIDE DEF N
<1>1. 0 \in S
  <2> DEFINE none == [i \in N + 1 - 0 .. N |-> 0]
  <2>1. none = [i \in N + 1 - 0 .. N |-> Merge(none, trie, i)]
    <3>1. \A i \in N + 1 - 0 .. N : FALSE
      BY <1>0
    <3> QED
      BY <3>1
  <2> HIDE DEF none
  <2> QED
    BY <2>1
<1>2. ASSUME NEW d \in Nat, d \in S PROVE d + 1 \in S
  <2> SUFFICES ASSUME d + 1 <= N PROVE \E f : f = [i \in N + 1 - (d + 1) .. N |-> Merge(f, trie, i)]
    OBVIOUS
  <2>1. PICK f : f = [i \in N + 1 - d .. N |-> Merge(f, trie, i)]
    BY <1>0, <1>2
  <2> DEFINE low == N - d
             g == [i \in low .. N |-> IF i = low THEN Merge(f, trie, i) ELSE f[i]]
  <2>2. low \in 1 .. N /\ N + 1 - (d + 1) = low /\ N + 1 - d = low + 1
    BY <1>0
  <2>3. \A i \in low + 1 .. N : f[i] = Merge(f, trie, i) /\ g[i] = f[i]
    <3>1. \A i \in N + 1 - d .. N : f[i] = Merge(f, trie, i)
      BY <2>1, Zenon
    <3>2. \A i \in low + 1 .. N : i # low /\ i \in low .. N
      BY <1>0, <2>2
    <3> QED
      BY <2>2, <3>1, <3>2
  <2>4. g[low] = Merge(f, trie, low)
    BY <1>0, <2>2
  <2> HIDE DEF g, low
  <2>5. \A i \in low .. N : Merge(f, trie, i) = Merge(g, trie, i)
    <3> SUFFICES ASSUME NEW i \in low .. N, trie[i].children # {} PROVE Merge(f, trie, i) = Merge(g, trie, i)
      BY DEF Merge
    <3> DEFINE k == CHOOSE l \in trie[i].children : TRUE
    <3>1. k \in trie[i].children
      OBVIOUS
    <3>2. i \in DOMAIN trie
      BY <1>0, <2>2
    <3>3. k \in DOMAIN trie /\ i < k
      BY <3>1, <3>2, TreeIs
    <3>4. k \in low + 1 .. N
      BY <1>0, <2>2, <3>3
    <3>5. f[k] = g[k]
      BY <2>3, <3>4
    <3> QED
      BY <3>5, Zenon DEF Merge
  <2>6. \A i \in low .. N : g[i] = Merge(g, trie, i)
    <3> SUFFICES ASSUME NEW i \in low .. N PROVE g[i] = Merge(f, trie, i)
      BY <2>5
    <3>1. CASE i = low
      BY <2>4, <3>1
    <3>2. CASE i # low
      <4>1. i \in low + 1 .. N
        BY <1>0, <2>2, <3>2
      <4> QED
        BY <2>3, <4>1
    <3> QED
      BY <3>1, <3>2
  <2>7. g = [i \in low .. N |-> Merge(g, trie, i)]
    <3>1. g = [i \in low .. N |-> IF i = low THEN Merge(f, trie, i) ELSE f[i]]
      BY DEF g
    <3> QED
      BY <2>6, <3>1
  <2> QED
    BY <2>2, <2>7
<1>3. Nat \subseteq S
  <2> HIDE DEF S
  <2> QED
    BY <1>1, <1>2, NumbersInduct
<1> QED
  BY <1>3 DEF N

\* Optimizing a trie merges every node but the root, as Merge does.
LEMMA MergedOfIs ==
  ASSUME NEW trie, IsTree(trie)
  PROVE  /\ Optimize(trie) = [i \in DOMAIN trie |-> IF i = 1 THEN trie[1] ELSE MergedOf(trie)[i]]
         /\ \A i \in DOMAIN trie : MergedOf(trie)[i] = Merge(MergedOf(trie), trie, i)
<1>1. Len(trie) \in Nat /\ DOMAIN trie = 1 .. Len(trie)
  BY TreeIs
<1>2. Len(trie) + 1 - Len(trie) = 1 /\ Len(trie) <= Len(trie)
  BY <1>1
<1>3. \E f : f = [i \in DOMAIN trie |-> Merge(f, trie, i)]
  BY <1>1, <1>2, MergedExist
<1>4. MergedOf(trie) = [i \in DOMAIN trie |-> Merge(MergedOf(trie), trie, i)]
  BY <1>3, Zenon DEF MergedOf
<1>5. Optimize(trie) = [i \in DOMAIN trie |-> IF i = 1 THEN trie[1] ELSE MergedOf(trie)[i]]
  BY Zenon DEF Optimize, MergedOf, Merge
<1> QED
  BY <1>4, <1>5, Zenon

\* What a node becomes: the node at the end of a word of literal symbols, which all
\* entries that lead to the node go on with.
Merged(trie, res, E, i, x, end, w) ==
  /\ end \in DOMAIN trie /\ w \in Seq(Symbols)
  /\ x = [rule |-> trie[end].rule, key |-> trie[i].key \o w, param |-> trie[i].param, children |-> trie[end].children]
  /\ w # <<>> => trie[i].param = "MAX"
  /\ \A q \in 1 .. Len(w) : w[q] \notin DOMAIN ParamTraits
  /\ \A e \in E : \A l \in 0 .. Len(e.url) : <<e, l>> \in res[i] =>
       /\ Len(w) <= l /\ <<e, l - Len(w)>> \in res[end]
       /\ \A q \in 1 .. Len(w) : e.url[Len(e.url) - l + q] = w[q]
  /\ \A e \in E : \A j \in 0 .. Len(e.url) : <<e, j>> \in res[end] =>
       j + Len(w) <= Len(e.url) /\ <<e, j + Len(w)>> \in res[i]

\* A node that stays is at its own end.
LEMMA KeptIs ==
  ASSUME NEW trie, IsTree(trie), NEW res, NEW E, Holds(trie, res, E), NEW i \in DOMAIN trie
  PROVE  Merged(trie, res, E, i, trie[i], i, <<>>)
<1> DEFINE x == trie[i]
           none == <<>>
<1>1. x \in Nodes
  BY TreeIs
<1>2. x = [rule |-> x.rule, key |-> x.key \o none, param |-> x.param, children |-> x.children]
  <2>1. x = [rule |-> x.rule, key |-> x.key, param |-> x.param, children |-> x.children] /\ x.key \in Seq(Symbols)
    BY <1>1 DEF Nodes
  <2>2. x.key \o none = x.key
    BY <2>1
  <2> HIDE DEF x, none
  <2> QED
    BY <2>1, <2>2
<1>3. none \in Seq(Symbols) /\ Len(none) = 0
  OBVIOUS
<1>4. \A e \in E : Len(e.url) \in Nat
  BY DEF Holds, IsEntry
<1> HIDE DEF none
<1>5. \A e \in E : \A l \in 0 .. Len(e.url) : l - Len(none) = l /\ l + Len(none) = l /\ l <= Len(e.url) /\ Len(none) <= l
  BY <1>3, <1>4
<1>6. \A q \in 1 .. Len(none) : FALSE
  BY <1>3
<1>7. none = <<>>
  BY DEF none
<1> HIDE DEF x
<1>8. Merged(trie, res, E, i, x, i, none)
  <2>1. \A e \in E : \A l \in 0 .. Len(e.url) : <<e, l>> \in res[i] =>
           /\ Len(none) <= l /\ <<e, l - Len(none)>> \in res[i]
           /\ \A q \in 1 .. Len(none) : e.url[Len(e.url) - l + q] = none[q]
    <3> SUFFICES ASSUME NEW e \in E, NEW l \in 0 .. Len(e.url), <<e, l>> \in res[i]
                 PROVE  /\ Len(none) <= l /\ <<e, l - Len(none)>> \in res[i]
                        /\ \A q \in 1 .. Len(none) : e.url[Len(e.url) - l + q] = none[q]
      OBVIOUS
    <3>1. l - Len(none) = l /\ Len(none) <= l
      BY <1>5
    <3> QED
      BY <1>6, <3>1
  <2>2. \A e \in E : \A j \in 0 .. Len(e.url) : <<e, j>> \in res[i] =>
           j + Len(none) <= Len(e.url) /\ <<e, j + Len(none)>> \in res[i]
    <3> SUFFICES ASSUME NEW e \in E, NEW j \in 0 .. Len(e.url), <<e, j>> \in res[i]
                 PROVE  j + Len(none) <= Len(e.url) /\ <<e, j + Len(none)>> \in res[i]
      OBVIOUS
    <3>1. j + Len(none) = j /\ j <= Len(e.url)
      BY <1>5
    <3> QED
      BY <3>1
  <2>3. x = [rule |-> trie[i].rule, key |-> trie[i].key \o none, param |-> trie[i].param, children |-> trie[i].children]
    BY <1>2, Zenon DEF x
  <2> QED
    BY <1>3, <1>6, <1>7, <2>1, <2>2, <2>3, Zenon DEF Merged
<1> QED
  BY <1>7, <1>8 DEF x

\* A node with an only child becomes what the child becomes, with both keys.
LEMMA MergesOn ==
  ASSUME NEW trie, IsTree(trie), NEW res, NEW E, Holds(trie, res, E), NEW i \in DOMAIN trie,
         IsSimpleNode(trie, i), NEW k, trie[i].children = {k},
         NEW x, NEW end, NEW w, Merged(trie, res, E, k, x, end, w)
  PROVE  Merged(trie, res, E, i, [x EXCEPT !.key = trie[i].key \o @], end, trie[k].key \o w)
<1> DEFINE word == trie[k].key \o w
           next == [x EXCEPT !.key = trie[i].key \o @]
<1>1. trie[i].param = "MAX" /\ trie[k].param = "MAX" /\ trie[i].rule = 0 /\ k \in trie[i].children
  BY DEF IsSimpleNode
<1>2. k \in DOMAIN trie /\ trie[i] \in Nodes /\ trie[k] \in Nodes
  BY <1>1, TreeIs
<1>3. PICK c \in Symbols : Labelled(trie[k], c)
  BY <1>1 DEF IsTree
<1>4. c \notin DOMAIN ParamTraits /\ trie[k].key = <<c>>
  BY <1>1, <1>3, NodeOfIs DEF Labelled
<1>5. w \in Seq(Symbols) /\ trie[i].key \in Seq(Symbols) /\ trie[k].key \in Seq(Symbols) /\ end \in DOMAIN trie
  BY <1>2 DEF Merged, Nodes
<1>6. /\ word \in Seq(Symbols) /\ Len(word) = Len(w) + 1 /\ word # <<>> /\ word[1] = c
      /\ \A q \in 1 .. Len(w) : word[q + 1] = w[q]
      /\ \A q \in 1 .. Len(word) : q = 1 \/ (q - 1 \in 1 .. Len(w) /\ word[q] = w[q - 1])
  <2>1. word = <<c>> \o w /\ Len(w) \in Nat
    BY <1>4, <1>5
  <2> QED
    BY <1>5, <2>1
<1>7. next = [rule |-> trie[end].rule, key |-> trie[i].key \o word, param |-> trie[i].param, children |-> trie[end].children]
  <2>1. x = [rule |-> trie[end].rule, key |-> trie[k].key \o w, param |-> trie[k].param, children |-> trie[end].children]
    BY DEF Merged
  <2> HIDE DEF word
  <2>2. x = [rule |-> trie[end].rule, key |-> word, param |-> trie[i].param, children |-> trie[end].children]
    BY <1>1, <2>1 DEF word
  <2>3. \A a, b, d, y, z : [[rule |-> a, key |-> b, param |-> d, children |-> y] EXCEPT !.key = z]
                            = [rule |-> a, key |-> z, param |-> d, children |-> y]
    OBVIOUS
  <2>4. x.key = word
    BY <2>2
  <2>5. next = [x EXCEPT !.key = trie[i].key \o word]
    BY <2>4, Zenon DEF next
  <2> DEFINE both == trie[i].key \o word
  <2> HIDE DEF next, both
  <2>6. next = [x EXCEPT !.key = both]
    BY <2>5 DEF both
  <2>7. next = [rule |-> trie[end].rule, key |-> both, param |-> trie[i].param, children |-> trie[end].children]
    BY <2>2, <2>3, <2>6
  <2> QED
    BY <2>7 DEF both
<1> HIDE DEF word, next
<1>8. \A q \in 1 .. Len(word) : word[q] \notin DOMAIN ParamTraits
  <2>1. \A q \in 1 .. Len(w) : w[q] \notin DOMAIN ParamTraits
    BY DEF Merged
  <2> SUFFICES ASSUME NEW q \in 1 .. Len(word) PROVE word[q] \notin DOMAIN ParamTraits
    OBVIOUS
  <2> QED
    BY <1>4, <1>6, <2>1
<1>9. ASSUME NEW e \in E, NEW l \in 0 .. Len(e.url), <<e, l>> \in res[i]
      PROVE  /\ Len(word) <= l /\ <<e, l - Len(word)>> \in res[end]
             /\ \A q \in 1 .. Len(word) : e.url[Len(e.url) - l + q] = word[q]
  <2>0. e.url \in Seq(Symbols) /\ Len(e.url) \in Nat /\ e.rule # 0 /\ Len(w) \in Nat
    BY <1>5 DEF Holds, IsEntry
  <2>1. l # 0
    BY <1>1, <1>9, <2>0 DEF Holds
  <2>2. l \in 1 .. Len(e.url) /\ l - 1 \in 0 .. Len(e.url)
    BY <2>0, <2>1
  <2>3. <<e, l - 1>> \in res[k] /\ Labelled(trie[k], e.url[Len(e.url) - l + 1])
    BY <1>9, <2>2 DEF Holds
  <2>4. e.url[Len(e.url) - l + 1] = c
    <3> DEFINE s == e.url[Len(e.url) - l + 1]
    <3>1. s \in Symbols
      BY <2>0, <2>2
    <3>2. NodeOf(s).param = "MAX" /\ NodeOf(s).key = <<c>>
      BY <1>1, <1>4, <2>3 DEF Labelled
    <3> HIDE DEF s
    <3>3. <<s>> = <<c>>
      BY <3>1, <3>2, NodeOfIs
    <3>4. s = c
      BY <3>3
    <3> QED
      BY <3>4 DEF s
  <2>5. /\ Len(w) <= l - 1 /\ <<e, l - 1 - Len(w)>> \in res[end]
        /\ \A q \in 1 .. Len(w) : e.url[Len(e.url) - (l - 1) + q] = w[q]
    BY <2>2, <2>3 DEF Merged
  <2>6. l - 1 - Len(w) = l - Len(word) /\ Len(word) <= l
    BY <1>6, <2>0, <2>2, <2>5
  <2>7. ASSUME NEW q \in 1 .. Len(word) PROVE e.url[Len(e.url) - l + q] = word[q]
    <3>1. CASE q = 1
      BY <1>6, <2>4, <3>1
    <3>2. CASE q # 1
      <4>1. q - 1 \in 1 .. Len(w) /\ word[q] = w[q - 1]
        BY <1>6, <3>2
      <4>2. Len(e.url) - (l - 1) + (q - 1) = Len(e.url) - l + q
        BY <2>0, <4>1
      <4> QED
        BY <2>5, <4>1, <4>2
    <3> QED
      BY <3>1, <3>2
  <2> QED
    BY <2>5, <2>6, <2>7
<1>10. ASSUME NEW e \in E, NEW j \in 0 .. Len(e.url), <<e, j>> \in res[end]
       PROVE  j + Len(word) <= Len(e.url) /\ <<e, j + Len(word)>> \in res[i]
  <2>0. Len(e.url) \in Nat /\ Len(w) \in Nat
    BY <1>5 DEF Holds, IsEntry
  <2>1. j + Len(w) <= Len(e.url) /\ <<e, j + Len(w)>> \in res[k]
    BY <1>10 DEF Merged
  <2>2. j + Len(w) \in 0 .. Len(e.url)
    BY <2>0, <2>1
  <2>3. j + Len(w) < Len(e.url) /\ <<e, j + Len(w) + 1>> \in res[i]
    BY <1>1, <2>1, <2>2 DEF Holds
  <2>4. j + Len(w) + 1 = j + Len(word)
    BY <1>6, <2>0
  <2> QED
    BY <2>0, <2>2, <2>3, <2>4
<1>11. Merged(trie, res, E, i, next, end, word)
  BY <1>1, <1>5, <1>6, <1>7, <1>8, <1>9, <1>10 DEF Merged
<1> QED
  BY <1>11 DEF word, next

\* Every node becomes one that Merged describes.
LEMMA MergedIs ==
  ASSUME NEW trie, IsTree(trie), NEW res, NEW E, Holds(trie, res, E)
  PROVE  \A i \in DOMAIN trie : \E end, w : Merged(trie, res, E, i, MergedOf(trie)[i], end, w)
<1> DEFINE N == Len(trie)
           S == {d \in Nat : \A i \in DOMAIN trie : i + d > N => \E end, w : Merged(trie, res, E, i, MergedOf(trie)[i], end, w)}
<1>0. N \in Nat /\ DOMAIN trie = 1 .. N
  BY TreeIs
<1> HIDE DEF N
<1>1. 0 \in S
  BY <1>0
<1>2. ASSUME NEW d \in Nat, d \in S PROVE d + 1 \in S
  <2> SUFFICES ASSUME NEW i \in DOMAIN trie, i + (d + 1) > N
               PROVE  \E end, w : Merged(trie, res, E, i, MergedOf(trie)[i], end, w)
    OBVIOUS
  <2>1. MergedOf(trie)[i] = Merge(MergedOf(trie), trie, i)
    BY MergedOfIs
  <2>2. CASE trie[i].children # {} /\ IsSimpleNode(trie, i)
    <3> DEFINE k == CHOOSE l \in trie[i].children : TRUE
    <3>1. k \in trie[i].children
      BY <2>2
    <3>2. k \in DOMAIN trie /\ i < k
      BY <3>1, TreeIs
    <3>3. MergedOf(trie)[i] = [MergedOf(trie)[k] EXCEPT !.key = trie[i].key \o @]
      BY <2>1, <2>2, Zenon DEF Merge
    <3> HIDE DEF k
    <3>4. trie[i].children = {k}
      <4>1. \A l \in trie[i].children : l = k
        <5> SUFFICES ASSUME NEW l \in trie[i].children, l # k PROVE FALSE
          OBVIOUS
        <5>1. {k, l} \subseteq trie[i].children /\ trie[i].children \subseteq 1 .. N
          BY <1>0, <3>1, TreeIs
        <5>2. IsFiniteSet(trie[i].children)
          <6>1. IsFiniteSet(1 .. N)
            BY <1>0, FS_Interval
          <6> QED
            BY <5>1, <6>1, FS_Subset
        <5>3. Cardinality({k, l}) <= Cardinality(trie[i].children)
          BY <5>1, <5>2, FS_Subset
        <5>4. Cardinality({k, l}) = 2
          <6>1. {k, l} = {k} \cup {l} /\ l \notin {k}
            OBVIOUS
          <6>2. IsFiniteSet({k}) /\ Cardinality({k}) = 1
            BY FS_Singleton
          <6>3. Cardinality({k} \cup {l}) = Cardinality({k}) + 1
            BY <6>1, <6>2, FS_AddElement
          <6> QED
            BY <6>1, <6>2, <6>3
        <5>5. Cardinality(trie[i].children) < 2 /\ Cardinality(trie[i].children) \in Nat
          BY <2>2, <5>2, FS_CardinalityType DEF IsSimpleNode
        <5> QED
          BY <5>3, <5>4, <5>5
      <4> QED
        BY <3>1, <4>1
    <3>5. k + d > N
      BY <1>0, <3>2
    <3>6. PICK end, w : Merged(trie, res, E, k, MergedOf(trie)[k], end, w)
      BY <1>2, <3>2, <3>5
    <3>7. Merged(trie, res, E, i, [MergedOf(trie)[k] EXCEPT !.key = trie[i].key \o @], end, trie[k].key \o w)
      BY <2>2, <3>4, <3>6, MergesOn
    <3> QED
      BY <3>3, <3>7, Zenon
  <2>3. CASE ~(trie[i].children # {} /\ IsSimpleNode(trie, i))
    <3>1. MergedOf(trie)[i] = trie[i]
      BY <2>1, <2>3 DEF Merge
    <3> QED
      BY <3>1, KeptIs, Zenon
  <2> QED
    BY <2>2, <2>3
<1>3. Nat \subseteq S
  <2> HIDE DEF S
  <2> QED
    BY <1>1, <1>2, NumbersInduct
<1>4. \A i \in DOMAIN trie : i + N > N
  BY <1>0
<1> QED
  BY <1>0, <1>3, <1>4

\* A merged node leads along the symbol of the node and the word behind it.
LEMMA MergedLeads ==
  ASSUME NEW x, NEW url \in Seq(Symbols), NEW l \in 1 .. Len(url), Labelled(x, url[Len(url) - l + 1]),
         NEW w \in Seq(Symbols), Len(w) <= l - 1, w # <<>> => x.param = "MAX",
         \A q \in 1 .. Len(w) : w[q] \notin DOMAIN ParamTraits /\ url[Len(url) - (l - 1) + q] = w[q],
         NEW y, y.key = x.key \o w, y.param = x.param
  PROVE  Leads(y, url, l, l - 1 - Len(w))
<1> DEFINE c == url[Len(url) - l + 1]
<1>0. Len(url) \in Nat /\ Len(w) \in Nat
  OBVIOUS
<1>1. c \in Symbols
  BY <1>0
<1>2. Labelled(x, c)
  OBVIOUS
<1> HIDE DEF c
<1>3. CASE y.param = "MAX"
  <2>1. c \notin DOMAIN ParamTraits /\ x.key = <<c>>
    BY <1>1, <1>2, <1>3, NodeOfIs DEF Labelled
  <2>2. y.key = <<c>> \o w
    BY <2>1
  <2>3. /\ y.key # <<>> /\ Len(y.key) = Len(w) + 1 /\ y.key[1] = c
        /\ \A q \in 1 .. Len(y.key) : q = 1 \/ (q - 1 \in 1 .. Len(w) /\ y.key[q] = w[q - 1])
    BY <1>1, <2>2
  <2>4. l = l - 1 - Len(w) + Len(y.key)
    BY <1>0, <2>3
  <2>5. ASSUME NEW q \in 1 .. Len(y.key)
        PROVE  url[Len(url) - l + q] = y.key[q] /\ y.key[q] \notin DOMAIN ParamTraits
    <3>1. CASE q = 1
      BY <2>1, <2>3, <3>1 DEF c
    <3>2. CASE q # 1
      <4>1. q - 1 \in 1 .. Len(w) /\ y.key[q] = w[q - 1]
        BY <2>3, <3>2
      <4>2. Len(url) - (l - 1) + (q - 1) = Len(url) - l + q
        BY <1>0, <4>1
      <4> QED
        BY <4>1, <4>2
    <3> QED
      BY <3>1, <3>2
  <2> QED
    BY <1>3, <2>3, <2>4, <2>5 DEF Leads
<1>4. CASE y.param # "MAX"
  <2>1. w = <<>> /\ Len(w) = 0
    BY <1>4
  <2>2. c \in DOMAIN ParamTraits /\ x.param = ParamTraits[c]
    BY <1>1, <1>2, <1>4, NodeOfIs DEF Labelled
  <2>3. l = l - 1 - Len(w) + 1
    BY <2>1
  <2> QED
    BY <1>4, <2>2, <2>3 DEF Leads, c
<1> QED
  BY <1>3, <1>4

\* Optimizing keeps what a trie says of its entries.
LEMMA OptimizeIs ==
  ASSUME NEW trie, IsTree(trie), NEW res, NEW E, Holds(trie, res, E)
  PROVE  \E r : Speaks(Optimize(trie), r, E)
<1> DEFINE opt == Optimize(trie)
           Described(i, p) == Merged(trie, res, E, i, MergedOf(trie)[i], p[1], p[2])
           place(i) == CHOOSE p : Described(i, p)
           end(i) == IF i = 1 THEN 1 ELSE place(i)[1]
           word(i) == IF i = 1 THEN <<>> ELSE place(i)[2]
           r == [i \in DOMAIN trie |-> res[end(i)]]
<1>0. /\ Len(trie) \in Nat /\ DOMAIN trie = 1 .. Len(trie) /\ 1 \in DOMAIN trie
      /\ \A i \in DOMAIN trie : trie[i] \in Nodes
      /\ \A i \in DOMAIN trie : \A k \in trie[i].children : k \in DOMAIN trie /\ k # 1
  BY TreeIs
<1>1. opt = [i \in DOMAIN trie |-> IF i = 1 THEN trie[1] ELSE MergedOf(trie)[i]]
  BY MergedOfIs
<1>2. ASSUME NEW i \in DOMAIN trie PROVE Merged(trie, res, E, i, opt[i], end(i), word(i))
  <2>1. CASE i = 1
    <3>1. opt[i] = trie[i] /\ end(i) = i /\ word(i) = <<>>
      BY <1>1, <2>1
    <3> QED
      BY <3>1, KeptIs
  <2>2. CASE i # 1
    <3>1. PICK n, w : Merged(trie, res, E, i, MergedOf(trie)[i], n, w)
      BY MergedIs
    <3>2. <<n, w>>[1] = n /\ <<n, w>>[2] = w
      OBVIOUS
    <3>3. Described(i, <<n, w>>)
      BY <3>1, <3>2, Zenon
    <3>4. Described(i, place(i))
      <4> HIDE DEF Described
      <4> QED
        BY <3>3
    <3>5. opt[i] = MergedOf(trie)[i] /\ end(i) = place(i)[1] /\ word(i) = place(i)[2]
      <4> HIDE DEF place
      <4> QED
        BY <1>1, <2>2
    <3> HIDE DEF opt, end, word, place
    <3> QED
      BY <3>4, <3>5
  <2> QED
    BY <2>1, <2>2
<1>3. DOMAIN opt = DOMAIN trie /\ opt[1] = trie[1] /\ r[1] = res[1] /\ \A i \in DOMAIN trie : r[i] = res[end(i)]
  BY <1>0, <1>1
<1>4. \E X : opt = [i \in DOMAIN trie |-> X[i]]
  BY <1>1
<1> HIDE DEF opt, end, word, r
<1>5. ASSUME NEW i \in DOMAIN trie
      PROVE  /\ opt[i] \in Nodes /\ end(i) \in DOMAIN trie /\ word(i) \in Seq(Symbols)
             /\ opt[i].rule = trie[end(i)].rule /\ opt[i].key = trie[i].key \o word(i)
             /\ opt[i].param = trie[i].param /\ opt[i].children = trie[end(i)].children
  <2>1. /\ end(i) \in DOMAIN trie /\ word(i) \in Seq(Symbols)
        /\ opt[i] = [rule |-> trie[end(i)].rule, key |-> trie[i].key \o word(i), param |-> trie[i].param,
                     children |-> trie[end(i)].children]
    BY <1>2 DEF Merged
  <2>2. trie[i] \in Nodes /\ trie[end(i)] \in Nodes
    BY <1>0, <2>1
  <2>3. trie[i].key \o word(i) \in Seq(Symbols)
    BY <2>1, <2>2 DEF Nodes
  <2> QED
    BY <2>1, <2>2, <2>3 DEF Nodes
<1>6. IsTrie(opt)
  <2>1. opt \in Seq(Nodes)
    <3>1. \A i \in 1 .. Len(trie) : opt[i] \in Nodes
      BY <1>0, <1>5
    <3>2. opt \in [1 .. Len(trie) -> Nodes]
      BY <1>0, <1>4, <3>1
    <3> QED
      BY <1>0, <3>2
  <2>2. opt # <<>>
    BY <1>0, <1>3
  <2> QED
    BY <1>0, <1>3, <1>5, <2>1, <2>2 DEF IsTrie
<1>7. \A e \in E : IsEntry(e) /\ e.url \in Seq(Symbols) /\ Len(e.url) \in Nat
  BY DEF Holds, IsEntry
<1>8. \A e \in E : \A j \in 0 .. Len(e.url) : <<e, j>> \in r[1] <=> j = Len(e.url)
  BY <1>3 DEF Holds
<1>9. \A i \in DOMAIN trie : opt[i].rule # 0 => \E e \in E : <<e, 0>> \in r[i]
  BY <1>3, <1>5 DEF Holds
<1>10. \A i \in DOMAIN trie, e \in E : <<e, 0>> \in r[i] => e.rule = opt[i].rule
  BY <1>3, <1>5 DEF Holds
\* What leads to a node's end from the one before it, along the node's own symbol and its word.
<1>11. ASSUME NEW i \in DOMAIN trie, NEW k \in opt[i].children, NEW e \in E, NEW l \in 1 .. Len(e.url),
              <<e, l - 1>> \in res[k], Labelled(trie[k], e.url[Len(e.url) - l + 1])
       PROVE  /\ l - 1 - Len(word(k)) \in 0 .. Len(e.url) /\ <<e, l - 1 - Len(word(k))>> \in r[k]
              /\ Leads(opt[k], e.url, l, l - 1 - Len(word(k)))
  <2>0. k \in DOMAIN trie
    BY <1>0, <1>5
  <2>1. l - 1 \in 0 .. Len(e.url) /\ Len(word(k)) \in Nat
    BY <1>5, <1>7, <2>0
  <2>2. /\ Len(word(k)) <= l - 1 /\ <<e, l - 1 - Len(word(k))>> \in res[end(k)]
        /\ \A q \in 1 .. Len(word(k)) : e.url[Len(e.url) - (l - 1) + q] = word(k)[q]
    BY <1>2, <1>11, <2>0, <2>1 DEF Merged
  <2>3. /\ word(k) # <<>> => trie[k].param = "MAX"
        /\ \A q \in 1 .. Len(word(k)) : word(k)[q] \notin DOMAIN ParamTraits
    BY <1>2, <2>0 DEF Merged
  <2>4. opt[k].key = trie[k].key \o word(k) /\ opt[k].param = trie[k].param /\ word(k) \in Seq(Symbols)
    BY <1>5, <2>0
  <2>5. Leads(opt[k], e.url, l, l - 1 - Len(word(k)))
    BY <1>7, <1>11, <2>2, <2>3, <2>4, MergedLeads
  <2> QED
    BY <1>3, <1>7, <2>0, <2>1, <2>2, <2>5
<1>12. ASSUME NEW i \in DOMAIN trie, NEW e \in E, NEW l \in 1 .. Len(e.url), <<e, l>> \in r[i]
       PROVE  \E k \in opt[i].children, j \in 0 .. Len(e.url) : <<e, j>> \in r[k] /\ Leads(opt[k], e.url, l, j)
  <2>1. <<e, l>> \in res[end(i)] /\ end(i) \in DOMAIN trie /\ opt[i].children = trie[end(i)].children
    BY <1>3, <1>5, <1>12
  <2>2. PICK k \in trie[end(i)].children : <<e, l - 1>> \in res[k] /\ Labelled(trie[k], e.url[Len(e.url) - l + 1])
    BY <2>1 DEF Holds
  <2> QED
    BY <1>11, <2>1, <2>2
<1>13. ASSUME NEW i \in DOMAIN trie, NEW k \in opt[i].children, NEW e \in E, NEW j \in 0 .. Len(e.url), <<e, j>> \in r[k]
       PROVE  \E l \in 0 .. Len(e.url) : <<e, l>> \in r[i] /\ Leads(opt[k], e.url, l, j)
  <2>0. k \in DOMAIN trie /\ end(i) \in DOMAIN trie /\ k \in trie[end(i)].children
    BY <1>0, <1>5
  <2>1. <<e, j>> \in res[end(k)] /\ Len(word(k)) \in Nat
    <3>1. r[k] = res[end(k)]
      BY <1>3, <2>0
    <3>2. word(k) \in Seq(Symbols)
      BY <1>5, <2>0
    <3> QED
      BY <1>13, <3>1, <3>2
  <2>2. j + Len(word(k)) <= Len(e.url) /\ <<e, j + Len(word(k))>> \in res[k]
    BY <1>2, <2>0, <2>1 DEF Merged
  <2> DEFINE before == j + Len(word(k))
             l == before + 1
  <2>3. before \in 0 .. Len(e.url) /\ l - 1 = before /\ j = l - 1 - Len(word(k)) /\ Len(e.url) - before = Len(e.url) - l + 1
    BY <1>7, <2>1, <2>2
  <2>4. <<e, before>> \in res[k]
    BY <2>2
  <2> HIDE DEF before
  <2>5. before < Len(e.url) /\ <<e, l>> \in res[end(i)] /\ Labelled(trie[k], e.url[Len(e.url) - before])
    BY <2>0, <2>3, <2>4 DEF Holds
  <2>6. l \in 1 .. Len(e.url) /\ l \in 0 .. Len(e.url)
    BY <1>7, <2>3, <2>5
  <2>7. <<e, l - 1>> \in res[k] /\ Labelled(trie[k], e.url[Len(e.url) - l + 1])
    BY <2>3, <2>4, <2>5
  <2> HIDE DEF l
  <2>8. Leads(opt[k], e.url, l, j)
    BY <1>11, <2>3, <2>6, <2>7
  <2>9. <<e, l>> \in r[i]
    BY <1>3, <2>5 DEF l
  <2> QED
    BY <2>6, <2>8, <2>9
<1>14. Speaks(opt, r, E)
  BY <1>3, <1>6, <1>7, <1>8, <1>9, <1>10, <1>12, <1>13 DEF Speaks
<1> QED
  BY <1>14 DEF opt

-----------------------------------------------------------------------------
(* What a target finds. *)

\* The rules that are for a method and fit a target, and the first of them.
Fitting(method, url) == {i \in DOMAIN app.rules : method \in app.rules[i].methods /\ Fits(app.rules[i].url, url)}

\* FirstRule is the lowest of the rules that fit, and 0 if none does.
LEMMA FirstRuleIs ==
  ASSUME Declared(app.rules), NEW m, NEW url
  PROVE  /\ Fitting(m, url) = {} => FirstRule(m, url) = 0
         /\ Fitting(m, url) # {} => /\ FirstRule(m, url) \in Fitting(m, url) /\ FirstRule(m, url) \in Nat \ {0}
                                    /\ \A i \in Fitting(m, url) : FirstRule(m, url) <= i
<1> DEFINE S == Fitting(m, url)
           T == {i \in 1 .. Len(app.rules) : m \in app.rules[i].methods /\ Fits(app.rules[i].url, url)}
<1>1. DOMAIN app.rules = 1 .. Len(app.rules) /\ Len(app.rules) \in Nat
  BY DEF Declared
<1>2. S \subseteq Nat \ {0}
  BY <1>1 DEF Fitting
<1>3. S = T
  BY <1>1, Zenon DEF Fitting
<1>4. FirstRule(m, url) = IF T # {} THEN Min(T) ELSE 0
  BY Zenon DEF FirstRule, SelectInSeq
<1> HIDE DEF S, T
<1>5. CASE S # {}
  <2>1. \E x \in S : \A y \in S : x <= y
    BY <1>2, <1>5, LeastIs
  <2>2. Min(S) \in S /\ \A y \in S : Min(S) <= y
    BY <2>1 DEF Min
  <2>3. FirstRule(m, url) = Min(S)
    BY <1>3, <1>4, <1>5
  <2> QED
    BY <1>2, <1>5, <2>2, <2>3 DEF S
<1>6. CASE S = {}
  BY <1>3, <1>4, <1>6 DEF S
<1> QED
  BY <1>5, <1>6

\* A target finds a redirection, the first rule that fits, or nothing.
Finds(tables, m, url) ==
  LET found == Route(tables, m, url)
      first == FirstRule(m, url)
  IN /\ found.rule \in Nat /\ found = [rule |-> found.rule, params |-> found.params]
     /\ found.rule = 0 <=> ~Redirected(m, url) /\ first = 0
     /\ found.rule = 0 => found = NotFound
     /\ found.rule = RuleSpecialRedirectSlash <=> Redirected(m, url)
     /\ found.rule \notin {0, RuleSpecialRedirectSlash} =>
          /\ first \in DOMAIN app.rules
          /\ RuleOf(tables[m], found.rule) = app.rules[first]
          /\ found.params = ParamsOf(app.rules[first].url, url)

\* That is what the tables of the rules find, for any target.
LEMMA LookupIs ==
  ASSUME Declared(app.rules), NEW tables, NEW m, NEW table, TableIs(table, app.rules, m, Len(app.rules)),
         tables[m].rules = table.rules, tables[m].trie = Optimize(table.trie), NEW url \in Seq(Symbols)
  PROVE  Finds(tables, m, url)
<1> DEFINE n == Len(app.rules)
           found == Route(tables, m, url)
           first == FirstRule(m, url)
<1>0. DOMAIN app.rules = 1 .. n /\ n \in Nat /\ n <= Len(app.rules)
  BY DEF Declared
<1>1. PICK E : /\ IsTree(table.trie) /\ (\E res : Holds(table.trie, res, E))
               /\ Entered(E, table.rules, app.rules, m, n)
  BY DEF TableIs
<1>2. PICK res : Speaks(Optimize(table.trie), res, E)
  BY <1>1, OptimizeIs
<1>3. FindsFirst(Optimize(table.trie), E, url)
  BY <1>2, FindIs
<1>4. /\ IsRoute(found) /\ (found.rule = 0 => found = NotFound)
      /\ found.rule # 0 => \E e \in E : Fits(e.url, url) /\ found.rule = e.rule /\ found.params = ParamsOf(e.url, url)
      /\ \A e \in E : Fits(e.url, url) => found.rule # 0 /\ found.rule <= e.rule
  BY <1>3 DEF FindsFirst, Route
<1> HIDE DEF found, first
<1>5. \A e \in E : /\ e.from \in 1 .. n /\ m \in app.rules[e.from].methods /\ e.rule \in Nat
                   /\ \/ e.url = app.rules[e.from].url /\ e.rule > 1 /\ table.rules[e.rule + 1] = app.rules[e.from]
                      \/ HasSlash(app.rules[e.from].url) /\ e.url = Front(app.rules[e.from].url) /\ e.rule = RuleSpecialRedirectSlash
  BY <1>1 DEF Entered
<1>6. ASSUME Redirected(m, url) PROVE found.rule = RuleSpecialRedirectSlash
  <2>1. PICK i \in RulesFor(m) : HasSlash(app.rules[i].url) /\ Fits(Front(app.rules[i].url), url)
    BY <1>6 DEF Redirected
  <2>2. i \in 1 .. n /\ m \in app.rules[i].methods
    BY <1>0, <2>1 DEF RulesFor
  <2>3. PICK k \in Nat : EntriesOf(app.rules[i], k, i) \subseteq E
    BY <1>1, <2>2 DEF Entered
  <2> DEFINE e == [url |-> Front(app.rules[i].url), rule |-> RuleSpecialRedirectSlash, from |-> i]
  <2>4. e \in E /\ e.url = Front(app.rules[i].url) /\ e.rule = RuleSpecialRedirectSlash
    BY <2>1, <2>3 DEF EntriesOf
  <2> HIDE DEF e
  <2>5. found.rule # 0 /\ found.rule <= RuleSpecialRedirectSlash
    BY <1>4, <2>1, <2>4
  <2> QED
    BY <1>4, <2>5 DEF IsRoute, RuleSpecialRedirectSlash
<1>7. ASSUME found.rule = RuleSpecialRedirectSlash PROVE Redirected(m, url)
  <2>1. PICK e \in E : Fits(e.url, url) /\ found.rule = e.rule
    BY <1>4, <1>7 DEF RuleSpecialRedirectSlash
  <2>2. /\ e.from \in 1 .. n /\ m \in app.rules[e.from].methods
        /\ HasSlash(app.rules[e.from].url) /\ e.url = Front(app.rules[e.from].url)
    BY <1>5, <1>7, <2>1 DEF RuleSpecialRedirectSlash
  <2>3. e.from \in RulesFor(m)
    BY <1>0, <2>2 DEF RulesFor
  <2> QED
    BY <2>1, <2>2, <2>3 DEF Redirected
<1>8. ASSUME NEW i \in Fitting(m, url)
      PROVE  \E f \in E : f.url = app.rules[i].url /\ f.from = i /\ f.rule > 1 /\ Fits(f.url, url)
  <2>1. i \in 1 .. n /\ m \in app.rules[i].methods /\ Fits(app.rules[i].url, url)
    BY <1>0 DEF Fitting
  <2>2. PICK k \in Nat : k > 1 /\ EntriesOf(app.rules[i], k, i) \subseteq E
    BY <1>1, <2>1 DEF Entered
  <2> DEFINE f == [url |-> app.rules[i].url, rule |-> k, from |-> i]
  <2>3. f \in E /\ f.url = app.rules[i].url /\ f.rule = k /\ f.from = i
    BY <2>2 DEF EntriesOf
  <2> HIDE DEF f
  <2> QED
    BY <2>1, <2>2, <2>3
<1>9. ASSUME found.rule \notin {0, RuleSpecialRedirectSlash}
      PROVE  /\ first \in DOMAIN app.rules /\ first # 0
             /\ RuleOf(tables[m], found.rule) = app.rules[first]
             /\ found.params = ParamsOf(app.rules[first].url, url)
  <2>1. PICK e \in E : Fits(e.url, url) /\ found.rule = e.rule /\ found.params = ParamsOf(e.url, url)
    BY <1>4, <1>9
  <2>2. /\ e.from \in 1 .. n /\ m \in app.rules[e.from].methods /\ e.rule > 1 /\ e.rule \in Nat
        /\ e.url = app.rules[e.from].url /\ table.rules[e.rule + 1] = app.rules[e.from]
    BY <1>5, <1>9, <2>1 DEF RuleSpecialRedirectSlash
  <2>3. e.from \in Fitting(m, url)
    BY <1>0, <2>1, <2>2 DEF Fitting
  <2>4. first \in Fitting(m, url) /\ first \in Nat \ {0} /\ first <= e.from
    BY <2>3, FirstRuleIs DEF first
  <2>5. PICK f \in E : f.url = app.rules[first].url /\ f.from = first /\ f.rule > 1 /\ Fits(f.url, url)
    BY <1>8, <2>4
  <2>6. e.rule <= f.rule
    BY <1>4, <2>1, <2>5
  <2>7. e.from <= first
    BY <1>1, <2>2, <2>5, <2>6 DEF Entered
  <2>8. e.from = first
    BY <2>2, <2>4, <2>7
  <2> QED
    BY <2>1, <2>2, <2>4, <2>8 DEF RuleOf, Fitting
<1>10. ASSUME found.rule = 0 PROVE first = 0
  <2>1. Fitting(m, url) = {}
    BY <1>4, <1>8, <1>10
  <2> QED
    BY <2>1, FirstRuleIs DEF first
<1>11. found.rule = 0 <=> ~Redirected(m, url) /\ first = 0
  BY <1>6, <1>7, <1>9, <1>10 DEF RuleSpecialRedirectSlash
<1> QED
  BY <1>4, <1>6, <1>7, <1>9, <1>11, Zenon DEF Finds, IsRoute, found, first

\* No two rules of a method are the same if it has a table of all of them.
LEMMA TablesDiffer ==
  ASSUME Declared(app.rules), NEW m, NEW table, TableIs(table, app.rules, m, Len(app.rules))
  PROVE  ~Twice(m)
<1>1. PICK E : Entered(E, table.rules, app.rules, m, Len(app.rules))
  BY DEF TableIs
<1>2. DOMAIN app.rules = 1 .. Len(app.rules)
  BY DEF Declared
<1>3. \A i, j \in DOMAIN app.rules : i # j /\ m \in app.rules[i].methods /\ m \in app.rules[j].methods =>
        \A u \in UrlsOf(app.rules[i]), v \in UrlsOf(app.rules[j]) : ~SameUrl(u, v)
  BY <1>1, <1>2 DEF Entered
<1> QED
  BY <1>3 DEF Twice, RulesFor

\* Two rules that are the same are what Twice says.
LEMMA SameTwiceIs ==
  ASSUME NEW m, SameTwice(app.rules, m)
  PROVE  Twice(m)
BY DEF SameTwice, Twice, RulesFor

-----------------------------------------------------------------------------
(* A router that serves an application. *)

\* What applications declare, rules and requests, is as AppsAssumption says.
LEMMA AppsDeclare ==
  ASSUME NEW a \in Apps
  PROVE  Declared(a.rules) /\ \A q \in a.requests : q.method \in Methods /\ q.url \in Seq(Symbols)
<1>1. IsApp(a)
  BY AppsAssumption
<1>2. \A i \in DOMAIN a.rules : IsUrl(a.rules[i].url) /\ a.rules[i].methods \subseteq Methods
  BY <1>1, Zenon DEF IsApp, IsRule, IsUrl, Symbols
<1>3. \A q \in a.requests : q.method \in Methods /\ q.url \in Seq(Symbols)
  BY <1>1, Zenon DEF IsApp, Symbols
<1> QED
  BY <1>1, <1>2, <1>3 DEF IsApp, Declared

\* The tables are those of all rules of an application, or the rules are faulty.
RouterServes ==
  /\ router.state \in {"new", "serving", "failed"}
  /\ router.state = "serving" =>
       app \in Apps /\ Validated(app.rules).ok /\ router.tables = Validated(app.rules).tables
  /\ router.state = "failed" => app \in Apps /\ ~Validated(app.rules).ok

\* Validating leaves a router that serves or has failed.
LEMMA ValidateServes ==
  ASSUME Validate
  PROVE  RouterServes'
<1> DEFINE v == Validated(app.rules)
<1>1. router.state = "new" /\ app \in Apps /\ app' = app
  BY DEF Validate
<1>2. router' = IF v.ok THEN [state |-> "serving", tables |-> v.tables] ELSE [state |-> "failed", tables |-> NoTables]
  BY DEF Validate
<1>3. v' = v
  BY <1>1, Zenon
<1> HIDE DEF v
<1>4. CASE v.ok
  <2>1. router'.state = "serving" /\ router'.tables = v.tables
    BY <1>2, <1>4
  <2> QED
    BY <1>1, <1>3, <1>4, <2>1 DEF RouterServes, v
<1>5. CASE ~v.ok
  <2>1. router'.state = "failed"
    BY <1>2, <1>5
  <2> QED
    BY <1>1, <1>3, <1>5, <2>1 DEF RouterServes, v
<1> QED
  BY <1>4, <1>5

\* The router serves the tables that validating the rules has made, always.
LEMMA RouterServesAlways == ExchangeSpec => []RouterServes
<1>1. ExchangeInit => RouterServes
  BY DEF ExchangeInit, RouterServes
<1>2. RouterServes /\ [ExchangeNext]_exchangeVars => RouterServes'
  <2> SUFFICES ASSUME RouterServes, [ExchangeNext]_exchangeVars PROVE RouterServes'
    OBVIOUS
  <2>1. CASE Declare
    <3>1. router.state = "new" /\ router' = router
      BY <2>1 DEF Declare
    <3> QED
      BY <3>1 DEF RouterServes
  <2>2. CASE Validate
    BY <2>2, ValidateServes
  <2>3. CASE UNCHANGED <<app, router>>
    <3>1. app' = app /\ router' = router
      BY <2>3
    <3> QED
      BY <3>1, Zenon DEF RouterServes
  <2>4. RequestLine => UNCHANGED <<app, router>>
    BY DEF RequestLine
  <2>5. RestOfUrl => UNCHANGED <<app, router>>
    BY DEF RestOfUrl
  <2>6. Continue => UNCHANGED <<app, router>>
    BY DEF Continue
  <2>7. HandleRequest => UNCHANGED <<app, router>>
    BY DEF HandleRequest
  <2>8. Connect => UNCHANGED <<app, router>>
    BY DEF Connect
  <2>9. UNCHANGED exchangeVars => UNCHANGED <<app, router>>
    BY DEF exchangeVars
  <2> QED
    BY <2>1, <2>2, <2>3, <2>4, <2>5, <2>6, <2>7, <2>8, <2>9 DEF ExchangeNext
<1> QED
  BY <1>1, <1>2, PTL DEF ExchangeSpec

\* While a router serves, every target finds what Finds says, and no two rules are the same.
LEMMA ServingFinds ==
  ASSUME RouterServes, router.state = "serving", NEW m \in Methods
  PROVE  ~Twice(m) /\ \A url \in Seq(Symbols) : Finds(router.tables, m, url)
<1>1. Declared(app.rules)
  BY AppsDeclare DEF RouterServes
<1> DEFINE v == Validated(app.rules)
<1>2. v.ok /\ router.tables = v.tables
  BY DEF RouterServes
<1>3. PICK table : /\ TableIs(table, app.rules, m, Len(app.rules))
                   /\ v.tables[m].rules = table.rules /\ v.tables[m].trie = Optimize(table.trie)
  <2> HIDE DEF v
  <2>1. \E table : /\ TableIs(table, app.rules, m, Len(app.rules))
                   /\ v.tables[m].rules = table.rules /\ v.tables[m].trie = Optimize(table.trie)
    BY <1>1, <1>2, ValidatedIs, Zenon DEF v
  <2> QED
    BY <2>1
<1> HIDE DEF v
<1>4. ~Twice(m)
  BY <1>1, <1>3, TablesDiffer
<1>5. ASSUME NEW url \in Seq(Symbols) PROVE Finds(router.tables, m, url)
  BY <1>1, <1>2, <1>3, LookupIs
<1> QED
  BY <1>4, <1>5

\* The router finds, of any rules in any order, the first that fits, with what its
\* parameters take, a redirection before any; and refuses only rules that are the same.
THEOREM LookupIsTheReferenceAlways == ExchangeSpec => []LookupIsTheReference
<1>1. RouterServes => LookupIsTheReference
  <2> SUFFICES ASSUME RouterServes PROVE LookupIsTheReference
    OBVIOUS
  <2>1. ASSUME router.state = "failed" PROVE \E m \in Methods : Twice(m)
    <3>1. Declared(app.rules) /\ ~Validated(app.rules).ok
      BY <2>1, AppsDeclare DEF RouterServes
    <3>2. \E m \in Methods : SameTwice(app.rules, m)
      BY <3>1, ValidatedIs, Zenon
    <3> QED
      BY <3>2, SameTwiceIs
  <2>2. ASSUME router.state = "serving" PROVE \A m \in Methods : ~Twice(m)
    BY <2>2, ServingFinds
  <2>3. ASSUME router.state = "serving", NEW m \in Methods, NEW url \in UrlsAsked
        PROVE  LET found == Route(router.tables, m, url)
                   first == FirstRule(m, url)
               IN CASE Redirected(m, url) -> found.rule = RuleSpecialRedirectSlash
                    [] ~Redirected(m, url) /\ first = 0 -> found = NotFound
                    [] OTHER -> /\ RuleOf(router.tables[m], found.rule) = app.rules[first]
                                /\ found.params = ParamsOf(app.rules[first].url, url)
    <3>1. url \in Seq(Symbols)
      BY AppsDeclare DEF UrlsAsked
    <3>2. Finds(router.tables, m, url)
      BY <2>3, <3>1, ServingFinds
    <3> DEFINE found == Route(router.tables, m, url)
               first == FirstRule(m, url)
    <3>3. CASE Redirected(m, url)
      <4>1. found.rule = RuleSpecialRedirectSlash
        BY <3>2, <3>3 DEF Finds
      <4> HIDE DEF found, first
      <4> QED
        BY <3>3, <4>1 DEF found, first
    <3>4. CASE ~Redirected(m, url) /\ first = 0
      <4>1. found = NotFound
        BY <3>2, <3>4, Zenon DEF Finds
      <4> QED
        BY <3>4, <4>1, Zenon
    <3>5. CASE ~Redirected(m, url) /\ first # 0
      <4>1. found.rule # 0 /\ found.rule # RuleSpecialRedirectSlash
        BY <3>2, <3>5, Zenon DEF Finds
      <4>2. RuleOf(router.tables[m], found.rule) = app.rules[first] /\ found.params = ParamsOf(app.rules[first].url, url)
        <5>1. found.rule \notin {0, RuleSpecialRedirectSlash}
          BY <4>1
        <5> QED
          BY <3>2, <5>1, Zenon DEF Finds
      <4> QED
        BY <3>5, <4>2, Zenon
    <3> QED
      BY <3>3, <3>4, <3>5
  <2> QED
    BY <2>1, <2>2, <2>3, Zenon DEF LookupIsTheReference
<1> QED
  BY <1>1, RouterServesAlways, PTL

-----------------------------------------------------------------------------
(* Responses and connections, written out. *)

Resp(code, body, length, keep, allow, completed, file, skip, manual) ==
  [code |-> code, body |-> body, length |-> length, keep |-> keep, allow |-> allow, completed |-> completed,
   file |-> file, skip |-> skip, manual |-> manual]

Conn(phase, method, url, target, found, res, hooked, sent) ==
  [phase |-> phase, method |-> method, url |-> url, target |-> target, found |-> found, res |-> res,
   hooked |-> hooked, sent |-> sent]

\* A response that no handler has touched but for its code.
Fresh(code, keep, skip) == Resp(code, 0, None, keep, {}, FALSE, None, skip, FALSE)

\* operator= leaves skip_body and manual_length_header as they are.
LEMMA ReplacedIs ==
  ASSUME NEW code, NEW body, NEW r
  PROVE  /\ Response(code, body) = Resp(code, body, None, FALSE, {}, FALSE, None, FALSE, FALSE)
         /\ Replaced(r, Response(code, body)) = Resp(code, body, None, FALSE, {}, FALSE, None, r.skip, r.manual)
<1>1. Response(code, body) = Resp(code, body, None, FALSE, {}, FALSE, None, FALSE, FALSE)
  BY DEF Response, Resp
<1> DEFINE no == FALSE
           new == Resp(code, body, None, no, {}, no, None, no, no)
<1>2. Response(code, body) = new
  BY <1>1
<1>3. Replaced(r, Response(code, body)) = [[new EXCEPT !.skip = r.skip] EXCEPT !.manual = r.manual]
  <2> HIDE DEF new
  <2>1. \A x : Replaced(r, x) = [[x EXCEPT !.skip = r.skip] EXCEPT !.manual = r.manual]
    BY DEF Replaced
  <2> QED
    BY <1>2, <2>1, Zenon
<1> HIDE DEF no
<1>4. [new EXCEPT !.skip = r.skip] = Resp(code, body, None, no, {}, no, None, r.skip, no)
  BY DEF Resp
<1>5. [Resp(code, body, None, no, {}, no, None, r.skip, no) EXCEPT !.manual = r.manual]
        = Resp(code, body, None, no, {}, no, None, r.skip, r.manual)
  BY DEF Resp
<1>6. Replaced(r, Response(code, body)) = Resp(code, body, None, no, {}, no, None, r.skip, r.manual)
  BY <1>3, <1>4, <1>5, Zenon
<1> QED
  BY <1>1, <1>6 DEF no

\* A response that is cleared, and a connection that nothing is sent on from end().
Cleared(skip, manual) == Resp(200, 0, None, FALSE, {}, FALSE, None, skip, manual)

Rests(phase, method, url, target, found, res, sent) == Conn(phase, method, url, target, found, res, FALSE, sent)

\* A response that is ended: if its body is skipped, its length is kept.
Ends(r) ==
  IF r.skip THEN Resp(r.code, 0, r.body, r.keep, r.allow, TRUE, r.file, r.skip, TRUE)
  ELSE Resp(r.code, r.body, r.length, r.keep, r.allow, TRUE, r.file, r.skip, r.manual)

\* clear() leaves them too, and nothing else.
LEMMA ClearIs ==
  ASSUME NEW r
  PROVE  Clear(r) = Cleared(r.skip, r.manual)
<1>1. Replaced(r, Response(200, 0)) = Resp(200, 0, None, FALSE, {}, FALSE, None, r.skip, r.manual)
  BY ReplacedIs, Zenon
<1> QED
  BY <1>1, Zenon DEF Clear, Cleared

\* What is left of a connection when a response is written.
LEMMA CompletedIs ==
  ASSUME NEW phase, NEW method, NEW url, NEW target, NEW found, NEW hooked, NEW sent, NEW r, NEW keep
  PROVE  CompleteRequest(Conn(phase, method, url, target, found, r, hooked, sent), keep)
           = Rests(phase, method, url, target, found, Cleared(r.skip, r.manual), WriteHeader(r, keep))
<1> DEFINE c == Conn(phase, method, url, target, found, r, hooked, sent)
           no == FALSE
           clear == Clear(r)
           written == WriteHeader(r, keep)
<1>1. c.res = r
  BY DEF Conn
<1>2. CompleteRequest(c, keep) = [[[c EXCEPT !.hooked = no] EXCEPT !.res = Clear(@)] EXCEPT !.sent = WriteHeader(c.res, keep)]
  <2> HIDE DEF c
  <2> QED
    BY DEF CompleteRequest
<1>3. clear = Resp(200, 0, None, FALSE, {}, FALSE, None, r.skip, r.manual)
  BY ReplacedIs, Zenon DEF Clear
<1> HIDE DEF no, clear, written
<1>4. [c EXCEPT !.hooked = no] = Conn(phase, method, url, target, found, r, no, sent)
  BY DEF Conn
<1>5. [Conn(phase, method, url, target, found, r, no, sent) EXCEPT !.res = clear]
        = Conn(phase, method, url, target, found, clear, no, sent)
  BY DEF Conn
<1>6. [Conn(phase, method, url, target, found, clear, no, sent) EXCEPT !.sent = written]
        = Conn(phase, method, url, target, found, clear, no, written)
  BY DEF Conn
<1>7. Conn(phase, method, url, target, found, r, no, sent).res = r
  BY DEF Conn
<1>8. CompleteRequest(c, keep) = Conn(phase, method, url, target, found, clear, no, written)
  <2> HIDE DEF c
  <2>1. CompleteRequest(c, keep)
          = [[Conn(phase, method, url, target, found, r, no, sent) EXCEPT !.res = Clear(@)] EXCEPT !.sent = WriteHeader(c.res, keep)]
    BY <1>2, <1>4, Zenon
  <2>2. CompleteRequest(c, keep)
          = [[Conn(phase, method, url, target, found, r, no, sent) EXCEPT !.res = clear] EXCEPT !.sent = written]
    BY <1>1, <1>7, <2>1, Zenon DEF clear, written
  <2> QED
    BY <1>5, <1>6, <2>2, Zenon
<1> QED
  BY <1>3, <1>8, Zenon DEF no, written, Rests, Cleared

\* A response that is not ended yet, and what it becomes.
Unended(r) ==
  \E code, body, length, k, allow, file, skip, manual : \E ended \in BOOLEAN :
    ~ended /\ r = Resp(code, body, length, k, allow, ended, file, skip, manual)

NowEnded(r) == [r EXCEPT !.completed = TRUE]

\* end() marks the response as completed, and keeps the length of a body that is skipped.
LEMMA EndsIs ==
  ASSUME NEW r, Unended(r)
  PROVE  /\ r.completed = FALSE
         /\ (IF NowEnded(r).skip THEN [NowEnded(r) EXCEPT !.length = NowEnded(r).body, !.body = 0, !.manual = TRUE] ELSE NowEnded(r))
              = Ends(r)
<1>1. PICK code, body, length, k, allow, file, skip, manual :
        \E ended \in BOOLEAN : ~ended /\ r = Resp(code, body, length, k, allow, ended, file, skip, manual)
  BY DEF Unended
<1> DEFINE new == NowEnded(r)
           all == IF new.skip THEN [new EXCEPT !.length = new.body, !.body = 0, !.manual = TRUE] ELSE new
           yes == TRUE
           no == FALSE
<1>0. r = Resp(code, body, length, k, allow, no, file, skip, manual)
  <2>1. PICK ended \in BOOLEAN : ~ended /\ r = Resp(code, body, length, k, allow, ended, file, skip, manual)
    BY <1>1
  <2>2. ended = no
    BY <2>1
  <2> QED
    BY <2>1, <2>2
<1>2. all = Ends(r)
  <2>1. r = Resp(code, body, length, k, allow, no, file, skip, manual)
    BY <1>0
  <2> HIDE DEF no
  <2>2. [r EXCEPT !.completed = yes] = Resp(code, body, length, k, allow, yes, file, skip, manual)
    <3> HIDE DEF yes
    <3> QED
      BY <2>1 DEF Resp
  <2>3. new = Resp(code, body, length, k, allow, yes, file, skip, manual)
    BY <2>2, Zenon DEF NowEnded
  <2>4. new.skip = skip
    BY <2>3 DEF Resp
  <2> HIDE DEF new
  <2>5. all = IF skip THEN Resp(code, 0, body, k, allow, yes, file, skip, yes) ELSE new
    <3>1. [new EXCEPT !.length = new.body, !.body = 0, !.manual = yes] = Resp(code, 0, body, k, allow, yes, file, skip, yes)
      <4> HIDE DEF yes
      <4> QED
        <5>1. [new EXCEPT !.length = new.body] = Resp(code, body, body, k, allow, yes, file, skip, manual)
          BY <2>3 DEF Resp
        <5>2. [Resp(code, body, body, k, allow, yes, file, skip, manual) EXCEPT !.body = 0]
                = Resp(code, 0, body, k, allow, yes, file, skip, manual)
          BY DEF Resp
        <5>3. [Resp(code, 0, body, k, allow, yes, file, skip, manual) EXCEPT !.manual = yes]
                = Resp(code, 0, body, k, allow, yes, file, skip, yes)
          BY DEF Resp
        <5>4. [new EXCEPT !.length = new.body, !.body = 0, !.manual = yes]
                = [[[new EXCEPT !.length = new.body] EXCEPT !.body = 0] EXCEPT !.manual = yes]
          OBVIOUS
        <5> QED
          BY <5>1, <5>2, <5>3, <5>4, Zenon
    <3> QED
      BY <2>4, <3>1, Zenon
  <2>6. /\ r.code = code /\ r.body = body /\ r.length = length /\ r.keep = k /\ r.allow = allow
        /\ r.file = file /\ r.manual = manual /\ r.skip = skip
    <3> HIDE DEF new
    <3> QED
      BY <2>1 DEF Resp
  <2> HIDE DEF all
  <2> QED
    BY <2>3, <2>5, <2>6, Zenon DEF Ends
<1>3. r.completed = FALSE
  BY <1>0 DEF Resp
<1> QED
  BY <1>2, <1>3 DEF all, new

\* A response that is ended is sent if the connection waits for it, and left as it is otherwise.
LEMMA EndedIs ==
  ASSUME NEW phase, NEW method, NEW url, NEW target, NEW found, NEW sent, NEW keep, NEW r, Unended(r)
  PROVE  End(Conn(phase, method, url, target, found, r, TRUE, sent), keep)
           = Rests(phase, method, url, target, found, Cleared(FALSE, FALSE), WriteHeader(Ends(r), keep))
<1> DEFINE c == Conn(phase, method, url, target, found, r, TRUE, sent)
           ended == IF NowEnded(r).skip THEN [NowEnded(r) EXCEPT !.length = NowEnded(r).body, !.body = 0, !.manual = TRUE]
                    ELSE NowEnded(r)
           no == FALSE
<1>1. c.res = r /\ c.hooked = TRUE
  BY DEF Conn
<1>2. ended = Ends(r) /\ r.completed = FALSE
  BY EndsIs
<1>3. End(c, keep) = [[CompleteRequest([c EXCEPT !.res = ended], keep) EXCEPT !.res.manual = FALSE] EXCEPT !.res.skip = FALSE]
  <2> HIDE DEF c
  <2> QED
    BY <1>1, <1>2, Zenon DEF End, NowEnded
<1> HIDE DEF ended
<1> DEFINE hooked == TRUE
<1>5. [c EXCEPT !.res = ended] = Conn(phase, method, url, target, found, Ends(r), hooked, sent)
  <2>1. [c EXCEPT !.res = ended] = Conn(phase, method, url, target, found, ended, hooked, sent)
    <3>1. c = Conn(phase, method, url, target, found, r, hooked, sent)
      OBVIOUS
    <3> HIDE DEF hooked, c
    <3> QED
      BY <3>1 DEF Conn
  <2> QED
    BY <1>2, <2>1, Zenon
<1> HIDE DEF hooked
<1>6. End(c, keep) = Rests(phase, method, url, target, found, Cleared(FALSE, FALSE), WriteHeader(Ends(r), keep))
  <2> DEFINE left(s, m) == Resp(200, 0, None, no, {}, no, None, s, m)
             written == WriteHeader(Ends(r), keep)
             d(s, m) == Conn(phase, method, url, target, found, left(s, m), no, written)
  <2>1. CompleteRequest([c EXCEPT !.res = ended], keep) = d(Ends(r).skip, Ends(r).manual)
    <3>1. CompleteRequest(Conn(phase, method, url, target, found, Ends(r), hooked, sent), keep) = d(Ends(r).skip, Ends(r).manual)
      <4> HIDE DEF c, ended
      <4> QED
        <5> DEFINE q == Ends(r)
        <5> HIDE DEF q
        <5>1. CompleteRequest(Conn(phase, method, url, target, found, q, hooked, sent), keep)
                = Rests(phase, method, url, target, found, Cleared(q.skip, q.manual), WriteHeader(q, keep))
          BY CompletedIs
        <5> QED
          BY <5>1, Zenon DEF Rests, Cleared, q
    <3> HIDE DEF d
    <3> QED
      BY <1>5, <3>1, Zenon
  <2> HIDE DEF no
  <2>2. ASSUME NEW s, NEW m, NEW x PROVE [d(s, m) EXCEPT !.res.manual = x] = d(s, x)
    <3> HIDE DEF written
    <3>1. [left(s, m) EXCEPT !.manual = x] = left(s, x)
      BY DEF Resp
    <3> HIDE DEF left
    <3>2. d(s, m).res = left(s, m)
      BY DEF Conn
    <3>3. [d(s, m) EXCEPT !.res.manual = x] = [d(s, m) EXCEPT !.res = left(s, x)]
      BY <3>1, <3>2
    <3>4. [d(s, m) EXCEPT !.res = left(s, x)] = d(s, x)
      BY DEF Conn
    <3> QED
      BY <3>3, <3>4, Zenon
  <2>3. ASSUME NEW s, NEW m, NEW x PROVE [d(s, m) EXCEPT !.res.skip = x] = d(x, m)
    <3> HIDE DEF written
    <3>1. [left(s, m) EXCEPT !.skip = x] = left(x, m)
      BY DEF Resp
    <3> HIDE DEF left
    <3>2. d(s, m).res = left(s, m)
      BY DEF Conn
    <3>3. [d(s, m) EXCEPT !.res.skip = x] = [d(s, m) EXCEPT !.res = left(x, m)]
      BY <3>1, <3>2
    <3>4. [d(s, m) EXCEPT !.res = left(x, m)] = d(x, m)
      BY DEF Conn
    <3> QED
      BY <3>3, <3>4, Zenon
  <2>4. d(FALSE, FALSE) = Rests(phase, method, url, target, found, Cleared(FALSE, FALSE), written)
    BY Zenon DEF Rests, Cleared, no
  <2> HIDE DEF d
  <2>5. End(c, keep) = d(FALSE, FALSE)
    <3>1. End(c, keep) = [[d(Ends(r).skip, Ends(r).manual) EXCEPT !.res.manual = no] EXCEPT !.res.skip = no]
      BY <1>3, <2>1, Zenon DEF no
    <3>2. [d(Ends(r).skip, Ends(r).manual) EXCEPT !.res.manual = no] = d(Ends(r).skip, no)
      <4> DEFINE s == Ends(r).skip
                 m == Ends(r).manual
      <4> HIDE DEF s, m
      <4>1. [d(s, m) EXCEPT !.res.manual = no] = d(s, no)
        BY <2>2, Zenon
      <4> QED
        BY <4>1, Zenon DEF s, m
    <3>3. [d(Ends(r).skip, no) EXCEPT !.res.skip = no] = d(no, no)
      BY <2>3, Zenon
    <3>4. End(c, keep) = d(no, no)
      BY <3>1, <3>2, <3>3, Zenon
    <3> QED
      BY <3>4, Zenon DEF no
  <2> QED
    BY <2>4, <2>5, Zenon
<1> QED
  BY <1>6 DEF c

\* An answer that is ended but not sent waits in the response.
LEMMA EndedUnsent ==
  ASSUME NEW phase, NEW method, NEW url, NEW target, NEW found, NEW sent, NEW keep, NEW r, Unended(r)
  PROVE  End(Rests(phase, method, url, target, found, r, sent), keep) = Rests(phase, method, url, target, found, Ends(r), sent)
<1> DEFINE c == Conn(phase, method, url, target, found, r, FALSE, sent)
           ended == IF NowEnded(r).skip THEN [NowEnded(r) EXCEPT !.length = NowEnded(r).body, !.body = 0, !.manual = TRUE]
                    ELSE NowEnded(r)
           no == FALSE
<1>1. c.res = r /\ c.hooked = FALSE
  BY DEF Conn
<1>2. ended = Ends(r) /\ r.completed = FALSE
  BY EndsIs
<1>3. End(c, keep) = [c EXCEPT !.res = ended]
  <2> HIDE DEF c
  <2> QED
    BY <1>1, <1>2, Zenon DEF End, NowEnded
<1>4. c = Conn(phase, method, url, target, found, r, no, sent)
  OBVIOUS
<1> HIDE DEF ended, no, c
<1>5. [c EXCEPT !.res = ended] = Conn(phase, method, url, target, found, ended, no, sent)
  BY <1>4 DEF Conn
<1> QED
  BY <1>2, <1>3, <1>5, Zenon DEF no, c, Rests

\* A response that is not ended, and what is written of it when it is.
Open(r, code, body, length, k, allow, file, skip) == r = Resp(code, body, length, k, allow, FALSE, file, skip, FALSE)

Says(a, code, length, k, allow, file, skip, keep) ==
  /\ a.code = Known(code)
  /\ a.allow = allow
  /\ a.keep = TRUE <=> keep = TRUE \/ k = TRUE
  /\ skip = FALSE /\ ((length = None /\ file = None) \/ (length = file /\ length \in Nat)) => a.length = a.bytes
  /\ skip = TRUE /\ file = None /\ Known(code) < 400 => a.bytes = 0 /\ a.length \in Nat

\* What is said of an ended response: its code, Keep-Alive, and a length that is that of its bytes.
LEMMA SaidIs ==
  ASSUME NEW code, NEW body \in Nat, NEW length, NEW k \in BOOLEAN, NEW allow, NEW file, NEW skip \in BOOLEAN,
         NEW keep \in BOOLEAN, NEW r, Open(r, code, body, length, k, allow, file, skip), Known(code) \in Nat
  PROVE  Says(WriteHeader(Ends(r), keep), code, length, k, allow, file, skip, keep)
<1> DEFINE b == IF skip THEN 0 ELSE body
           l == IF skip THEN body ELSE length
           n == IF Known(code) >= 400 /\ b = 0 THEN StatusText ELSE b
           e == Resp(code, b, l, k, allow, TRUE, file, skip, skip)
           a == [code |-> Known(code), length |-> IF ~skip /\ l = None THEN n ELSE l,
                 bytes |-> IF file # None THEN file ELSE n, keep |-> keep \/ k, allow |-> allow]
<1>1. Ends(r) = e
  <2>1. /\ r.code = code /\ r.body = body /\ r.length = length /\ r.keep = k /\ r.allow = allow
        /\ r.file = file /\ r.skip = skip /\ r.manual = FALSE
    BY DEF Resp, Open
  <2>2. CASE skip
    <3>1. Ends(r) = Resp(code, 0, body, k, allow, TRUE, file, skip, TRUE)
      BY <2>1, <2>2, Zenon DEF Ends
    <3>2. skip = TRUE /\ b = 0 /\ l = body
      BY <2>2
    <3> HIDE DEF b, l
    <3> QED
      BY <3>1, <3>2, Zenon
  <2>3. CASE ~skip
    <3>1. Ends(r) = Resp(code, body, length, k, allow, TRUE, file, skip, FALSE)
      BY <2>1, <2>3, Zenon DEF Ends
    <3>2. skip = FALSE /\ b = body /\ l = length
      BY <2>3
    <3> HIDE DEF b, l
    <3> QED
      BY <3>1, <3>2, Zenon
  <2> QED
    BY <2>2, <2>3
<1>2. /\ e.code = code /\ e.body = b /\ e.length = l /\ e.keep = k /\ e.allow = allow
      /\ e.file = file /\ e.manual = skip
  <2> HIDE DEF b, l
  <2> QED
    BY DEF Resp
<1> HIDE DEF e
<1>3. WriteHeader(e, keep) = a
  <2> HIDE DEF b, l
  <2> QED
    BY <1>2, Zenon DEF WriteHeader, Known
<1>4. /\ a.code = Known(code) /\ a.length = (IF ~skip /\ l = None THEN n ELSE l)
      /\ a.bytes = (IF file # None THEN file ELSE n) /\ a.allow = allow /\ (a.keep = TRUE <=> keep = TRUE \/ k = TRUE)
  <2> HIDE DEF b, l, n
  <2> QED
    OBVIOUS
<1> HIDE DEF a
<1>5. WriteHeader(Ends(r), keep) = a
  BY <1>1, <1>3, Zenon
<1>6. skip = FALSE /\ ((length = None /\ file = None) \/ (length = file /\ length \in Nat)) => a.length = a.bytes
  BY <1>4 DEF None
<1>7. skip = TRUE /\ file = None /\ Known(code) < 400 => a.bytes = 0 /\ a.length \in Nat
  BY <1>4 DEF None
<1> QED
  BY <1>4, <1>5, <1>6, <1>7, Zenon DEF Says

\* What a handler makes of a response that is fresh.
Filled(code, k, skip, h) ==
  IF h.kind \in {"returns", "throws"} THEN Resp(h.code, h.size, None, FALSE, {}, FALSE, None, skip, FALSE)
  ELSE IF h.kind = "writes" THEN Resp(code, 0 + h.size, None, k, {}, FALSE, None, skip, FALSE)
  ELSE IF h.kind # "file" THEN Fresh(code, k, skip)
  ELSE IF h.size = None THEN Resp(404, 0, None, k, {}, FALSE, None, skip, FALSE)
  ELSE Resp(200, 0, h.size, k, {}, FALSE, h.size, skip, FALSE)

\* What a connection becomes when a handler has ended its response, or when it is ended behind the handler.
Becomes(c, h, keep, e) ==
  /\ h.kind \in {"returns", "file"} => Handled(c, h, keep) = e
  /\ h.kind \notin {"returns", "file"} => End(Handled(c, h, keep), keep) = e

\* A handler's response is ended once, by itself or behind it, and written.
LEMMA HandledIs ==
  ASSUME NEW phase, NEW method, NEW url, NEW target, NEW found, NEW sent,
         NEW code, NEW k, NEW skip, NEW keep, NEW h
  PROVE  Becomes(Conn(phase, method, url, target, found, Fresh(code, k, skip), TRUE, sent), h, keep,
                 Rests(phase, method, url, target, found, Cleared(FALSE, FALSE),
                       WriteHeader(Ends(Filled(code, k, skip, h)), keep)))
<1> DEFINE no == FALSE
           yes == TRUE
           r == Fresh(code, k, skip)
           c == Conn(phase, method, url, target, found, r, yes, sent)
           d == Handled(c, h, keep)
           f == Filled(code, k, skip, h)
           e == Rests(phase, method, url, target, found, Cleared(FALSE, FALSE), WriteHeader(Ends(f), keep))
           with(x) == Conn(phase, method, url, target, found, x, yes, sent)
<1>1. r = Resp(code, 0, None, k, {}, no, None, skip, no)
  BY DEF Fresh
<1>2. c.res = r /\ \A x : [c EXCEPT !.res = x] = with(x)
  <2> HIDE DEF yes, r
  <2>1. c.res = r
    BY DEF Conn
  <2>2. ASSUME NEW x PROVE [c EXCEPT !.res = x] = with(x)
    BY DEF Conn
  <2> QED
    BY <2>1, <2>2
<1>3. r.skip = skip /\ r.manual = no /\ r.body = 0
  <2> HIDE DEF r, no
  <2> QED
    BY <1>1 DEF Resp
<1>4. ASSUME NEW b, NEW n, NEW l, NEW kk, NEW file, NEW x, x = Resp(b, n, l, kk, {}, no, file, skip, no)
      PROVE  End(with(x), keep) = Rests(phase, method, url, target, found, Cleared(FALSE, FALSE), WriteHeader(Ends(x), keep))
  <2>1. ~no /\ no \in BOOLEAN
    OBVIOUS
  <2> HIDE DEF no, r
  <2>2. Unended(x)
    BY <1>4, <2>1, Zenon DEF Unended
  <2> QED
    BY <2>1, <2>2, EndedIs
<1> HIDE DEF c, d, f, with
<1>5. CASE h.kind \in {"returns", "throws"}
  <2> DEFINE x == Resp(h.code, h.size, None, no, {}, no, None, skip, no)
  <2>0. Replaced(r, Response(h.code, h.size)) = Resp(h.code, h.size, None, no, {}, no, None, r.skip, r.manual)
    <3> HIDE DEF r
    <3> QED
      BY ReplacedIs, Zenon
  <2>1. Replaced(r, Response(h.code, h.size)) = x
    <3> HIDE DEF no, r
    <3> QED
      BY <1>3, <2>0, Zenon
  <2>2. /\ h.kind = "returns" => d = End([c EXCEPT !.res = Replaced(@, Response(h.code, h.size))], keep)
        /\ h.kind = "throws" => d = [c EXCEPT !.res = Replaced(@, Response(h.code, h.size))]
    <3>1. CASE h.kind = "returns"
      <4>1. h.kind # "throws"
        BY <3>1
      <4> QED
        BY <3>1, <4>1, Zenon DEF d, Handled
    <3>2. CASE h.kind = "throws"
      <4>1. h.kind # "returns" /\ h.kind # "writes" /\ h.kind # "file"
        BY <3>2
      <4> QED
        BY <3>2, <4>1, Zenon DEF d, Handled
    <3> QED
      BY <1>5, <3>1, <3>2
  <2>3. [c EXCEPT !.res = Replaced(@, Response(h.code, h.size))] = with(x)
    BY <1>2, <2>1, Zenon
  <2>4. f = x
    BY <1>5, Zenon DEF f, Filled
  <2> HIDE DEF x
  <2>5. End(with(x), keep) = e
    <3>1. x = Resp(h.code, h.size, None, no, {}, no, None, skip, no)
      BY DEF x
    <3>2. End(with(x), keep) = Rests(phase, method, url, target, found, Cleared(FALSE, FALSE), WriteHeader(Ends(x), keep))
      BY <1>4, <3>1, Zenon
    <3> QED
      BY <2>4, <3>2, Zenon
  <2> HIDE DEF e
  <2>6. /\ h.kind = "returns" => d = e
        /\ h.kind = "throws" => End(d, keep) = e
    BY <2>2, <2>3, <2>5, Zenon
  <2>7. /\ h.kind \in {"returns", "file"} => h.kind = "returns"
        /\ h.kind \notin {"returns", "file"} => h.kind = "throws"
    BY <1>5
  <2> QED
    BY <2>6, <2>7, Zenon DEF d, e, f, c, Becomes
<1>6. CASE h.kind = "writes"
  <2> DEFINE x == Resp(code, 0 + h.size, None, k, {}, no, None, skip, no)
  <2>1. [r EXCEPT !.body = 0 + h.size] = x
    <3> HIDE DEF no, r
    <3> QED
      BY <1>1 DEF Resp
  <2>2. d = [c EXCEPT !.res.body = @ + h.size]
    BY <1>6, Zenon DEF d, Handled
  <2>3. d = with(x)
    <3>1. d = [c EXCEPT !.res = [c.res EXCEPT !.body = c.res.body + h.size]]
      BY <2>2, Zenon
    <3>2. [c.res EXCEPT !.body = c.res.body + h.size] = x
      BY <1>2, <1>3, <2>1, Zenon
    <3> QED
      BY <1>2, <3>1, <3>2, Zenon
  <2>4. f = x
    <3>1. h.kind \notin {"returns", "throws"}
      BY <1>6
    <3> QED
      BY <1>6, <3>1, Zenon DEF f, Filled
  <2> HIDE DEF x
  <2>5. End(with(x), keep) = e
    <3>1. x = Resp(code, 0 + h.size, None, k, {}, no, None, skip, no)
      BY DEF x
    <3>2. End(with(x), keep) = Rests(phase, method, url, target, found, Cleared(FALSE, FALSE), WriteHeader(Ends(x), keep))
      BY <1>4, <3>1, Zenon
    <3> QED
      BY <2>4, <3>2, Zenon
  <2> HIDE DEF e
  <2>6. End(d, keep) = e
    BY <2>3, <2>5, Zenon
  <2>7. h.kind \notin {"returns", "file"}
    BY <1>6
  <2> QED
    BY <2>6, <2>7, Zenon DEF d, e, f, c, Becomes
<1>7. CASE h.kind = "file"
  <2> DEFINE x == IF h.size = None THEN Resp(404, 0, None, k, {}, no, None, skip, no)
                  ELSE Resp(200, 0, h.size, k, {}, no, h.size, skip, no)
  <2>1. SetFile(r, h.size) = x
    <3>1. CASE h.size = None
      <4>1. SetFile(r, h.size) = [r EXCEPT !.code = 404]
        BY <3>1, Zenon DEF SetFile
      <4>2. [r EXCEPT !.code = 404] = Resp(404, 0, None, k, {}, no, None, skip, no)
        <5> HIDE DEF no, r
        <5> QED
          BY <1>1 DEF Resp
      <4> QED
        BY <3>1, <4>1, <4>2, Zenon
    <3>2. CASE h.size # None
      <4>1. SetFile(r, h.size) = [[[r EXCEPT !.code = 200] EXCEPT !.length = h.size] EXCEPT !.file = h.size]
        BY <3>2, Zenon DEF SetFile
      <4>2. [r EXCEPT !.code = 200] = Resp(200, 0, None, k, {}, no, None, skip, no)
        <5> HIDE DEF no, r
        <5> QED
          BY <1>1 DEF Resp
      <4>3. [Resp(200, 0, None, k, {}, no, None, skip, no) EXCEPT !.length = h.size] = Resp(200, 0, h.size, k, {}, no, None, skip, no)
        <5> HIDE DEF no
        <5> QED
          BY DEF Resp
      <4>4. [Resp(200, 0, h.size, k, {}, no, None, skip, no) EXCEPT !.file = h.size] = Resp(200, 0, h.size, k, {}, no, h.size, skip, no)
        <5> HIDE DEF no
        <5> QED
          BY DEF Resp
      <4> QED
        BY <3>2, <4>1, <4>2, <4>3, <4>4, Zenon
    <3> QED
      BY <3>1, <3>2
  <2>2. d = End([c EXCEPT !.res = SetFile(@, h.size)], keep)
    BY <1>7, Zenon DEF d, Handled
  <2>3. d = End(with(x), keep)
    BY <1>2, <2>1, <2>2, Zenon
  <2>4. f = x
    <3>1. h.kind \notin {"returns", "throws"} /\ h.kind # "writes"
      BY <1>7
    <3> QED
      BY <1>7, <3>1, Zenon DEF f, Filled
  <2>5. End(with(x), keep) = e
    <3>1. CASE h.size = None
      <4>1. x = Resp(404, 0, None, k, {}, no, None, skip, no)
        BY <3>1
      <4> HIDE DEF x
      <4>2. End(with(x), keep) = Rests(phase, method, url, target, found, Cleared(FALSE, FALSE), WriteHeader(Ends(x), keep))
        BY <1>4, <4>1, Zenon
      <4> QED
        BY <2>4, <4>2, Zenon
    <3>2. CASE h.size # None
      <4>1. x = Resp(200, 0, h.size, k, {}, no, h.size, skip, no)
        BY <3>2
      <4> HIDE DEF x
      <4>2. End(with(x), keep) = Rests(phase, method, url, target, found, Cleared(FALSE, FALSE), WriteHeader(Ends(x), keep))
        BY <1>4, <4>1, Zenon
      <4> QED
        BY <2>4, <4>2, Zenon
    <3> QED
      BY <3>1, <3>2
  <2> HIDE DEF e, x
  <2>6. d = e
    BY <2>3, <2>5, Zenon
  <2> QED
    BY <1>7, <2>6, Zenon DEF d, e, f, c, Becomes
<1>8. CASE h.kind \notin {"returns", "throws", "writes", "file"}
  <2>1. d = c
    <3>1. h.kind # "writes" /\ h.kind # "file" /\ h.kind # "returns" /\ h.kind # "throws"
      BY <1>8
    <3> QED
      BY <3>1, Zenon DEF d, Handled
  <2>2. f = r
    <3>1. h.kind \notin {"returns", "throws"} /\ h.kind # "writes" /\ h.kind # "file"
      BY <1>8
    <3> QED
      BY <3>1, Zenon DEF f, Filled
  <2>3. c = with(r)
    BY DEF c, with
  <2> HIDE DEF r
  <2>4. End(with(r), keep) = e
    <3>1. End(with(r), keep) = Rests(phase, method, url, target, found, Cleared(FALSE, FALSE), WriteHeader(Ends(r), keep))
      BY <1>1, <1>4, Zenon
    <3> QED
      BY <2>2, <3>1, Zenon
  <2> HIDE DEF e
  <2>5. End(d, keep) = e
    BY <2>1, <2>3, <2>4, Zenon
  <2>6. h.kind \notin {"returns", "file"}
    BY <1>8
  <2> QED
    BY <2>5, <2>6, Zenon DEF d, e, f, c, r, Becomes
<1> QED
  BY <1>5, <1>6, <1>7, <1>8

-----------------------------------------------------------------------------
(* A request and its answer. *)

\* The methods a target has a rule for, of the rules as they are declared.
Routed(url) == {m \in Methods : HasRoute(m, url)}

\* The handler behind what a target has found.
HandlesAs(found, h) ==
  \/ found.catchAll = TRUE /\ h = app.catchAll
  \/ /\ found.catchAll = FALSE /\ found.rule = RuleSpecialRedirectSlash
     /\ h = [kind |-> "returns", code |-> 301, size |-> 0]
  \/ /\ found.catchAll = FALSE /\ found.rule # RuleSpecialRedirectSlash
     /\ h = RuleOf(router.tables[found.method], found.rule).handler /\ IsHandler(h)

\* Nothing that a catch-all handler has ended is ended again.
Once(found) == found.catchAll = TRUE => app.catchAll.kind \notin {"returns", "file"}

\* A connection that waits for its response to be ended.
Hooked(phase, method, url, target, found, res) == Conn(phase, method, url, target, found, res, TRUE, NoAnswer)

\* And one whose response was ended and written.
Over(phase, method, url, target, found, sent) == Rests(phase, method, url, target, found, Cleared(FALSE, FALSE), sent)

\* handle() of the router: the response of the handler is ended and written, once.
LEMMA HandleIs ==
  ASSUME NEW phase, NEW method, NEW url, NEW target, NEW found, NEW code, NEW k, NEW skip, NEW keep, NEW h,
         HandlesAs(found, h), Once(found)
  PROVE  Handle(Hooked(phase, method, url, target, found, Fresh(code, k, skip)), router, app.catchAll, keep)
           = Over(phase, method, url, target, found, WriteHeader(Ends(Filled(code, k, skip, h)), keep))
<1> DEFINE c == Hooked(phase, method, url, target, found, Fresh(code, k, skip))
           e == Over(phase, method, url, target, found, WriteHeader(Ends(Filled(code, k, skip, h)), keep))
           rule == RuleOf(router.tables[found.method], found.rule)
           ended == {"returns", "file"}
<1>1. /\ h.kind \in ended => Handled(c, h, keep) = e
      /\ h.kind \notin ended => End(Handled(c, h, keep), keep) = e
  <2>1. Becomes(c, h, keep, e)
    BY HandledIs DEF Hooked, Over
  <2> HIDE DEF c, e
  <2> QED
    BY <2>1, Zenon DEF Becomes
<1>2. c.found = found
  BY DEF Conn, Hooked
<1> HIDE DEF c, e
<1>3. CASE found.catchAll = TRUE /\ h = app.catchAll
  <2>1. Handle(c, router, app.catchAll, keep) = End(Handled(c, app.catchAll, keep), keep)
    BY <1>2, <1>3, Zenon DEF Handle
  <2> QED
    BY <1>1, <1>3, <2>1, Zenon DEF c, e, Once
<1>4. CASE found.catchAll = FALSE /\ found.rule = RuleSpecialRedirectSlash /\ h = [kind |-> "returns", code |-> 301, size |-> 0]
  <2>1. Handle(c, router, app.catchAll, keep) = End([c EXCEPT !.res = Replaced(@, Response(301, 0))], keep)
    BY <1>2, <1>4, Zenon DEF Handle
  <2>2. h.kind = "returns" /\ h.code = 301 /\ h.size = 0
    BY <1>4
  <2>3. Handled(c, h, keep) = End([c EXCEPT !.res = Replaced(@, Response(301, 0))], keep)
    BY <2>2, Zenon DEF Handled
  <2>4. h.kind \in ended
    BY <2>2
  <2> QED
    BY <1>1, <2>1, <2>3, <2>4, Zenon DEF c, e
<1>5. CASE /\ found.catchAll = FALSE /\ found.rule # RuleSpecialRedirectSlash
           /\ h = rule.handler /\ IsHandler(h)
  <2>1. Handle(c, router, app.catchAll, keep)
          = IF h.kind \in {"writes", "throws"} THEN End(Handled(c, h, keep), keep) ELSE Handled(c, h, keep)
    BY <1>2, <1>5, Zenon DEF Handle
  <2>2. h.kind \in ended \cup {"writes", "throws"}
    BY <1>5 DEF IsHandler
  <2>3. CASE h.kind \in {"writes", "throws"}
    <3>1. h.kind \notin ended
      BY <2>3
    <3> QED
      BY <1>1, <2>1, <2>3, <3>1, Zenon DEF c, e
  <2>4. CASE h.kind \notin {"writes", "throws"}
    <3>1. h.kind \in ended
      BY <2>2, <2>4
    <3> QED
      BY <1>1, <2>1, <2>4, <3>1, Zenon DEF c, e
  <2> QED
    BY <2>3, <2>4
<1> QED
  BY <1>3, <1>4, <1>5, Zenon DEF HandlesAs, c, e

\* An answer of the router itself, before a request is complete.
Told(code, allow, skip) == Resp(code, 0, None, FALSE, allow, FALSE, None, skip, FALSE)

Tells(code, allow) == Told(code, allow, FALSE)

Allows(allow) == [Response(204, 0) EXCEPT !.allow = allow]

Nothing == Found("none", NotFound)

\* Such an answer is ended, and nothing is sent yet.
LEMMA AnsweredIs ==
  ASSUME NEW phase, NEW method, NEW url, NEW target, NEW found, NEW code, NEW k, NEW skip, NEW x, NEW allow
  PROVE  Answered(Rests(phase, method, url, target, found, Fresh(code, k, skip), NoAnswer), Tells(x, allow))
           = Rests(phase, method, url, target, Nothing, Ends(Told(x, allow, skip)), NoAnswer)
<1> DEFINE no == FALSE
           none == Nothing
           r == Fresh(code, k, skip)
           new == Told(x, allow, no)
           told == Told(x, allow, skip)
           c == Conn(phase, method, url, target, found, r, no, NoAnswer)
           d == Conn(phase, method, url, target, none, told, no, NoAnswer)
<1>1. r.skip = skip /\ r.manual = no
  <2>1. r = Resp(code, 0, None, k, {}, no, None, skip, no)
    BY DEF Fresh
  <2> HIDE DEF no, r
  <2> QED
    BY <2>1 DEF Resp
<1>2. new = Resp(x, 0, None, no, allow, no, None, no, no) /\ told = Resp(x, 0, None, no, allow, no, None, skip, no)
  BY DEF Told
<1>3. ~no /\ no \in BOOLEAN /\ no = FALSE
  OBVIOUS
<1> HIDE DEF no, r, new, told, none
<1>4. Replaced(r, new) = told
  <2>1. Replaced(r, new) = [[new EXCEPT !.skip = r.skip] EXCEPT !.manual = r.manual]
    BY DEF Replaced
  <2>2. Replaced(r, new) = [[new EXCEPT !.skip = skip] EXCEPT !.manual = no]
    BY <1>1, <2>1, Zenon
  <2>3. [new EXCEPT !.skip = skip] = Resp(x, 0, None, no, allow, no, None, skip, no)
    BY <1>2 DEF Resp
  <2>4. [Resp(x, 0, None, no, allow, no, None, skip, no) EXCEPT !.manual = no] = Resp(x, 0, None, no, allow, no, None, skip, no)
    BY DEF Resp
  <2> QED
    BY <1>2, <2>2, <2>3, <2>4, Zenon
<1>5. [c EXCEPT !.found = none] = Conn(phase, method, url, target, none, r, no, NoAnswer)
  BY DEF Conn
<1>6. Conn(phase, method, url, target, none, r, no, NoAnswer).res = r
  BY DEF Conn
<1>7. [Conn(phase, method, url, target, none, r, no, NoAnswer) EXCEPT !.res = told] = d
  BY DEF Conn
<1>8. Answered(c, new) = End(d, FALSE)
  <2>1. Answered(c, new) = End([[c EXCEPT !.found = none] EXCEPT !.res = Replaced(@, new)], FALSE)
    BY Zenon DEF Answered, none, Nothing
  <2> HIDE DEF c, d
  <2>2. [[c EXCEPT !.found = none] EXCEPT !.res = Replaced(@, new)] = d
    <3>1. [Conn(phase, method, url, target, none, r, no, NoAnswer) EXCEPT !.res = Replaced(@, new)] = d
      BY <1>4, <1>6, <1>7, Zenon
    <3> QED
      BY <1>5, <3>1, Zenon
  <2> QED
    BY <2>1, <2>2, Zenon
<1>9. Unended(told)
  BY <1>2, <1>3, Zenon DEF Unended
<1>10. End(d, FALSE) = Rests(phase, method, url, target, none, Ends(told), NoAnswer)
  <2>1. d = Rests(phase, method, url, target, none, told, NoAnswer)
    BY <1>3, Zenon DEF Rests
  <2> DEFINE keep == FALSE
  <2> HIDE DEF keep, d
  <2>2. End(Rests(phase, method, url, target, none, told, NoAnswer), keep)
          = Rests(phase, method, url, target, none, Ends(told), NoAnswer)
    BY <1>9, EndedUnsent
  <2> QED
    BY <2>1, <2>2, Zenon DEF keep
<1> QED
  BY <1>3, <1>8, <1>10, Zenon DEF Rests, Tells, c, r, new, told, none

\* An answer that is given at once is ended, and waits to be sent.
LEMMA ToldIs ==
  ASSUME NEW allow
  PROVE  Response(404, 0) = Tells(404, {}) /\ Allows(allow) = Tells(204, allow)
<1>1. \A x : Response(x, 0) = Resp(x, 0, None, FALSE, {}, FALSE, None, FALSE, FALSE)
  BY ReplacedIs, Zenon
<1> DEFINE no == FALSE
           nobody == {}
<1>2. Response(204, 0) = Resp(204, 0, None, no, nobody, no, None, no, no)
  BY <1>1
<1> HIDE DEF no, nobody
<1>3. [Resp(204, 0, None, no, nobody, no, None, no, no) EXCEPT !.allow = allow] = Resp(204, 0, None, no, allow, no, None, no, no)
  BY DEF Resp
<1>4. Tells(204, allow) = Resp(204, 0, None, no, allow, no, None, no, no)
  BY Zenon DEF Tells, Told, no
<1>5. Response(404, 0) = Tells(404, {})
  BY <1>1, Zenon DEF Tells, Told
<1> QED
  BY <1>2, <1>3, <1>4, <1>5, Zenon DEF Allows

\* The answer to OPTIONS.
LEMMA HandleOptionsIs ==
  ASSUME NEW phase, NEW method, NEW url, NEW target, NEW found, NEW code, NEW k, NEW skip, NEW tables, NEW routed
  PROVE  HandleOptions(Rests(phase, method, url, target, found, Fresh(code, k, skip), NoAnswer), tables, routed)
           = IF url = <<"/", "*">> \/ routed # {}
             THEN Rests(phase, method, url, target, Nothing, Ends(Told(204, Allowed(tables, url, routed), skip)), NoAnswer)
             ELSE Rests(phase, method, url, target, Nothing, Ends(Told(404, {}, skip)), NoAnswer)
<1> DEFINE c == Rests(phase, method, url, target, found, Fresh(code, k, skip), NoAnswer)
           allow == Allowed(tables, url, routed)
<1>1. c.url = url
  <2> DEFINE r == Fresh(code, k, skip)
             no == FALSE
  <2> HIDE DEF r, no
  <2>1. Conn(phase, method, url, target, found, r, no, NoAnswer).url = url
    BY DEF Conn
  <2> QED
    BY <2>1, Zenon DEF Rests, r, no
<1>2. \A x, a : Answered(c, Tells(x, a)) = Rests(phase, method, url, target, Nothing, Ends(Told(x, a, skip)), NoAnswer)
  BY AnsweredIs
<1> HIDE DEF c, allow
<1>3. Response(404, 0) = Tells(404, {}) /\ Allows(allow) = Tells(204, allow)
  BY ToldIs, Zenon
<1>4. HandleOptions(c, tables, routed)
        = Answered(c, IF url = <<"/", "*">> \/ routed # {} THEN Allows(allow) ELSE Response(404, 0))
  BY <1>1, Zenon DEF HandleOptions, Allows, allow
<1>5. CASE url = <<"/", "*">> \/ routed # {}
  BY <1>2, <1>3, <1>4, <1>5, Zenon DEF c, allow
<1>6. CASE ~(url = <<"/", "*">> \/ routed # {})
  BY <1>2, <1>3, <1>4, <1>6, Zenon DEF c
<1> QED
  BY <1>5, <1>6

\* What a request for HEAD finds, and its response.
HeadFound(own, get) == IF own.rule = 0 THEN Found("GET", get) ELSE Found("HEAD", own)

Skipping(code, keep) == Fresh(code, keep, TRUE)

\* HEAD finds its own rule, or that of GET, or is answered by 404.
LEMMA HandleHeadIs ==
  ASSUME NEW phase, NEW method, NEW url, NEW target, NEW found, NEW code, NEW k, NEW skip, NEW own, NEW get
  PROVE  HandleHead(Rests(phase, method, url, target, found, Fresh(code, k, skip), NoAnswer), own, get)
           = IF own.rule = 0 /\ get.rule = 0
             THEN Rests(phase, method, url, target, Nothing, Ends(Told(404, {}, skip)), NoAnswer)
             ELSE Rests(phase, method, url, target, HeadFound(own, get), Skipping(code, k), NoAnswer)
<1> DEFINE c == Rests(phase, method, url, target, found, Fresh(code, k, skip), NoAnswer)
           f == IF own.rule = 0 THEN Found("GET", get) ELSE Found("HEAD", own)
           yes == TRUE
           no == FALSE
           r == Fresh(code, k, skip)
           q == Fresh(code, k, yes)
<1>1. f.rule = 0 <=> own.rule = 0 /\ get.rule = 0
  <2>1. Found("GET", get).rule = get.rule /\ Found("HEAD", own).rule = own.rule
    BY DEF Found
  <2> QED
    BY <2>1, Zenon
<1>2. [r EXCEPT !.skip = yes] = q
  <2>1. r = Resp(code, 0, None, k, {}, no, None, skip, no) /\ q = Resp(code, 0, None, k, {}, no, None, yes, no)
    BY DEF Fresh
  <2> HIDE DEF yes, no, r, q
  <2> QED
    BY <2>1 DEF Resp
<1>3. c = Conn(phase, method, url, target, found, r, no, NoAnswer)
  BY DEF Rests
<1>4. Rests(phase, method, url, target, f, q, NoAnswer) = Conn(phase, method, url, target, f, q, no, NoAnswer)
  BY DEF Rests
<1>5. Answered(c, Tells(404, {})) = Rests(phase, method, url, target, Nothing, Ends(Told(404, {}, skip)), NoAnswer)
  BY AnsweredIs
<1>6. Response(404, 0) = Tells(404, {})
  BY ToldIs, Zenon
<1> HIDE DEF f, yes, no, r, q, c
<1>7. HandleHead(c, own, get)
        = IF f.rule = 0 THEN Answered(c, Response(404, 0)) ELSE [[c EXCEPT !.res.skip = yes] EXCEPT !.found = f]
  BY Zenon DEF HandleHead, f, yes
<1>8. [c EXCEPT !.res.skip = yes] = Conn(phase, method, url, target, found, q, no, NoAnswer)
  <2>1. c.res = r
    BY <1>3 DEF Conn
  <2>2. [c EXCEPT !.res.skip = yes] = [c EXCEPT !.res = q]
    BY <1>2, <2>1
  <2>3. [c EXCEPT !.res = q] = Conn(phase, method, url, target, found, q, no, NoAnswer)
    BY <1>3 DEF Conn
  <2> QED
    BY <2>2, <2>3, Zenon
<1>9. [Conn(phase, method, url, target, found, q, no, NoAnswer) EXCEPT !.found = f]
        = Conn(phase, method, url, target, f, q, no, NoAnswer)
  BY DEF Conn
<1>10. [[c EXCEPT !.res.skip = yes] EXCEPT !.found = f] = Rests(phase, method, url, target, f, q, NoAnswer)
  BY <1>4, <1>8, <1>9, Zenon
<1> QED
  BY <1>1, <1>5, <1>6, <1>7, <1>10, Zenon DEF c, f, q, yes, HeadFound, Skipping

\* What a request without a rule finds: a catch-all handler, or what stands for none.
Nowhere == [Nothing EXCEPT !.catchAll = TRUE]

\* What another request finds.
LEMMA HandleMethodIs ==
  ASSUME NEW phase, NEW method, NEW url, NEW target, NEW found, NEW code, NEW k, NEW skip, NEW route, NEW routed
  PROVE  HandleMethod(Rests(phase, method, url, target, found, Fresh(code, k, skip), NoAnswer), route, routed)
           = IF route.rule # 0
             THEN Rests(phase, method, url, target, Found(method, route), Fresh(code, k, skip), NoAnswer)
             ELSE Rests(phase, method, url, target, Nowhere, Fresh(NotRouted(routed), k, skip), NoAnswer)
<1> DEFINE c == Rests(phase, method, url, target, found, Fresh(code, k, skip), NoAnswer)
           f == Found(method, route)
           no == FALSE
           r == Fresh(code, k, skip)
           x == NotRouted(routed)
           q == Fresh(x, k, skip)
           nowhere == Nowhere
<1>1. [r EXCEPT !.code = x] = q
  <2>1. r = Resp(code, 0, None, k, {}, no, None, skip, no) /\ q = Resp(x, 0, None, k, {}, no, None, skip, no)
    BY DEF Fresh
  <2> HIDE DEF no, r, q, x
  <2> QED
    BY <2>1 DEF Resp
<1>2. c = Conn(phase, method, url, target, found, r, no, NoAnswer)
  BY DEF Rests
<1>3. /\ Rests(phase, method, url, target, f, r, NoAnswer) = Conn(phase, method, url, target, f, r, no, NoAnswer)
      /\ Rests(phase, method, url, target, nowhere, q, NoAnswer) = Conn(phase, method, url, target, nowhere, q, no, NoAnswer)
  BY DEF Rests
<1> HIDE DEF f, no, r, q, x, c, nowhere
<1>4. c.res = r /\ c.method = method
  BY <1>2 DEF Conn
<1>5. HandleMethod(c, route, routed)
        = IF route.rule # 0 THEN [c EXCEPT !.found = f] ELSE [[c EXCEPT !.res.code = x] EXCEPT !.found = nowhere]
  BY <1>4, Zenon DEF HandleMethod, f, x, nowhere, Nowhere, Nothing
<1>6. [c EXCEPT !.found = f] = Conn(phase, method, url, target, f, r, no, NoAnswer)
  BY <1>2 DEF Conn
<1>7. [c EXCEPT !.res.code = x] = Conn(phase, method, url, target, found, q, no, NoAnswer)
  <2>1. [c EXCEPT !.res.code = x] = [c EXCEPT !.res = q]
    BY <1>1, <1>4
  <2>2. [c EXCEPT !.res = q] = Conn(phase, method, url, target, found, q, no, NoAnswer)
    BY <1>2 DEF Conn
  <2> QED
    BY <2>1, <2>2, Zenon
<1>8. [Conn(phase, method, url, target, found, q, no, NoAnswer) EXCEPT !.found = nowhere]
        = Conn(phase, method, url, target, nowhere, q, no, NoAnswer)
  BY DEF Conn
<1> QED
  BY <1>3, <1>5, <1>6, <1>7, <1>8, Zenon DEF c, f, q, x, r, nowhere

\* The handler for a method, once it is clear which method that is.
HandlerOf(method, url) ==
  IF Redirected(method, url) THEN [kind |-> "returns", code |-> 301, size |-> 0]
  ELSE IF FirstRule(method, url) # 0 THEN app.rules[FirstRule(method, url)].handler ELSE app.catchAll

\* What is found for a method is what is declared for it, and stands for its handler.
LEMMA FoundHandles ==
  ASSUME RouterServes, router.state = "serving", NEW m \in Methods, NEW url \in Seq(Symbols)
  PROVE  /\ Route(router.tables, m, url).rule # 0 <=> HasRoute(m, url)
         /\ HasRoute(m, url) => HandlesAs(Found(m, Route(router.tables, m, url)), HandlerOf(m, url))
<1> DEFINE route == Route(router.tables, m, url)
           first == FirstRule(m, url)
           f == Found(m, route)
<1>1. Finds(router.tables, m, url)
  BY ServingFinds
<1> HIDE DEF route, first
<1>2. /\ route.rule = 0 <=> ~Redirected(m, url) /\ first = 0
      /\ route.rule = RuleSpecialRedirectSlash <=> Redirected(m, url)
      /\ route.rule \notin {0, RuleSpecialRedirectSlash} =>
           first \in DOMAIN app.rules /\ RuleOf(router.tables[m], route.rule) = app.rules[first]
  BY <1>1, Zenon DEF Finds, route, first
<1>3. route.rule # 0 <=> HasRoute(m, url)
  BY <1>2, Zenon DEF HasRoute, first
<1>4. ASSUME HasRoute(m, url) PROVE HandlesAs(f, HandlerOf(m, url))
  <2>1. f.method = m /\ f.rule = route.rule /\ f.catchAll = FALSE
    BY DEF Found
  <2>2. CASE Redirected(m, url)
    <3>1. route.rule = RuleSpecialRedirectSlash /\ HandlerOf(m, url) = [kind |-> "returns", code |-> 301, size |-> 0]
      BY <1>2, <2>2, Zenon DEF HandlerOf
    <3> HIDE DEF f
    <3> QED
      BY <2>1, <3>1, Zenon DEF HandlesAs
  <2>3. CASE ~Redirected(m, url)
    <3>1. route.rule # RuleSpecialRedirectSlash /\ first # 0
      BY <1>2, <1>4, <2>3, Zenon DEF HasRoute, first
    <3>2. first \in DOMAIN app.rules /\ RuleOf(router.tables[m], route.rule) = app.rules[first]
      <4>1. route.rule \notin {0, RuleSpecialRedirectSlash}
        BY <1>2, <3>1
      <4> QED
        BY <1>2, <4>1, Zenon
    <3>3. IsHandler(app.rules[first].handler)
      <4>1. IsApp(app)
        BY AppsAssumption DEF RouterServes
      <4> QED
        BY <3>2, <4>1, Zenon DEF IsApp, IsRule
    <3>4. HandlerOf(m, url) = app.rules[first].handler
      BY <2>3, <3>1, Zenon DEF HandlerOf, first
    <3> HIDE DEF f
    <3> QED
      BY <2>1, <3>1, <3>2, <3>3, <3>4, Zenon DEF HandlesAs
  <2> QED
    BY <2>2, <2>3
<1> QED
  BY <1>3, <1>4 DEF route, f

\* The answer a target is given at once, and what a request waits with.
Refused(method, url, target, skip, code, allow) ==
  /\ conn' = Rests("closed", method, url, target, Nothing, Fresh(200, FALSE, FALSE), NoAnswer)
  /\ said' = WriteHeader(Ends(Told(code, allow, skip)), asked.keep)
  /\ \/ /\ method = "OPTIONS"
        /\ code = IF url = <<"/", "*">> \/ Routed(url) # {} THEN 204 ELSE 404
        /\ code = 204 /\ url # <<"/", "*">> => allow = {"OPTIONS", "HEAD"} \cup Routed(url)
     \/ method = "HEAD" /\ code = 404 /\ {"HEAD", "GET"} \cap Routed(url) = {}

Waits(method, url, target, found, code, keep, skip) ==
  /\ conn' = Rests("url", method, url, target, found, Fresh(code, keep, skip), NoAnswer)
  /\ said' = NoAnswer
  /\ method # "OPTIONS"
  /\ HandlesAs(found, HandlerFor(method, url))

\* A connection begins at rest, and one that is closed is as new but for what was asked.
LEMMA ClosedIs ==
  ASSUME NEW method, NEW url, NEW target
  PROVE  /\ NewConnection = Rests("idle", "none", <<>>, <<>>, Nothing, Fresh(200, FALSE, FALSE), NoAnswer)
         /\ [NewConnection EXCEPT !.phase = "closed", !.method = method, !.url = url, !.target = target]
              = Rests("closed", method, url, target, Nothing, Fresh(200, FALSE, FALSE), NoAnswer)
<1> DEFINE r == Fresh(200, FALSE, FALSE)
           n == Nothing
           no == FALSE
           c == Conn("idle", "none", <<>>, <<>>, n, r, no, NoAnswer)
<1>1. Response(200, 0) = r
  BY ReplacedIs, Zenon DEF Fresh
<1>2. NewConnection = c
  <2> HIDE DEF r
  <2> QED
    BY <1>1, Zenon DEF NewConnection, Conn, Nothing
<1> HIDE DEF r, n, no
<1>3. [c EXCEPT !.phase = "closed"] = Conn("closed", "none", <<>>, <<>>, n, r, no, NoAnswer)
  BY DEF Conn
<1>4. [Conn("closed", "none", <<>>, <<>>, n, r, no, NoAnswer) EXCEPT !.method = method]
        = Conn("closed", method, <<>>, <<>>, n, r, no, NoAnswer)
  BY DEF Conn
<1>5. [Conn("closed", method, <<>>, <<>>, n, r, no, NoAnswer) EXCEPT !.url = url] = Conn("closed", method, url, <<>>, n, r, no, NoAnswer)
  BY DEF Conn
<1>6. [Conn("closed", method, url, <<>>, n, r, no, NoAnswer) EXCEPT !.target = target]
        = Conn("closed", method, url, target, n, r, no, NoAnswer)
  BY DEF Conn
<1>7. [c EXCEPT !.phase = "closed", !.method = method, !.url = url, !.target = target]
        = [[[[c EXCEPT !.phase = "closed"] EXCEPT !.method = method] EXCEPT !.url = url] EXCEPT !.target = target]
  OBVIOUS
<1>8. [c EXCEPT !.phase = "closed", !.method = method, !.url = url, !.target = target]
        = Conn("closed", method, url, target, n, r, no, NoAnswer)
  BY <1>3, <1>4, <1>5, <1>6, <1>7, Zenon
<1> QED
  BY <1>2, <1>8, Zenon DEF Rests, n, r, no

\* The fields of a connection at rest.
LEMMA RestsIs ==
  ASSUME NEW phase, NEW method, NEW url, NEW target, NEW found, NEW res, NEW sent
  PROVE  /\ Rests(phase, method, url, target, found, res, sent).phase = phase
         /\ Rests(phase, method, url, target, found, res, sent).method = method
         /\ Rests(phase, method, url, target, found, res, sent).url = url
         /\ Rests(phase, method, url, target, found, res, sent).target = target
         /\ Rests(phase, method, url, target, found, res, sent).found = found
         /\ Rests(phase, method, url, target, found, res, sent).res = res
         /\ Rests(phase, method, url, target, found, res, sent).sent = sent
<1> DEFINE no == FALSE
           c == Conn(phase, method, url, target, found, res, no, sent)
<1>1. Rests(phase, method, url, target, found, res, sent) = c
  BY DEF Rests
<1> HIDE DEF no
<1>2. /\ c.phase = phase /\ c.method = method /\ c.url = url /\ c.target = target
      /\ c.found = found /\ c.res = res /\ c.sent = sent
  BY DEF Conn
<1> HIDE DEF c
<1> QED
  BY <1>1, <1>2, Zenon

\* What handle_url() leaves of what handle_initial() has found.
Turns(method, url, target, found, res) ==
  IF found.rule = 0 /\ ~found.catchAll
  THEN /\ conn' = Rests("closed", method, url, target, Nothing, Fresh(200, FALSE, FALSE), NoAnswer)
       /\ said' = WriteHeader(res, asked.keep)
  ELSE conn' = Rests("url", method, url, target, found, res, NoAnswer) /\ said' = NoAnswer

\* handle_url() answers at once and closes, or waits with what was found.
LEMMA UrlHandled ==
  ASSUME NEW phase, NEW method, NEW url, NEW target, NEW found, NEW res, NEW c,
         c.method = method, c.url = url, c.target = target,
         HandleInitial(c, router.tables) = Rests(phase, method, url, target, found, res, NoAnswer), HandleUrl(c)
  PROVE  Turns(method, url, target, found, res)
<1> DEFINE d == Rests(phase, method, url, target, found, res, NoAnswer)
           no == FALSE
           e == Conn(phase, method, url, target, found, res, no, NoAnswer)
<1>1. IF d.found.rule = 0 /\ ~d.found.catchAll
      THEN /\ conn' = [NewConnection EXCEPT !.phase = "closed", !.method = c.method, !.url = c.url, !.target = c.target]
           /\ said' = CompleteRequest(d, asked.keep).sent
      ELSE conn' = [d EXCEPT !.phase = "url"] /\ said' = NoAnswer
  <2> HIDE DEF d
  <2>1. HandleInitial(c, router.tables) = d
    BY DEF d
  <2> QED
    BY <2>1, Zenon DEF HandleUrl
<1>2. d.found = found
  BY RestsIs
<1>3. d = e
  BY DEF Rests
<1>4. CompleteRequest(d, asked.keep).sent = WriteHeader(res, asked.keep)
  <2> DEFINE keep == asked.keep
             left == Cleared(res.skip, res.manual)
  <2> HIDE DEF keep, no, d
  <2>1. CompleteRequest(e, keep) = Rests(phase, method, url, target, found, Cleared(res.skip, res.manual), WriteHeader(res, keep))
    BY CompletedIs
  <2>2. CompleteRequest(e, keep) = Rests(phase, method, url, target, found, left, WriteHeader(res, keep))
    BY <2>1, Zenon
  <2> HIDE DEF left, e
  <2>3. Rests(phase, method, url, target, found, left, WriteHeader(res, keep)).sent = WriteHeader(res, keep)
    BY RestsIs
  <2> QED
    BY <1>3, <2>2, <2>3, Zenon DEF keep
<1>5. [d EXCEPT !.phase = "url"] = Rests("url", method, url, target, found, res, NoAnswer)
  <2>1. Rests("url", method, url, target, found, res, NoAnswer) = Conn("url", method, url, target, found, res, no, NoAnswer)
    BY DEF Rests
  <2> HIDE DEF no, d
  <2>2. [e EXCEPT !.phase = "url"] = Conn("url", method, url, target, found, res, no, NoAnswer)
    BY DEF Conn
  <2> HIDE DEF e
  <2> QED
    BY <1>3, <2>1, <2>2, Zenon
<1>6. [NewConnection EXCEPT !.phase = "closed", !.method = method, !.url = url, !.target = target]
        = Rests("closed", method, url, target, Nothing, Fresh(200, FALSE, FALSE), NoAnswer)
  BY ClosedIs, Zenon
<1> HIDE DEF d
<1> QED
  BY <1>1, <1>2, <1>4, <1>5, <1>6, Zenon DEF Turns

\* The methods a target has are those the tables find a rule for.
LEMMA RoutedIs ==
  ASSUME RouterServes, router.state = "serving", NEW url \in Seq(Symbols)
  PROVE  RoutedMethods(router.tables, url) = Routed(url)
BY FoundHandles DEF RoutedMethods, Routed

\* Neither a rule nor the catch-all rule was found, or the catch-all rule was.
LEMMA NothingIs == Nothing.rule = 0 /\ Nothing.catchAll = FALSE /\ Nowhere.rule = 0 /\ Nowhere.catchAll = TRUE
<1>1. Nothing = [method |-> "none", rule |-> 0, catchAll |-> FALSE]
  BY DEF Nothing, Found, NotFound
<1> QED
  BY <1>1 DEF Nowhere

\* A request for OPTIONS is answered at once.
LEMMA OptionsRefused ==
  ASSUME RouterServes, router.state = "serving", NEW url \in Seq(Symbols),
         NEW phase, NEW target, NEW found, NEW code, NEW k, NEW skip, NEW c,
         c = Rests(phase, "OPTIONS", url, target, found, Fresh(code, k, skip), NoAnswer), HandleUrl(c)
  PROVE  \E x, allow : Refused("OPTIONS", url, target, skip, x, allow)
<1> DEFINE m == "OPTIONS"
           routed == Routed(url)
           allow == Allowed(router.tables, url, routed)
           ok == url = <<"/", "*">> \/ routed # {}
<1>1. c.method = m /\ c.url = url /\ c.target = target
  BY RestsIs
<1>2. HandleInitial(c, router.tables) = HandleOptions(c, router.tables, routed)
  BY <1>1, RoutedIs, Zenon DEF HandleInitial
<1>3. HandleOptions(c, router.tables, routed)
        = IF ok THEN Rests(phase, m, url, target, Nothing, Ends(Told(204, allow, skip)), NoAnswer)
          ELSE Rests(phase, m, url, target, Nothing, Ends(Told(404, {}, skip)), NoAnswer)
  BY HandleOptionsIs
<1> HIDE DEF m, routed
<1>4. ASSUME NEW x, NEW a, HandleInitial(c, router.tables) = Rests(phase, m, url, target, Nothing, Ends(Told(x, a, skip)), NoAnswer)
      PROVE  /\ conn' = Rests("closed", m, url, target, Nothing, Fresh(200, FALSE, FALSE), NoAnswer)
             /\ said' = WriteHeader(Ends(Told(x, a, skip)), asked.keep)
  <2> DEFINE res == Ends(Told(x, a, skip))
  <2>1. HandleInitial(c, router.tables) = Rests(phase, m, url, target, Nothing, res, NoAnswer)
    BY <1>4
  <2> HIDE DEF res
  <2>2. Turns(m, url, target, Nothing, res)
    BY <1>1, <2>1, UrlHandled
  <2> QED
    BY <2>2, NothingIs, Zenon DEF res, Turns
<1>5. CASE ok
  <2>1. /\ conn' = Rests("closed", m, url, target, Nothing, Fresh(200, FALSE, FALSE), NoAnswer)
        /\ said' = WriteHeader(Ends(Told(204, allow, skip)), asked.keep)
    BY <1>2, <1>3, <1>4, <1>5, Zenon
  <2>2. url # <<"/", "*">> => allow = {"OPTIONS", "HEAD"} \cup routed
    BY DEF Allowed
  <2> HIDE DEF allow
  <2>3. 204 = IF ok THEN 204 ELSE 404
    BY <1>5, Zenon
  <2>4. Refused(m, url, target, skip, 204, allow)
    BY <2>1, <2>2, <2>3, Zenon DEF Refused, m, routed
  <2> QED
    BY <2>4, Zenon DEF m
<1>6. CASE ~ok
  <2>1. /\ conn' = Rests("closed", m, url, target, Nothing, Fresh(200, FALSE, FALSE), NoAnswer)
        /\ said' = WriteHeader(Ends(Told(404, {}, skip)), asked.keep)
    BY <1>2, <1>3, <1>4, <1>6, Zenon
  <2>2. 404 # 204
    OBVIOUS
  <2>3. 404 = IF ok THEN 204 ELSE 404
    BY <1>6, Zenon
  <2>4. Refused(m, url, target, skip, 404, {})
    BY <2>1, <2>2, <2>3, Zenon DEF Refused, m, routed
  <2> QED
    BY <2>4, Zenon DEF m
<1> QED
  BY <1>5, <1>6

\* A request for HEAD finds a rule for it or for GET, or is answered at once.
HeadTurns(url, target, code, keep, skip) ==
  IF {"HEAD", "GET"} \cap Routed(url) = {} THEN \E x, allow : Refused("HEAD", url, target, skip, x, allow)
  ELSE \E f : Waits("HEAD", url, target, f, code, keep, TRUE)

\* HEAD is refused if neither it nor GET has a rule, and waits for its rule otherwise.
LEMMA HeadIs ==
  ASSUME RouterServes, router.state = "serving", NEW url \in Seq(Symbols),
         NEW phase, NEW target, NEW found, NEW code, NEW k, NEW skip, NEW c,
         c = Rests(phase, "HEAD", url, target, found, Fresh(code, k, skip), NoAnswer), HandleUrl(c)
  PROVE  HeadTurns(url, target, code, k, skip)
<1> DEFINE m == "HEAD"
           own == Route(router.tables, "HEAD", url)
           get == Route(router.tables, "GET", url)
           f == HeadFound(own, get)
           res == Ends(Told(404, {}, skip))
           q == Skipping(code, k)
<1>1. c.method = m /\ c.url = url /\ c.target = target
  BY RestsIs
<1>2. HandleInitial(c, router.tables) = HandleHead(c, own, get)
  BY <1>1 DEF HandleInitial
<1>3. /\ own.rule # 0 <=> HasRoute("HEAD", url)
      /\ get.rule # 0 <=> HasRoute("GET", url)
      /\ HasRoute("HEAD", url) => HandlesAs(Found("HEAD", own), HandlerOf("HEAD", url))
      /\ HasRoute("GET", url) => HandlesAs(Found("GET", get), HandlerOf("GET", url))
  BY FoundHandles, MethodsAssumption
<1>4. {"HEAD", "GET"} \cap Routed(url) = {} <=> ~HasRoute("HEAD", url) /\ ~HasRoute("GET", url)
  BY MethodsAssumption DEF Routed
<1>5. HandleHead(c, own, get)
        = IF own.rule = 0 /\ get.rule = 0 THEN Rests(phase, m, url, target, Nothing, res, NoAnswer)
          ELSE Rests(phase, m, url, target, f, q, NoAnswer)
  <2> HIDE DEF own, get
  <2> QED
    BY HandleHeadIs
<1> HIDE DEF m, own, get, res, q
<1>6. CASE own.rule = 0 /\ get.rule = 0
  <2>1. HandleInitial(c, router.tables) = Rests(phase, m, url, target, Nothing, res, NoAnswer)
    BY <1>2, <1>5, <1>6, Zenon
  <2>2. Turns(m, url, target, Nothing, res)
    BY <1>1, <2>1, UrlHandled
  <2>3. {"HEAD", "GET"} \cap Routed(url) = {}
    BY <1>3, <1>4, <1>6
  <2>4. Refused("HEAD", url, target, skip, 404, {})
    <3>1. /\ conn' = Rests("closed", m, url, target, Nothing, Fresh(200, FALSE, FALSE), NoAnswer)
          /\ said' = WriteHeader(Ends(Told(404, {}, skip)), asked.keep)
      BY <2>2, NothingIs, Zenon DEF Turns, res
    <3> QED
      BY <2>3, <3>1, Zenon DEF Refused, m
  <2> QED
    BY <2>3, <2>4, Zenon DEF HeadTurns
<1>7. CASE ~(own.rule = 0 /\ get.rule = 0)
  <2>1. HandleInitial(c, router.tables) = Rests(phase, m, url, target, f, q, NoAnswer)
    BY <1>2, <1>5, <1>7, Zenon
  <2>2. f.rule # 0
    <3>1. Found("GET", get).rule = get.rule /\ Found("HEAD", own).rule = own.rule
      BY DEF Found
    <3> QED
      BY <1>7, <3>1, Zenon DEF HeadFound
  <2>3. HandlesAs(f, HandlerFor("HEAD", url))
    <3>1. CASE HasRoute("HEAD", url)
      <4>1. f = Found("HEAD", own)
        BY <1>3, <3>1, Zenon DEF HeadFound
      <4>2. HandlerFor("HEAD", url) = HandlerOf("HEAD", url)
        BY <3>1, Zenon DEF HandlerFor, HandlerOf
      <4> QED
        BY <1>3, <3>1, <4>1, <4>2, Zenon
    <3>2. CASE ~HasRoute("HEAD", url)
      <4>1. f = Found("GET", get) /\ HasRoute("GET", url)
        BY <1>3, <1>7, <3>2, Zenon DEF HeadFound
      <4>2. HandlerFor("HEAD", url) = HandlerOf("GET", url)
        BY <3>2, Zenon DEF HandlerFor, HandlerOf
      <4> QED
        BY <1>3, <4>1, <4>2, Zenon
    <3> QED
      BY <3>1, <3>2
  <2> HIDE DEF f
  <2>4. Turns(m, url, target, f, q)
    BY <1>1, <2>1, UrlHandled
  <2>5. {"HEAD", "GET"} \cap Routed(url) # {}
    BY <1>3, <1>4, <1>7
  <2>6. "HEAD" # "OPTIONS"
    OBVIOUS
  <2>7. Waits("HEAD", url, target, f, code, k, TRUE)
    BY <2>2, <2>3, <2>4, <2>6, Zenon DEF Turns, Waits, m, q, Skipping
  <2> QED
    BY <2>5, <2>7, Zenon DEF HeadTurns
<1> QED
  BY <1>6, <1>7

\* Any other request finds a rule or the catch-all handler, and with it the code of what is missing.
LEMMA MethodIs ==
  ASSUME RouterServes, router.state = "serving", NEW m \in Methods \ {"HEAD", "OPTIONS"}, NEW url \in Seq(Symbols),
         NEW phase, NEW target, NEW found, NEW code, NEW k, NEW skip, NEW c,
         c = Rests(phase, m, url, target, found, Fresh(code, k, skip), NoAnswer), HandleUrl(c)
  PROVE  \E f : Waits(m, url, target, f, IF m \in Routed(url) THEN code ELSE NotRouted(Routed(url)), k, skip)
<1> DEFINE route == Route(router.tables, m, url)
           routed == Routed(url)
           f == IF route.rule # 0 THEN Found(m, route) ELSE Nowhere
           x == IF m \in routed THEN code ELSE NotRouted(routed)
           q == Fresh(x, k, skip)
<1>1. c.method = m /\ c.url = url /\ c.target = target
  BY RestsIs
<1>2. HandleInitial(c, router.tables) = HandleMethod(c, route, routed)
  BY <1>1, RoutedIs, Zenon DEF HandleInitial
<1>3. /\ route.rule # 0 <=> HasRoute(m, url)
      /\ HasRoute(m, url) => HandlesAs(Found(m, route), HandlerOf(m, url))
  BY FoundHandles
<1>4. m \in routed <=> HasRoute(m, url)
  BY DEF Routed
<1>5. HandleMethod(c, route, routed)
        = IF route.rule # 0 THEN Rests(phase, m, url, target, Found(m, route), Fresh(code, k, skip), NoAnswer)
          ELSE Rests(phase, m, url, target, Nowhere, Fresh(NotRouted(routed), k, skip), NoAnswer)
  <2> HIDE DEF route, routed
  <2> QED
    BY HandleMethodIs
<1> HIDE DEF route, routed
<1>6. HandleInitial(c, router.tables) = Rests(phase, m, url, target, f, q, NoAnswer)
  BY <1>2, <1>3, <1>4, <1>5, Zenon
<1>7. ~(f.rule = 0 /\ ~f.catchAll)
  <2>1. Found(m, route).rule = route.rule
    BY DEF Found
  <2> QED
    BY <2>1, NothingIs, Zenon
<1>8. HandlerFor(m, url) = HandlerOf(m, url)
  <2>1. m # "HEAD"
    OBVIOUS
  <2> QED
    BY <2>1, Zenon DEF HandlerFor, HandlerOf
<1>9. HandlesAs(f, HandlerFor(m, url))
  <2>1. CASE HasRoute(m, url)
    <3>1. f = Found(m, route)
      BY <1>3, <2>1, Zenon
    <3> QED
      BY <1>3, <1>8, <2>1, <3>1, Zenon
  <2>2. CASE ~HasRoute(m, url)
    <3>1. f = Nowhere
      BY <1>3, <2>2, Zenon
    <3>2. HandlerOf(m, url) = app.catchAll
      BY <2>2, Zenon DEF HandlerOf, HasRoute
    <3> QED
      BY <1>8, <3>1, <3>2, NothingIs, Zenon DEF HandlesAs
  <2> QED
    BY <2>1, <2>2
<1> HIDE DEF f
<1>10. Waits(m, url, target, f, x, k, skip)
  <2> DEFINE r == q
  <2> HIDE DEF r
  <2>1. Turns(m, url, target, f, r)
    BY <1>1, <1>6, UrlHandled DEF r
  <2>2. m # "OPTIONS"
    OBVIOUS
  <2> HIDE DEF x
  <2> QED
    BY <1>7, <1>9, <2>1, <2>2, Zenon DEF Turns, Waits, r
<1> QED
  BY <1>10 DEF routed

-----------------------------------------------------------------------------
(* What holds between two requests and between a target and its answer. *)

\* A request whose target is known, or a piece of it, and whose answer is not:
\* the response is fresh but for what HEAD, the last request or a missing rule left in it.
AtUrl(code, keep, skip) ==
  /\ said = NoAnswer
  /\ conn.method \in Methods \ {"OPTIONS"} /\ conn.url \in Seq(Symbols) /\ conn.target \in Seq(Symbols)
  /\ asked.whole => conn.url = conn.target
  /\ HandlesAs(conn.found, HandlerFor(conn.method, conn.url))
  /\ conn.method = "HEAD" => skip /\ {"HEAD", "GET"} \cap Routed(conn.url) # {}
  /\ skip => asked.probed \/ conn.method = "HEAD"
  /\ keep => asked.kept
  /\ asked.whole /\ ~asked.expect =>
       code = IF conn.method \in Routed(conn.url) \cup {"HEAD"} THEN 200 ELSE NotRouted(Routed(conn.url))

Stands(code, keep, skip) ==
  /\ conn = Rests(conn.phase, conn.method, conn.url, conn.target, conn.found, Fresh(code, keep, skip), NoAnswer)
  /\ \/ conn.phase = "closed"
     \/ conn.phase = "idle" /\ code = 200 /\ (keep => asked.keep) /\ (skip => asked.probed)
     \/ conn.phase = "url" /\ AtUrl(code, keep, skip)

Fine == \E code \in {200, 404, 405}, keep, skip \in BOOLEAN : Stands(code, keep, skip)

AskedType ==
  [whole : BOOLEAN, expect : BOOLEAN, host : BOOLEAN, keep : BOOLEAN, kept : BOOLEAN, probed : BOOLEAN, caught : BOOLEAN]

\* The inductive invariant: nothing happens before the router serves, and until a
\* catch-all handler's answer is ended twice, every response begins fresh.
Answering ==
  /\ RouterServes
  /\ asked \in AskedType
  /\ router.state # "serving" => conn = NewConnection /\ said = NoAnswer
  /\ router.state = "serving" /\ ~asked.caught => Fine
  /\ AnswersAreRouted /\ AnswersAreFramed

\* While the application stays as it is, so does what its rules say.
LEMMA AppSame ==
  ASSUME app' = app, router' = router
  PROVE  /\ \A u : Routed(u)' = Routed(u)
         /\ \A m, u : HandlerFor(m, u)' = HandlerFor(m, u)
         /\ \A m, u : Replaces(m, u)' <=> Replaces(m, u)
         /\ \A m, u : CodeOf(m, u)' = CodeOf(m, u)
         /\ \A u : {m \in Methods : HasRoute(m, u)}' = Routed(u)
         /\ \A f, h : HandlesAs(f, h)' <=> HandlesAs(f, h)
<1>1. \A m, u : FirstRule(m, u)' = FirstRule(m, u)
  BY DEF FirstRule, SelectInSeq
<1>2. \A m, u : Redirected(m, u)' <=> Redirected(m, u)
  BY DEF Redirected, RulesFor
<1>3. \A m, u : HasRoute(m, u)' <=> HasRoute(m, u)
  BY <1>1, <1>2 DEF HasRoute
<1>4. \A m, u : HandlerFor(m, u)' = HandlerFor(m, u)
  BY <1>1, <1>2, <1>3 DEF HandlerFor
<1>5. ASSUME NEW u PROVE {m \in Methods : HasRoute(m, u)}' = {m \in Methods : HasRoute(m, u)}
  BY <1>3
<1>6. \A m, u : CodeOf(m, u)' = CodeOf(m, u)
  BY <1>4, <1>5, Zenon DEF CodeOf
<1>7. \A f, h : HandlesAs(f, h)' <=> HandlesAs(f, h)
  BY DEF HandlesAs
<1>8. \A u : Routed(u)' = Routed(u) /\ {m \in Methods : HasRoute(m, u)}' = Routed(u)
  BY <1>5, Zenon DEF Routed
<1>9. \A m, u : Replaces(m, u)' <=> Replaces(m, u)
  BY <1>4, Zenon DEF Replaces
<1> QED
  BY <1>4, <1>6, <1>7, <1>8, <1>9, Zenon

\* A connection that is new has a fresh response.
LEMMA NewIsFine ==
  ASSUME conn' = NewConnection
  PROVE  Fine'
<1> DEFINE no == FALSE
           r == Fresh(200, no, no)
<1>1. conn' = Rests("idle", "none", <<>>, <<>>, Nothing, r, NoAnswer)
  BY ClosedIs, Zenon
<1>2. no \in BOOLEAN /\ ~no
  OBVIOUS
<1> HIDE DEF no
<1>3. Stands(200, no, no)'
  <2> HIDE DEF r
  <2>1. /\ conn'.phase = "idle" /\ conn'.method = "none" /\ conn'.url = <<>> /\ conn'.target = <<>>
        /\ conn'.found = Nothing
    BY <1>1, RestsIs
  <2>2. conn' = Rests(conn'.phase, conn'.method, conn'.url, conn'.target, conn'.found, r, NoAnswer)
    BY <1>1, <2>1, Zenon
  <2> QED
    BY <1>2, <2>1, <2>2, Zenon DEF Stands, r
<1> QED
  BY <1>2, <1>3 DEF Fine

\* What the router says at once.
ToldAs(code, allow, skip, keep) == WriteHeader(Ends(Told(code, allow, skip)), keep)

Tell(a, code, allow, skip, keep) ==
  a.code = code /\ a.allow = allow /\ (skip = FALSE => a.length = a.bytes) /\ (a.keep = TRUE <=> keep = TRUE)

\* An answer that is given at once says its code, what is allowed, its length, and
\* Keep-Alive if the request before did.
LEMMA ToldSaid ==
  ASSUME NEW code \in {204, 404}, NEW allow, NEW skip \in BOOLEAN, NEW keep \in BOOLEAN
  PROVE  Tell(ToldAs(code, allow, skip, keep), code, allow, skip, keep)
<1> DEFINE no == FALSE
           r == Told(code, allow, skip)
           a == WriteHeader(Ends(r), keep)
<1>1. r = Resp(code, 0, None, no, allow, FALSE, None, skip, FALSE) /\ no \in BOOLEAN /\ ~no
  BY DEF Told
<1>2. Known(code) = code
  BY DEF Known, StatusCodes
<1> HIDE DEF no, r
<1>3. Says(a, code, None, no, allow, None, skip, keep)
  <2> DEFINE n == None
  <2> HIDE DEF n
  <2>1. Open(r, code, 0, n, no, allow, n, skip)
    BY <1>1, Zenon DEF Open, n
  <2>2. Known(code) \in Nat
    BY <1>2
  <2>3. no \in BOOLEAN
    BY <1>1
  <2> HIDE DEF n
  <2>4. Says(WriteHeader(Ends(r), keep), code, n, no, allow, n, skip, keep)
    BY <2>1, <2>2, <2>3, SaidIs
  <2> QED
    BY <2>4, Zenon DEF n
<1>4. /\ a.code = Known(code) /\ a.allow = allow /\ (skip = FALSE => a.length = a.bytes)
      /\ a.keep = TRUE <=> keep = TRUE
  <2> HIDE DEF a
  <2> QED
    BY <1>1, <1>3 DEF Says
<1> QED
  BY <1>2, <1>4, Zenon DEF no, r, ToldAs, Tell

\* And what is said without a host.
Turned(a, keep) == a.code = 400 /\ a.length = a.bytes /\ (a.keep <=> keep)

\* 400 says its length, and Keep-Alive only if it was asked to.
LEMMA RefusalSaid ==
  ASSUME NEW skip, NEW keep \in BOOLEAN
  PROVE  Turned(WriteHeader(Told(400, {}, skip), keep), keep)
<1> DEFINE no == FALSE
           r == Told(400, {}, skip)
           b == IF Known(r.code) >= 400 /\ r.body = 0 THEN StatusText ELSE r.body
           a == WriteHeader(r, keep)
<1>1. r = Resp(400, 0, None, no, {}, no, None, skip, no) /\ ~no
  BY DEF Told
<1> HIDE DEF no, r
<1>2. /\ r.code = 400 /\ r.body = 0 /\ r.length = None /\ r.keep = no
      /\ r.file = None /\ r.manual = no
  BY <1>1 DEF Resp
<1>3. /\ a.code = Known(r.code) /\ a.length = (IF ~r.manual /\ r.length = None THEN b ELSE r.length)
      /\ a.bytes = (IF r.file # None THEN r.file ELSE b) /\ a.keep = (keep \/ r.keep)
  BY DEF WriteHeader, Known
<1>4. Known(r.code) = 400 /\ b = StatusText
  BY <1>2 DEF Known, StatusCodes
<1> HIDE DEF a, b
<1> QED
  BY <1>1, <1>2, <1>3, <1>4 DEF a, r, Turned

\* A body is skipped for HEAD, or for what a HEAD without a host has left.
Skips(m, skip) == skip = TRUE => asked'.probed \/ m = "HEAD"

\* Whether the request before asked for Keep-Alive is not lost while the next is read.
Keeps == asked.keep \in BOOLEAN /\ asked'.keep = asked.keep

\* A target that is answered at once closes the connection, with the code it should.
LEMMA RefusedIsRight ==
  ASSUME app' = app, router' = router, NEW m, NEW url, NEW t, NEW skip \in BOOLEAN, NEW x, NEW allow,
         Refused(m, url, t, skip, x, allow), Skips(m, skip), Keeps
  PROVE  Fine' /\ AnswersAreRouted' /\ AnswersAreFramed'
<1>1. conn' = Rests("closed", m, url, t, Nothing, Fresh(200, FALSE, FALSE), NoAnswer)
  BY DEF Refused
<1>2. /\ conn'.phase = "closed" /\ conn'.method = m /\ conn'.url = url /\ conn'.target = t
      /\ conn'.found = Nothing
  <2> DEFINE r == Fresh(200, FALSE, FALSE)
  <2> HIDE DEF r
  <2>1. conn' = Rests("closed", m, url, t, Nothing, r, NoAnswer)
    BY <1>1, Zenon DEF r
  <2> QED
    BY <2>1, RestsIs
<1>3. x \in {204, 404} /\ m \in {"HEAD", "OPTIONS"}
  BY Zenon DEF Refused
<1>4. /\ said'.code = x /\ said'.allow = allow /\ (~skip => said'.length = said'.bytes)
      /\ said'.keep = TRUE <=> asked'.keep = TRUE
  <2> DEFINE keep == asked.keep
  <2>1. said' = ToldAs(x, allow, skip, keep)
    BY Zenon DEF Refused, ToldAs
  <2>2. x \in {204, 404} /\ keep \in BOOLEAN /\ asked'.keep = keep
    BY <1>3 DEF Keeps
  <2> HIDE DEF keep
  <2>3. Tell(ToldAs(x, allow, skip, keep), x, allow, skip, keep)
    BY <2>2, ToldSaid
  <2> QED
    BY <2>1, <2>2, <2>3 DEF Tell
<1>5. Fine'
  <2> DEFINE no == FALSE
  <2>1. no \in BOOLEAN
    OBVIOUS
  <2> HIDE DEF no
  <2>2. Stands(200, no, no)'
    BY <1>1, <1>2, Zenon DEF Stands, no
  <2> QED
    BY <2>1, <2>2 DEF Fine
<1>6. /\ x = CodeOf(m, url)
      /\ m = "OPTIONS" /\ x = 204 /\ url # <<"/", "*">> => allow = {"OPTIONS", "HEAD"} \cup Routed(url)
  <2>1. CodeOf(m, url) = CodeBy(HandlerFor(m, url), m, url, Routed(url))
    BY Zenon DEF CodeOf, Routed
  <2> DEFINE routed == Routed(url)
  <2> HIDE DEF routed
  <2>2. CASE m = "OPTIONS"
    <3>1. /\ x = IF url = <<"/", "*">> \/ routed # {} THEN 204 ELSE 404
          /\ x = 204 /\ url # <<"/", "*">> => allow = {"OPTIONS", "HEAD"} \cup routed
      BY <2>2 DEF Refused, routed
    <3>2. \A h : CodeBy(h, m, url, routed) = x
      BY <2>2, <3>1, Zenon DEF CodeBy
    <3> QED
      BY <2>1, <3>1, <3>2, Zenon DEF routed
  <2>3. CASE m = "HEAD"
    <3>1. x = 404 /\ {"HEAD", "GET"} \cap routed = {} /\ m # "OPTIONS"
      BY <2>3 DEF Refused, routed
    <3>2. \A h : CodeBy(h, m, url, routed) = x
      BY <2>3, <3>1, Zenon DEF CodeBy
    <3> QED
      BY <2>1, <3>1, <3>2, Zenon DEF routed
  <2> QED
    BY <1>3, <2>2, <2>3
<1>7. AnswersAreRouted'
  <2>1. CodeOf(m, url)' = x
    BY <1>6, AppSame, Zenon
  <2>2. {n \in Methods : HasRoute(n, url)}' = Routed(url)
    BY AppSame, Zenon
  <2>3. CodeOf(conn.method, conn.url)' = x /\ {n \in Methods : HasRoute(n, conn.url)}' = Routed(url)
    BY <1>2, <2>1, <2>2
  <2> QED
    BY <1>2, <1>3, <1>4, <1>6, <2>3 DEF AnswersAreRouted
<1>8. AnswersAreFramed'
  <2>1. ASSUME ~asked'.probed, m # "HEAD" PROVE said'.length = said'.bytes
    BY <1>4, <2>1 DEF Skips
  <2>2. said'.keep = TRUE <=> asked'.keep = TRUE
    BY <1>4
  <2> QED
    BY <1>2, <2>1, <2>2 DEF AnswersAreFramed
<1> QED
  BY <1>5, <1>7, <1>8

\* A request that waits has what its target finds.
Goes(m, url, t, f, x, k, s) ==
  /\ m \in Methods /\ url \in Seq(Symbols) /\ t \in Seq(Symbols)
  /\ x \in {200, 404, 405} /\ k \in BOOLEAN /\ s \in BOOLEAN
  /\ Waits(m, url, t, f, x, k, s)
  /\ asked'.whole => url = t
  /\ m = "HEAD" => s = TRUE /\ {"HEAD", "GET"} \cap Routed(url) # {}
  /\ Skips(m, s)
  /\ k = TRUE => asked'.kept
  /\ asked'.whole /\ ~asked'.expect => x = IF m \in Routed(url) \cup {"HEAD"} THEN 200 ELSE NotRouted(Routed(url))

Right == Fine' /\ AnswersAreRouted' /\ AnswersAreFramed'

\* A target that waits for the rest of its request begins with a fresh response.
LEMMA WaitsIsFine ==
  ASSUME app' = app, router' = router, NEW m, NEW url, NEW t, NEW f, NEW x, NEW k, NEW s, Goes(m, url, t, f, x, k, s)
  PROVE  Right
<1>0. /\ m \in Methods /\ url \in Seq(Symbols) /\ t \in Seq(Symbols)
      /\ x \in {200, 404, 405} /\ k \in BOOLEAN /\ s \in BOOLEAN
      /\ Waits(m, url, t, f, x, k, s)
  BY Zenon DEF Goes
<1>1. /\ conn' = Rests("url", m, url, t, f, Fresh(x, k, s), NoAnswer) /\ said' = NoAnswer /\ m # "OPTIONS"
      /\ HandlesAs(f, HandlerFor(m, url))
  BY <1>0 DEF Waits
<1>2. conn'.phase = "url" /\ conn'.method = m /\ conn'.url = url /\ conn'.target = t /\ conn'.found = f
  <2> DEFINE r == Fresh(x, k, s)
  <2> HIDE DEF r
  <2>1. conn' = Rests("url", m, url, t, f, r, NoAnswer)
    BY <1>1, Zenon DEF r
  <2> QED
    BY <2>1, RestsIs
<1>3. Routed(conn.url)' = Routed(url) /\ HandlesAs(conn.found, HandlerFor(conn.method, conn.url))'
  <2>1. HandlerFor(m, url)' = HandlerFor(m, url) /\ Routed(url)' = Routed(url)
    BY AppSame, Zenon
  <2>2. HandlesAs(f, HandlerFor(m, url))'
    BY <1>1, <2>1, AppSame, Zenon
  <2> QED
    BY <1>2, <2>1, <2>2, Zenon
<1>4. AtUrl(x, k, s)'
  <2> DEFINE routed == Routed(url)
  <2>1. Routed(conn.url)' = routed
    BY <1>3
  <2> HIDE DEF routed
  <2>2. asked'.whole /\ ~asked'.expect => x = IF m \in routed \cup {"HEAD"} THEN 200 ELSE NotRouted(routed)
    BY DEF routed, Goes
  <2>3. m = "HEAD" => s /\ {"HEAD", "GET"} \cap routed # {}
    BY DEF routed, Goes
  <2>4. (s => asked'.probed \/ m = "HEAD") /\ (k => asked'.kept)
    BY <1>0 DEF Goes, Skips
  <2>5. m \in Methods \ {"OPTIONS"}
    BY <1>0, <1>1
  <2>6. /\ said' = NoAnswer /\ conn'.method \in Methods \ {"OPTIONS"} /\ conn'.url \in Seq(Symbols)
        /\ conn'.target \in Seq(Symbols) /\ (asked'.whole => conn'.url = conn'.target)
    BY <1>0, <1>1, <1>2, <2>5 DEF Goes
  <2>7. /\ conn'.method = "HEAD" => s /\ {"HEAD", "GET"} \cap Routed(conn.url)' # {}
        /\ s => asked'.probed \/ conn'.method = "HEAD"
        /\ k => asked'.kept
    BY <1>2, <2>1, <2>3, <2>4, Zenon
  <2>8. asked'.whole /\ ~asked'.expect =>
          x = IF conn'.method \in Routed(conn.url)' \cup {"HEAD"} THEN 200 ELSE NotRouted(Routed(conn.url)')
    BY <1>2, <2>1, <2>2, Zenon
  <2> QED
    BY <1>3, <2>6, <2>7, <2>8 DEF AtUrl, NotRouted
<1>5. Stands(x, k, s)'
  BY <1>1, <1>2, <1>4, Zenon DEF Stands
<1>6. Fine'
  BY <1>0, <1>5 DEF Fine
<1>7. AnswersAreRouted' /\ AnswersAreFramed'
  BY <1>1 DEF AnswersAreRouted, AnswersAreFramed
<1> QED
  BY <1>6, <1>7 DEF Right

\* What a target brings: a request that is read at once begins with a fresh response.
Given(m, url, t, code, k, skip) ==
  /\ m \in Methods /\ url \in Seq(Symbols) /\ t \in Seq(Symbols)
  /\ code \in {200, 404, 405} /\ k \in BOOLEAN /\ skip \in BOOLEAN
  /\ asked'.whole => url = t /\ code = 200
  /\ k = TRUE => asked'.kept
  /\ Skips(m, skip) /\ Keeps

\* handle_url(): the target is answered at once, or waits with what it finds.
LEMMA UrlIsFine ==
  ASSUME RouterServes, router.state = "serving", app' = app, router' = router,
         NEW m, NEW url, NEW t, NEW phase, NEW found, NEW code, NEW k, NEW skip, Given(m, url, t, code, k, skip),
         NEW c, c = Rests(phase, m, url, t, found, Fresh(code, k, skip), NoAnswer), HandleUrl(c)
  PROVE  Right
<1>0. /\ m \in Methods /\ url \in Seq(Symbols) /\ t \in Seq(Symbols)
      /\ code \in {200, 404, 405} /\ k \in BOOLEAN /\ skip \in BOOLEAN
  BY Zenon DEF Given
<1>1. ASSUME NEW x, NEW allow, Refused(m, url, t, skip, x, allow)
      PROVE  Right
  <2>1. Skips(m, skip) /\ Keeps
    BY Zenon DEF Given
  <2> QED
    BY <1>0, <1>1, <2>1, RefusedIsRight DEF Right
<1>2. ASSUME NEW f, NEW x, NEW s, Goes(m, url, t, f, x, k, s)
      PROVE  Right
  BY <1>2, WaitsIsFine, Zenon
<1>3. CASE m = "OPTIONS"
  <2>1. \E x, allow : Refused("OPTIONS", url, t, skip, x, allow)
    BY <1>0, <1>3, OptionsRefused
  <2> QED
    BY <1>1, <1>3, <2>1
<1>4. CASE m = "HEAD"
  <2>0. HeadTurns(url, t, code, k, skip)
    BY <1>0, <1>4, HeadIs
  <2>1. IF {"HEAD", "GET"} \cap Routed(url) = {} THEN \E x, allow : Refused("HEAD", url, t, skip, x, allow)
        ELSE \E f : Waits("HEAD", url, t, f, code, k, TRUE)
    BY <2>0 DEF HeadTurns
  <2>2. CASE {"HEAD", "GET"} \cap Routed(url) = {}
    BY <1>1, <1>4, <2>1, <2>2
  <2>3. CASE {"HEAD", "GET"} \cap Routed(url) # {}
    <3> DEFINE yes == TRUE
               routed == Routed(url)
    <3>1. PICK f : Waits(m, url, t, f, code, k, yes)
      BY <1>4, <2>1, <2>3
    <3>2. yes \in BOOLEAN
      OBVIOUS
    <3>3. Goes(m, url, t, f, code, k, yes)
      <4>1. {"HEAD", "GET"} \cap routed # {}
        BY <2>3
      <4> HIDE DEF routed
      <4>2. asked'.whole /\ ~asked'.expect => code = IF m \in routed \cup {"HEAD"} THEN 200 ELSE NotRouted(routed)
        BY <1>4 DEF Given
      <4> QED
        BY <1>0, <1>4, <3>1, <3>2, <4>1, <4>2 DEF Given, Goes, Skips, routed
    <3> HIDE DEF yes
    <3> QED
      BY <1>2, <3>3, Zenon
  <2> QED
    BY <2>2, <2>3
<1>5. CASE m \notin {"HEAD", "OPTIONS"}
  <2> DEFINE routed == Routed(url)
             x == IF m \in routed THEN code ELSE NotRouted(routed)
  <2>1. PICK f : Waits(m, url, t, f, x, k, skip)
    <3>1. m \in Methods \ {"HEAD", "OPTIONS"}
      BY <1>0, <1>5
    <3>2. \E f : Waits(m, url, t, f, x, k, skip)
      BY <1>0, <3>1, MethodIs
    <3> QED
      BY <3>2
  <2> HIDE DEF routed
  <2>2. x \in {200, 404, 405}
    BY <1>0 DEF NotRouted
  <2>3. Goes(m, url, t, f, x, k, skip)
    <3>1. asked'.whole /\ ~asked'.expect => x = IF m \in routed \cup {"HEAD"} THEN 200 ELSE NotRouted(routed)
      BY <1>5 DEF Given
    <3> HIDE DEF x
    <3> QED
      BY <1>0, <1>5, <2>1, <2>2, <3>1 DEF Given, Goes, routed
  <2> HIDE DEF x
  <2> QED
    BY <1>2, <2>3, Zenon
<1> QED
  BY <1>3, <1>4, <1>5

-----------------------------------------------------------------------------
(* The steps of a connection. *)

\* What remains to be shown of a step that leaves the router as it is.
LEMMA StepKeeps ==
  ASSUME Answering, RouterServes', router' = router, asked' \in AskedType,
         router.state # "serving" => conn' = NewConnection /\ said' = NoAnswer,
         ~asked'.caught => Right
  PROVE  Answering'
<1>1. CASE asked'.caught
  BY <1>1 DEF Answering, AnswersAreRouted, AnswersAreFramed
<1>2. CASE ~asked'.caught
  BY <1>2 DEF Answering, Right
<1> QED
  BY <1>1, <1>2

\* A connection begins idle.
LEMMA NewIs == NewConnection.phase = "idle"
BY DEF NewConnection

\* Where a connection stands, if no catch-all handler's answer was ended twice.
LEMMA StandsIs ==
  ASSUME Answering, router.state = "serving", ~asked.caught
  PROVE  \E code \in {200, 404, 405}, keep, skip \in BOOLEAN : Stands(code, keep, skip)
BY DEF Answering, Fine

\* Reading a request line keeps the invariant.
LEMMA RequestLineKeeps ==
  ASSUME Answering, RequestLine, RouterServes'
  PROVE  Answering'
<1>1. router.state = "serving" /\ conn.phase = "idle" /\ app' = app /\ router' = router
  BY DEF RequestLine
<1>0. PICK q \in app.requests : \E j \in 1 .. Len(q.url) :
        /\ HandleUrl([conn EXCEPT !.method = q.method, !.url = SubSeq(q.url, 1, j), !.target = q.url])
        /\ asked' = [asked EXCEPT !.whole = (j = Len(q.url)), !.expect = FALSE, !.kept = asked.keep]
  BY DEF RequestLine
<1>2. PICK j \in 1 .. Len(q.url) :
        /\ HandleUrl([conn EXCEPT !.method = q.method, !.url = SubSeq(q.url, 1, j), !.target = q.url])
        /\ asked' = [asked EXCEPT !.whole = (j = Len(q.url)), !.expect = FALSE, !.kept = asked.keep]
  BY <1>0
<1>3. /\ asked' \in AskedType /\ asked'.whole = (j = Len(q.url)) /\ asked'.kept = asked.keep
      /\ asked'.probed = asked.probed /\ asked'.caught = asked.caught /\ Keeps
  BY <1>2 DEF Answering, AskedType, Keeps
<1>4. q.method \in Methods /\ q.url \in Seq(Symbols)
  BY <1>1, AppsDeclare DEF Answering, RouterServes
<1>5. ASSUME ~asked'.caught PROVE Right
  <2>1. PICK code \in {200, 404, 405}, k \in BOOLEAN, skip \in BOOLEAN : Stands(code, k, skip)
    BY <1>1, <1>3, <1>5, StandsIs
  <2>2. code = 200 /\ (k => asked.keep) /\ (skip => asked.probed)
    BY <1>1, <2>1 DEF Stands
  <2>3. conn = Rests("idle", conn.method, conn.url, conn.target, conn.found, Fresh(code, k, skip), NoAnswer)
    BY <1>1, <2>1, Zenon DEF Stands
  <2> DEFINE url == SubSeq(q.url, 1, j)
             c == [conn EXCEPT !.method = q.method, !.url = url, !.target = q.url]
             r == Fresh(code, k, skip)
             f == conn.found
             no == FALSE
  <2>4. c = Rests("idle", q.method, url, q.url, f, r, NoAnswer)
    <3> DEFINE m == conn.method
               u == conn.url
               t == conn.target
               d == Conn("idle", m, u, t, f, r, no, NoAnswer)
    <3>1. conn = d
      BY <2>3, Zenon DEF Rests
    <3>2. c = [[[conn EXCEPT !.method = q.method] EXCEPT !.url = url] EXCEPT !.target = q.url]
      <4> HIDE DEF url
      <4> QED
        OBVIOUS
    <3> HIDE DEF m, u, t, f, r, no, url, c
    <3>3. [d EXCEPT !.method = q.method] = Conn("idle", q.method, u, t, f, r, no, NoAnswer)
      BY DEF Conn
    <3>4. [Conn("idle", q.method, u, t, f, r, no, NoAnswer) EXCEPT !.url = url] = Conn("idle", q.method, url, t, f, r, no, NoAnswer)
      BY DEF Conn
    <3>5. [Conn("idle", q.method, url, t, f, r, no, NoAnswer) EXCEPT !.target = q.url]
            = Conn("idle", q.method, url, q.url, f, r, no, NoAnswer)
      BY DEF Conn
    <3> HIDE DEF d
    <3>6. c = Conn("idle", q.method, url, q.url, f, r, no, NoAnswer)
      BY <3>1, <3>2, <3>3, <3>4, <3>5, Zenon DEF d
    <3> QED
      BY <3>6, Zenon DEF Rests, no
  <2>5. url \in Seq(Symbols) /\ (j = Len(q.url) => url = q.url)
    BY <1>4
  <2>6. Given(q.method, url, q.url, code, k, skip)
    <3> HIDE DEF url
    <3> QED
      BY <1>3, <1>4, <2>2, <2>5 DEF Given, Skips
  <2>7. HandleUrl(c)
    BY <1>2
  <2> HIDE DEF c, url, f
  <2> QED
    BY <1>1, <2>4, <2>6, <2>7, UrlIsFine DEF Answering
<1> QED
  BY <1>1, <1>3, <1>5, StepKeeps

\* So does the rest of a target that was read in pieces.
LEMMA RestOfUrlKeeps ==
  ASSUME Answering, RestOfUrl, RouterServes'
  PROVE  Answering'
<1>1. /\ conn.phase = "url" /\ conn.url # conn.target /\ app' = app /\ router' = router /\ asked' = asked
      /\ HandleUrl([conn EXCEPT !.url = conn.target])
  BY DEF RestOfUrl
<1>2. router.state = "serving"
  BY <1>1, NewIs DEF Answering
<1>3. ASSUME ~asked.caught PROVE Right
  <2>1. PICK code \in {200, 404, 405}, k \in BOOLEAN, skip \in BOOLEAN : Stands(code, k, skip)
    BY <1>2, <1>3, StandsIs
  <2>2. AtUrl(code, k, skip)
    BY <1>1, <2>1 DEF Stands
  <2>3. conn = Rests("url", conn.method, conn.url, conn.target, conn.found, Fresh(code, k, skip), NoAnswer)
    BY <1>1, <2>1, Zenon DEF Stands
  <2> DEFINE m == conn.method
             t == conn.target
             f == conn.found
             r == Fresh(code, k, skip)
             c == [conn EXCEPT !.url = t]
             no == FALSE
  <2>4. c = Rests("url", m, t, t, f, r, NoAnswer)
    <3> DEFINE u == conn.url
               d == Conn("url", m, u, t, f, r, no, NoAnswer)
    <3>1. conn = d
      BY <2>3, Zenon DEF Rests
    <3> HIDE DEF m, u, t, f, r, no
    <3>2. [d EXCEPT !.url = t] = Conn("url", m, t, t, f, r, no, NoAnswer)
      BY DEF Conn
    <3> HIDE DEF d
    <3>3. c = Conn("url", m, t, t, f, r, no, NoAnswer)
      BY <3>1, <3>2, Zenon
    <3> QED
      BY <3>3, Zenon DEF Rests, no
  <2>5. Given(m, t, t, code, k, skip)
    BY <1>1, <2>2 DEF AtUrl, Given, Skips, Keeps, Answering, AskedType
  <2>6. HandleUrl(c)
    BY <1>1
  <2> HIDE DEF c, m, t, f
  <2> QED
    BY <1>1, <1>2, <2>4, <2>5, <2>6, UrlIsFine DEF Answering
<1> QED
  BY <1>1, <1>2, <1>3, StepKeeps DEF Answering

\* "100 Continue" clears the response: what a missing rule left in it is lost.
LEMMA ContinueKeeps ==
  ASSUME Answering, Continue, RouterServes'
  PROVE  Answering'
<1>1. /\ conn.phase = "url" /\ app' = app /\ router' = router /\ said' = said
      /\ conn' = [conn EXCEPT !.res = Clear(@)] /\ asked' = [asked EXCEPT !.expect = TRUE]
  BY DEF Continue
<1>2. /\ asked' \in AskedType /\ asked'.expect = TRUE /\ asked'.whole = asked.whole /\ asked'.kept = asked.kept
      /\ asked'.probed = asked.probed /\ asked'.caught = asked.caught
  BY <1>1 DEF Answering, AskedType
<1>3. router.state = "serving"
  BY <1>1, NewIs DEF Answering
<1>4. ASSUME ~asked'.caught PROVE Right
  <2>1. PICK code \in {200, 404, 405}, k \in BOOLEAN, skip \in BOOLEAN : Stands(code, k, skip)
    BY <1>2, <1>3, <1>4, StandsIs
  <2>2. AtUrl(code, k, skip)
    BY <1>1, <2>1 DEF Stands
  <2>3. conn = Rests("url", conn.method, conn.url, conn.target, conn.found, Fresh(code, k, skip), NoAnswer)
    BY <1>1, <2>1, Zenon DEF Stands
  <2> DEFINE m == conn.method
             u == conn.url
             t == conn.target
             f == conn.found
             no == FALSE
             r == Fresh(code, k, skip)
             new == Fresh(200, no, skip)
  <2>4. Clear(r) = new
    <3>1. r.skip = skip /\ r.manual = no
      <4>1. r = Resp(code, 0, None, k, {}, no, None, skip, no)
        BY DEF Fresh
      <4> HIDE DEF r, no
      <4> QED
        BY <4>1 DEF Resp
    <3>2. Clear(r) = Resp(200, 0, None, no, {}, no, None, r.skip, r.manual)
      <4> HIDE DEF r
      <4>1. Clear(r) = Cleared(r.skip, r.manual)
        BY ClearIs
      <4> QED
        BY <4>1, Zenon DEF Cleared
    <3>3. new = Resp(200, 0, None, no, {}, no, None, skip, no)
      BY DEF Fresh
    <3> HIDE DEF r, no, new
    <3> QED
      BY <3>1, <3>2, <3>3, Zenon
  <2>5. conn' = Rests("url", m, u, t, f, new, NoAnswer)
    <3> DEFINE d == Conn("url", m, u, t, f, r, no, NoAnswer)
    <3>1. conn = d
      BY <2>3, Zenon DEF Rests
    <3> HIDE DEF m, u, t, f, r, no, new
    <3>2. d.res = r /\ [d EXCEPT !.res = new] = Conn("url", m, u, t, f, new, no, NoAnswer)
      BY DEF Conn
    <3> HIDE DEF d
    <3>3. conn' = [d EXCEPT !.res = new]
      BY <1>1, <2>4, <3>1, <3>2
    <3> QED
      BY <3>2, <3>3, Zenon DEF Rests, no
  <2>6. conn'.phase = "url" /\ conn'.method = m /\ conn'.url = u /\ conn'.target = t /\ conn'.found = f
    <3> HIDE DEF new, m, u, t, f
    <3> QED
      BY <2>5, RestsIs
  <2>7. no \in BOOLEAN /\ ~no /\ said' = NoAnswer
    BY <1>1, <2>2 DEF AtUrl
  <2> HIDE DEF no
  <2>8. AtUrl(200, no, skip)'
    <3>1. /\ HandlesAs(conn.found, HandlerFor(conn.method, conn.url))'
          /\ Routed(conn.url)' = Routed(u)
      <4>1. /\ \A x, y : HandlerFor(x, y)' = HandlerFor(x, y)
            /\ \A x, y : HandlesAs(x, y)' <=> HandlesAs(x, y)
            /\ \A x : Routed(x)' = Routed(x)
        BY <1>1, AppSame, Zenon
      <4>2. HandlesAs(f, HandlerFor(m, u))
        BY <2>2, Zenon DEF AtUrl
      <4> HIDE DEF m, u, f
      <4> QED
        BY <2>6, <4>1, <4>2, Zenon
    <3>2. /\ m \in Methods \ {"OPTIONS"} /\ u \in Seq(Symbols) /\ t \in Seq(Symbols)
          /\ asked.whole => u = t
          /\ m = "HEAD" => skip /\ {"HEAD", "GET"} \cap Routed(u) # {}
          /\ skip => asked.probed \/ m = "HEAD"
      BY <2>2, Zenon DEF AtUrl
    <3> HIDE DEF m, u, t, f
    <3> QED
      BY <1>2, <2>6, <2>7, <3>1, <3>2 DEF AtUrl
  <2>9. Stands(200, no, skip)'
    <3> HIDE DEF m, u, t, f
    <3> QED
      BY <2>5, <2>6, <2>8, Zenon DEF Stands, new
  <2>10. Fine'
    BY <2>7, <2>9 DEF Fine
  <2> QED
    BY <2>7, <2>10 DEF Right, AnswersAreRouted, AnswersAreFramed
<1> QED
  BY <1>1, <1>2, <1>3, <1>4, StepKeeps

\* So does a new connection, of which nothing is left over.
LEMMA ConnectKeeps ==
  ASSUME Answering, Connect, RouterServes'
  PROVE  Answering'
<1>1. conn' = NewConnection /\ asked' = NothingAsked /\ said' = NoAnswer /\ router' = router
  BY DEF Connect
<1>2. asked' \in AskedType
  BY <1>1 DEF NothingAsked, AskedType
<1>3. Fine'
  BY <1>1, NewIsFine
<1>4. Right
  BY <1>1, <1>3 DEF Right, AnswersAreRouted, AnswersAreFramed
<1> QED
  BY <1>1, <1>2, <1>4, StepKeeps

\* Nothing is said before the router serves.
LEMMA StartKeeps ==
  ASSUME Answering, Declare \/ Validate, RouterServes'
  PROVE  Answering'
<1>1. router.state = "new" /\ conn' = conn /\ asked' = asked /\ said' = said
  BY DEF Declare, Validate
<1>2. conn' = NewConnection /\ said' = NoAnswer
  BY <1>1 DEF Answering
<1>3. Fine'
  BY <1>2, NewIsFine
<1> QED
  BY <1>1, <1>2, <1>3 DEF Answering, AnswersAreRouted, AnswersAreFramed

\* A step that changes nothing keeps it.
LEMMA RestKeeps ==
  ASSUME Answering, UNCHANGED exchangeVars, RouterServes'
  PROVE  Answering'
<1>1. app' = app /\ router' = router /\ conn' = conn /\ asked' = asked /\ said' = said
  BY DEF exchangeVars
<1>2. /\ \A x, y : HandlerFor(x, y)' = HandlerFor(x, y)
      /\ \A x, y : HandlesAs(x, y)' <=> HandlesAs(x, y)
      /\ \A x : Routed(x)' = Routed(x)
      /\ \A x, y : Replaces(x, y)' <=> Replaces(x, y)
      /\ \A x, y : CodeOf(x, y)' = CodeOf(x, y)
      /\ \A x : {m \in Methods : HasRoute(m, x)}' = {m \in Methods : HasRoute(m, x)}
  BY <1>1, AppSame, Zenon DEF Routed
<1>3. Fine => Fine'
  BY <1>1, <1>2 DEF Fine, Stands, AtUrl
<1>4. AnswersAreRouted => AnswersAreRouted'
  BY <1>1, <1>2 DEF AnswersAreRouted
<1>5. AnswersAreFramed => AnswersAreFramed'
  BY <1>1, <1>2 DEF AnswersAreFramed
<1> QED
  BY <1>1, <1>3, <1>4, <1>5 DEF Answering

\* A connection that rests after its answer is told.
Idle(d) == [d EXCEPT !.phase = "idle", !.sent = NoAnswer]

\* Only the phase changes, and the answer is gone.
LEMMA IdleIs ==
  ASSUME NEW phase, NEW method, NEW url, NEW target, NEW found, NEW res, NEW sent, NEW d,
         d = Rests(phase, method, url, target, found, res, sent)
  PROVE  Idle(d) = Rests("idle", method, url, target, found, res, NoAnswer)
<1> DEFINE no == FALSE
           e == Conn(phase, method, url, target, found, res, no, sent)
<1>1. d = e /\ Rests("idle", method, url, target, found, res, NoAnswer) = Conn("idle", method, url, target, found, res, no, NoAnswer)
  BY DEF Rests
<1> HIDE DEF no
<1>2. [e EXCEPT !.phase = "idle"] = Conn("idle", method, url, target, found, res, no, sent)
  BY DEF Conn
<1>3. [Conn("idle", method, url, target, found, res, no, sent) EXCEPT !.sent = NoAnswer]
        = Conn("idle", method, url, target, found, res, no, NoAnswer)
  BY DEF Conn
<1> HIDE DEF e
<1>4. [d EXCEPT !.phase = "idle", !.sent = NoAnswer] = [[d EXCEPT !.phase = "idle"] EXCEPT !.sent = NoAnswer]
  OBVIOUS
<1> QED
  BY <1>1, <1>2, <1>3, <1>4, Zenon DEF Idle

\* The response that 400 puts in place of another.
LEMMA BadRequestIs ==
  ASSUME NEW r
  PROVE  Replaced(r, Response(400, 0)) = Resp(400, 0, None, FALSE, {}, FALSE, None, r.skip, r.manual)
<1> DEFINE n == 400
<1> HIDE DEF n
<1>1. Replaced(r, Response(n, 0)) = Resp(n, 0, None, FALSE, {}, FALSE, None, r.skip, r.manual)
  BY ReplacedIs, Zenon
<1> QED
  BY <1>1, Zenon DEF n

\* What such an answer leaves.
Turns400(m, u, t, f, skip, keep) ==
  /\ conn' = Rests("idle", m, u, t, f, Fresh(200, FALSE, skip), NoAnswer)
  /\ said' = WriteHeader(Told(400, {}, skip), keep)

\* Without a host, a request is answered by 400.
LEMMA TurnedIs ==
  ASSUME NEW m, NEW u, NEW t, NEW f, NEW code, NEW k, NEW skip, NEW host, NEW keep, host = FALSE,
         conn = Rests("url", m, u, t, f, Fresh(code, k, skip), NoAnswer), Answer(host, keep)
  PROVE  Turns400(m, u, t, f, skip, keep)
<1> DEFINE no == FALSE
           r == Fresh(code, k, skip)
           told == Told(400, {}, skip)
           c == Conn("url", m, u, t, f, r, no, NoAnswer)
           x == [conn EXCEPT !.res = Replaced(@, Response(400, 0))]
           d == CompleteRequest(x, keep)
           fresh == Fresh(200, no, skip)
<1>1. said' = d.sent /\ conn' = [d EXCEPT !.phase = "idle", !.sent = NoAnswer]
  <2> HIDE DEF no, r, told, c
  <2> QED
    BY DEF Answer
<1>2. conn = c
  BY DEF Rests
<1>3. r.skip = skip /\ r.manual = no
  <2>1. r = Resp(code, 0, None, k, {}, no, None, skip, no)
    BY DEF Fresh
  <2> HIDE DEF r, no
  <2> QED
    BY <2>1 DEF Resp
<1>4. told = Resp(400, 0, None, no, {}, no, None, skip, no) /\ fresh = Cleared(skip, no)
  BY DEF Told, Fresh, Cleared
<1>5. Replaced(r, Response(400, 0)) = told
  <2> HIDE DEF r
  <2>1. Replaced(r, Response(400, 0)) = Resp(400, 0, None, FALSE, {}, FALSE, None, r.skip, r.manual)
    BY BadRequestIs
  <2> HIDE DEF told
  <2> QED
    BY <1>3, <1>4, <2>1, Zenon
<1>6. told.skip = skip /\ told.manual = no
  <2> HIDE DEF no, told
  <2> QED
    BY <1>4 DEF Resp
<1>7. x = Conn("url", m, u, t, f, told, no, NoAnswer)
  <2> HIDE DEF no, r, told
  <2>1. c.res = r /\ [c EXCEPT !.res = told] = Conn("url", m, u, t, f, told, no, NoAnswer)
    BY DEF Conn
  <2> HIDE DEF c
  <2>2. x = [c EXCEPT !.res = told]
    BY <1>2, <1>5, <2>1
  <2> QED
    BY <2>1, <2>2, Zenon
<1>8. d = Rests("url", m, u, t, f, fresh, WriteHeader(told, keep))
  <2> HIDE DEF no, told, x
  <2>1. CompleteRequest(Conn("url", m, u, t, f, told, no, NoAnswer), keep)
          = Rests("url", m, u, t, f, Cleared(told.skip, told.manual), WriteHeader(told, keep))
    BY CompletedIs
  <2> HIDE DEF fresh
  <2> QED
    BY <1>4, <1>6, <1>7, <2>1, Zenon
<1>9. d.sent = WriteHeader(told, keep)
  <2> HIDE DEF d, fresh, told
  <2> QED
    BY <1>8, RestsIs
<1> HIDE DEF d
<1>10. conn' = Rests("idle", m, u, t, f, fresh, NoAnswer)
  <2> HIDE DEF fresh, told
  <2>1. Idle(d) = Rests("idle", m, u, t, f, fresh, NoAnswer)
    BY <1>8, IdleIs
  <2> QED
    BY <1>1, <2>1, Zenon DEF Idle
<1> QED
  BY <1>1, <1>9, <1>10, Zenon DEF Turns400

\* What the answer of a handler leaves.
Replies(m, u, t, f, code, k, skip, keep, h) ==
  /\ conn' = Rests("idle", m, u, t, f, Fresh(200, keep, FALSE), NoAnswer)
  /\ said' = WriteHeader(Ends(Filled(code, k, skip, h)), keep)

\* With a host, a request is answered by its handler.
LEMMA AnswerIs ==
  ASSUME NEW m, NEW u, NEW t, NEW f, NEW code, NEW k, NEW skip, NEW host, NEW keep, host = TRUE, keep \in BOOLEAN, NEW h,
         conn = Rests("url", m, u, t, f, Fresh(code, k, skip), NoAnswer), Answer(host, keep),
         HandlesAs(f, h), Once(f)
  PROVE  Replies(m, u, t, f, code, k, skip, keep, h)
<1> DEFINE no == FALSE
           yes == TRUE
           r == Fresh(code, k, skip)
           c == Conn("url", m, u, t, f, r, no, NoAnswer)
           x == [conn EXCEPT !.hooked = yes]
           e == Handle(x, router, app.catchAll, keep)
           d == IF keep THEN [e EXCEPT !.res.keep = yes] ELSE e
           said1 == WriteHeader(Ends(Filled(code, k, skip, h)), keep)
           left(z) == Fresh(200, z, no)
<1>1. conn = c
  BY DEF Rests
<1>2. conn.res.completed = FALSE
  <2>1. r = Resp(code, 0, None, k, {}, no, None, skip, no)
    BY DEF Fresh
  <2>2. c.res = r
    <3> HIDE DEF no, r
    <3> QED
      BY DEF Conn
  <2> HIDE DEF c, r
  <2>3. r.completed = no
    <3> HIDE DEF no
    <3> QED
      BY <2>1 DEF Resp
  <2> QED
    BY <1>1, <2>2, <2>3
<1>3. said' = d.sent /\ conn' = [d EXCEPT !.phase = "idle", !.sent = NoAnswer]
  <2> HIDE DEF r, c
  <2> QED
    BY <1>2, Zenon DEF Answer
<1>4. x = Conn("url", m, u, t, f, r, yes, NoAnswer)
  <2> HIDE DEF no, yes, r
  <2>1. [c EXCEPT !.hooked = yes] = Conn("url", m, u, t, f, r, yes, NoAnswer)
    BY DEF Conn
  <2> HIDE DEF c
  <2> QED
    BY <1>1, <2>1, Zenon
<1>5. e = Rests("url", m, u, t, f, left(no), said1)
  <2>1. Handle(Hooked("url", m, u, t, f, Fresh(code, k, skip)), router, app.catchAll, keep)
          = Over("url", m, u, t, f, WriteHeader(Ends(Filled(code, k, skip, h)), keep))
    BY HandleIs
  <2>2. left(no) = Cleared(FALSE, FALSE)
    BY DEF Fresh, Cleared
  <2> HIDE DEF left
  <2> QED
    BY <1>4, <2>1, <2>2, Zenon DEF Hooked, Over
<1>6. d = Rests("url", m, u, t, f, left(keep), said1)
  <2>1. CASE keep
    <3> DEFINE g(z) == Conn("url", m, u, t, f, z, no, said1)
    <3>1. e = g(left(no))
      BY <1>5, Zenon DEF Rests
    <3>2. left(no) = Resp(200, 0, None, no, {}, no, None, no, no) /\ left(yes) = Resp(200, 0, None, yes, {}, no, None, no, no)
      BY DEF Fresh
    <3> HIDE DEF no, yes, left, said1, e
    <3>3. [left(no) EXCEPT !.keep = yes] = left(yes)
      BY <3>2 DEF Resp
    <3> DEFINE q == left(no)
               p == left(yes)
    <3> HIDE DEF q, p
    <3>4. g(q).res = q /\ [g(q) EXCEPT !.res = p] = g(p)
      BY DEF Conn
    <3> HIDE DEF g
    <3>5. [e EXCEPT !.res.keep = yes] = g(p)
      <4>1. e = g(q)
        BY <3>1 DEF q
      <4>2. [q EXCEPT !.keep = yes] = p
        BY <3>3 DEF q, p
      <4> QED
        BY <3>4, <4>1, <4>2
    <3>6. d = g(p)
      BY <2>1, <3>5, Zenon
    <3>7. keep = yes
      BY <2>1 DEF yes
    <3> QED
      BY <3>6, <3>7, Zenon DEF g, p, Rests, no
  <2>2. CASE ~keep
    <3>1. keep = no
      BY <2>2
    <3> HIDE DEF no, left, said1, e
    <3> QED
      BY <1>5, <2>2, <3>1, Zenon
  <2> QED
    BY <2>1, <2>2
<1> HIDE DEF d
<1>7. d.sent = said1
  <2> HIDE DEF left, said1
  <2> QED
    BY <1>6, RestsIs
<1>8. conn' = Rests("idle", m, u, t, f, left(keep), NoAnswer)
  <2> HIDE DEF left, said1
  <2>1. Idle(d) = Rests("idle", m, u, t, f, left(keep), NoAnswer)
    BY <1>6, IdleIs
  <2> QED
    BY <1>3, <2>1, Zenon DEF Idle
<1> QED
  BY <1>3, <1>7, <1>8, Zenon DEF Replies

\* What a handler's answer says: its own code or that of the response it fills, and as many bytes as it names.
Heard(a, h, code, k, skip, keep) ==
  /\ h.kind \in {"returns", "throws"} => a.code = Known(h.code)
  /\ h.kind = "file" => a.code = IF h.size = None THEN 404 ELSE 200
  /\ h.kind \notin {"returns", "throws", "file"} => a.code = code
  /\ a.keep = TRUE <=> keep = TRUE \/ (h.kind \notin {"returns", "throws"} /\ k = TRUE)
  /\ skip = FALSE => a.length = a.bytes
  /\ skip = TRUE /\ h.kind # "file" /\ a.code < 400 => a.bytes = 0 /\ a.length # None

\* Whatever a handler does with a response, what is said of it is as Heard states.
LEMMA FilledIs ==
  ASSUME NEW code \in {200, 404, 405}, NEW k \in BOOLEAN, NEW skip \in BOOLEAN, NEW keep \in BOOLEAN,
         NEW h, h.kind = "none" \/ IsHandler(h)
  PROVE  Heard(WriteHeader(Ends(Filled(code, k, skip, h)), keep), h, code, k, skip, keep)
<1> DEFINE r == Filled(code, k, skip, h)
           a == WriteHeader(Ends(r), keep)
           no == FALSE
           nobody == {}
           n == None
<1>1. Known(code) = code /\ code \in Nat /\ Known(404) = 404 /\ Known(200) = 200
  BY DEF Known, StatusCodes
<1>2. no \in BOOLEAN /\ no = FALSE /\ nobody = {} /\ n = None /\ -1 \notin Nat
  OBVIOUS
<1>3. \A x, b, l, kk, file : Open(r, x, b, l, kk, nobody, file, skip) /\ b \in Nat /\ kk \in BOOLEAN /\ Known(x) \in Nat =>
        Says(a, x, l, kk, nobody, file, skip, keep)
  <2> HIDE DEF r, nobody
  <2> QED
    BY SaidIs
<1>4. CASE h.kind \in {"returns", "throws"}
  <2>1. h.code \in Nat /\ h.size \in Nat
    BY <1>4 DEF IsHandler
  <2>2. Known(h.code) \in Nat
    BY <2>1 DEF Known
  <2>3. Open(r, h.code, h.size, n, no, nobody, n, skip)
    BY <1>4, Zenon DEF Open, Filled
  <2> HIDE DEF a, r, no, nobody, n
  <2>4. Says(a, h.code, n, no, nobody, n, skip, keep)
    BY <1>2, <1>3, <2>1, <2>2, <2>3
  <2> QED
    BY <1>2, <1>4, <2>4 DEF Says, Heard, None, a, r
<1>5. CASE h.kind = "writes"
  <2>1. 0 + h.size \in Nat
    BY <1>5 DEF IsHandler
  <2> DEFINE b == 0 + h.size
  <2>b. b \in Nat
    BY <2>1
  <2> HIDE DEF b
  <2>2. Open(r, code, b, n, k, nobody, n, skip)
    <3>1. h.kind \notin {"returns", "throws"}
      BY <1>5
    <3> QED
      BY <1>5, <3>1, Zenon DEF Open, Filled, b
  <2> HIDE DEF a, r, nobody, n
  <2>3. Says(a, code, n, k, nobody, n, skip, keep)
    BY <1>1, <1>3, <2>b, <2>2
  <2> QED
    BY <1>1, <1>2, <1>5, <2>3 DEF Says, Heard, None, a, r
<1>6. CASE h.kind = "none"
  <2>1. Open(r, code, 0, n, k, nobody, n, skip)
    <3>1. h.kind \notin {"returns", "throws"} /\ h.kind # "writes" /\ h.kind # "file"
      BY <1>6
    <3> QED
      BY <3>1, Zenon DEF Open, Filled, Fresh
  <2>2. 0 \in Nat
    OBVIOUS
  <2> HIDE DEF a, r, nobody, n
  <2>3. Says(a, code, n, k, nobody, n, skip, keep)
    BY <1>1, <1>3, <2>1, <2>2
  <2> QED
    BY <1>1, <1>2, <1>6, <2>3 DEF Says, Heard, None, a, r
<1>7. CASE h.kind = "file"
  <2>1. h.size \in Nat \cup {-1}
    BY <1>7 DEF IsHandler
  <2>2. h.kind \notin {"returns", "throws"} /\ h.kind # "writes"
    BY <1>7
  <2>3. CASE h.size = None
    <3>1. Open(r, 404, 0, n, k, nobody, n, skip)
      BY <1>7, <2>2, <2>3, Zenon DEF Open, Filled
    <3> HIDE DEF a, r, nobody, n
    <3>2. Says(a, 404, n, k, nobody, n, skip, keep)
      BY <1>1, <1>3, <3>1
    <3> QED
      BY <1>1, <1>2, <1>7, <2>3, <3>2 DEF Says, Heard, None, a, r
  <2>4. CASE h.size # None
    <3>1. Open(r, 200, 0, h.size, k, nobody, h.size, skip)
      BY <1>7, <2>2, <2>4, Zenon DEF Open, Filled
    <3>2. h.size \in Nat
      BY <2>1, <2>4 DEF None
    <3> HIDE DEF a, r, nobody, n
    <3>3. Says(a, 200, h.size, k, nobody, h.size, skip, keep)
      BY <1>1, <1>3, <3>1
    <3> QED
      BY <1>1, <1>2, <1>7, <2>4, <3>2, <3>3 DEF Says, Heard, a, r
  <2> QED
    BY <2>3, <2>4
<1> QED
  BY <1>4, <1>5, <1>6, <1>7 DEF IsHandler

\* What is heard of a handler is what the rules say of it.
LEMMA HeardCode ==
  ASSUME NEW a, NEW h, NEW code, NEW k, NEW skip, NEW keep, NEW m, NEW u, NEW routed,
         Heard(a, h, code, k, skip, keep), m # "OPTIONS", m = "HEAD" => {"HEAD", "GET"} \cap routed # {},
         h.kind \notin {"returns", "throws"} => code = IF m \in routed \cup {"HEAD"} THEN 200 ELSE NotRouted(routed)
  PROVE  a.code = CodeBy(h, m, u, routed)
<1>1. CASE h.kind \in {"returns", "throws"}
  BY <1>1 DEF Heard, CodeBy
<1>2. CASE h.kind = "file"
  BY <1>2 DEF Heard, CodeBy
<1>3. CASE h.kind \notin {"returns", "throws", "file"}
  BY <1>3 DEF Heard, CodeBy, NotRouted
<1> QED
  BY <1>1, <1>2, <1>3

\* An answer leaves a connection that rests, with a response that begins fresh but
\* for Keep-Alive and for a body that is to be skipped.
Leaves(m, u, t, f, k, skip, keep) ==
  /\ conn' = Rests("idle", m, u, t, f, Fresh(200, k, skip), NoAnswer)
  /\ k \in BOOLEAN /\ skip \in BOOLEAN
  /\ k = TRUE => keep = TRUE
  /\ skip = TRUE => asked'.probed
  /\ asked'.keep = keep

\* Such a connection is fine for the next request.
LEMMA LeavesFine ==
  ASSUME NEW m, NEW u, NEW t, NEW f, NEW k, NEW skip, NEW keep, Leaves(m, u, t, f, k, skip, keep)
  PROVE  Fine' /\ conn'.phase = "idle" /\ conn'.method = m /\ conn'.url = u /\ conn'.target = t
<1>1. /\ conn' = Rests("idle", m, u, t, f, Fresh(200, k, skip), NoAnswer)
      /\ k \in BOOLEAN /\ skip \in BOOLEAN
      /\ k = TRUE => keep = TRUE
      /\ skip = TRUE => asked'.probed
      /\ asked'.keep = keep
  BY DEF Leaves
<1> DEFINE r == Fresh(200, k, skip)
<1>2. conn'.phase = "idle" /\ conn'.method = m /\ conn'.url = u /\ conn'.target = t /\ conn'.found = f
  <2>1. conn' = Rests("idle", m, u, t, f, r, NoAnswer)
    BY <1>1
  <2> HIDE DEF r
  <2> QED
    BY <2>1, RestsIs
<1>3. Stands(200, k, skip)'
  <2>1. conn' = Rests(conn'.phase, conn'.method, conn'.url, conn'.target, conn'.found, r, NoAnswer)
    BY <1>1, <1>2
  <2> HIDE DEF r
  <2> QED
    BY <1>1, <1>2, <2>1 DEF Stands, r
<1>4. Fine'
  BY <1>1, <1>3 DEF Fine
<1> QED
  BY <1>2, <1>4

\* What answering a request notes of it.
Notes(p, q, host, keep) ==
  /\ asked' \in AskedType
  /\ asked'.whole = asked.whole /\ asked'.expect = asked.expect /\ asked'.kept = asked.kept
  /\ asked'.host = host /\ asked'.keep = keep /\ asked'.probed = p /\ asked'.caught = q

\* They are a history of the right type, the rest of it unchanged.
LEMMA NotesAre ==
  ASSUME asked \in AskedType, NEW p \in BOOLEAN, NEW q \in BOOLEAN, NEW host \in BOOLEAN, NEW keep \in BOOLEAN,
         asked' = [asked EXCEPT !.host = host, !.keep = keep, !.probed = p, !.caught = q]
  PROVE  Notes(p, q, host, keep)
BY DEF Notes, AskedType

\* A request without a host.
Hostless(m, u, t, f, code, k, skip, host, keep) ==
  /\ skip \in BOOLEAN /\ keep \in BOOLEAN /\ host = FALSE
  /\ conn = Rests("url", m, u, t, f, Fresh(code, k, skip), NoAnswer) /\ Answer(host, keep)
  /\ asked'.host = host /\ asked'.keep = keep
  /\ skip = TRUE => asked'.probed

\* Without a host, the answer is 400.
LEMMA HostlessKeeps ==
  ASSUME NEW m, NEW u, NEW t, NEW f, NEW code, NEW k, NEW skip, NEW host, NEW keep,
         Hostless(m, u, t, f, code, k, skip, host, keep)
  PROVE  Right
<1> SUFFICES ASSUME skip \in BOOLEAN, keep \in BOOLEAN, host = FALSE,
                    conn = Rests("url", m, u, t, f, Fresh(code, k, skip), NoAnswer), Answer(host, keep),
                    asked'.host = host, asked'.keep = keep, skip = TRUE => asked'.probed
             PROVE  Right
  BY Zenon DEF Hostless
<1> DEFINE no == FALSE
           a == WriteHeader(Told(400, {}, skip), keep)
<1>1. conn' = Rests("idle", m, u, t, f, Fresh(200, FALSE, skip), NoAnswer) /\ said' = a
  <2>1. Turns400(m, u, t, f, skip, keep)
    BY TurnedIs
  <2> QED
    BY <2>1, Zenon DEF Turns400
<1>2. a.code = 400 /\ a.length = a.bytes /\ (a.keep <=> keep)
  <2>1. Turned(a, keep)
    BY RefusalSaid
  <2> HIDE DEF a
  <2> QED
    BY <2>1 DEF Turned
<1>3. no \in BOOLEAN /\ no # TRUE
  OBVIOUS
<1>4. Leaves(m, u, t, f, no, skip, keep)
  <2> HIDE DEF a
  <2>1. conn' = Rests("idle", m, u, t, f, Fresh(200, no, skip), NoAnswer)
    BY <1>1
  <2> HIDE DEF no
  <2> QED
    BY <1>3, <2>1 DEF Leaves
<1> HIDE DEF a, no
<1>5. Fine' /\ conn'.phase = "idle" /\ conn'.method = m /\ conn'.url = u /\ conn'.target = t
  BY <1>4, LeavesFine, Zenon
<1>6. AnswersAreRouted'
  <2>1. said'.code = 400 /\ said'.code # 204
    BY <1>1, <1>2
  <2> QED
    BY <1>5, <2>1 DEF AnswersAreRouted
<1>7. AnswersAreFramed'
  <2>1. said'.code = 400 /\ said'.length = said'.bytes /\ (said'.keep <=> keep)
    BY <1>1, <1>2
  <2> QED
    BY <1>5, <2>1 DEF AnswersAreFramed
<1> QED
  BY <1>5, <1>6, <1>7 DEF Right

\* What a handler a request is for can be.
LEMMA HandlerIs ==
  ASSUME IsApp(app), NEW f, NEW h, HandlesAs(f, h)
  PROVE  h.kind = "none" \/ IsHandler(h)
<1>1. CASE h = app.catchAll
  BY <1>1 DEF IsApp
<1>2. CASE h = [kind |-> "returns", code |-> 301, size |-> 0]
  BY <1>2 DEF IsHandler
<1>3. CASE IsHandler(h)
  BY <1>3
<1> QED
  BY <1>1, <1>2, <1>3 DEF HandlesAs

\* A request with a host that is answered by a handler, and nothing behind it.
Hosted(m, u, t, f, code, k, skip, host, keep) ==
  /\ app' = app /\ router' = router /\ IsApp(app)
  /\ conn.phase = "url" /\ conn.url = conn.target
  /\ m = conn.method /\ u = conn.url /\ t = conn.target /\ f = conn.found
  /\ code \in {200, 404, 405} /\ k \in BOOLEAN /\ skip \in BOOLEAN /\ keep \in BOOLEAN /\ host = TRUE
  /\ Stands(code, k, skip) /\ Answer(host, keep) /\ Once(conn.found)
  /\ asked'.whole = asked.whole /\ asked'.expect = asked.expect /\ asked'.kept = asked.kept
  /\ asked'.host = host /\ asked'.keep = keep /\ asked'.probed = asked.probed

\* With a host, the answer is that of the handler.
LEMMA HostKeeps ==
  ASSUME NEW m, NEW u, NEW t, NEW f, NEW code, NEW k, NEW skip, NEW host, NEW keep,
         Hosted(m, u, t, f, code, k, skip, host, keep)
  PROVE  Right
<1> SUFFICES ASSUME app' = app, router' = router, IsApp(app), conn.phase = "url", conn.url = conn.target,
                    m = conn.method, u = conn.url, t = conn.target, f = conn.found,
                    code \in {200, 404, 405}, k \in BOOLEAN, skip \in BOOLEAN, keep \in BOOLEAN, host = TRUE,
                    Stands(code, k, skip), Answer(host, keep), Once(conn.found),
                    asked'.whole = asked.whole, asked'.expect = asked.expect, asked'.kept = asked.kept,
                    asked'.host = host, asked'.keep = keep, asked'.probed = asked.probed
             PROVE  Right
  BY Zenon DEF Hosted
<1> DEFINE h == HandlerFor(m, u)
           no == FALSE
           a == WriteHeader(Ends(Filled(code, k, skip, h)), keep)
           routed == Routed(u)
<1>1. AtUrl(code, k, skip)
  BY DEF Stands
<1>2. /\ m \in Methods \ {"OPTIONS"} /\ HandlesAs(f, h)
      /\ asked.whole => u = t
      /\ m = "HEAD" => skip = TRUE /\ {"HEAD", "GET"} \cap routed # {}
      /\ skip = TRUE => asked.probed \/ m = "HEAD"
      /\ k = TRUE => asked.kept
      /\ asked.whole /\ ~asked.expect => code = IF m \in routed \cup {"HEAD"} THEN 200 ELSE NotRouted(routed)
  BY <1>1 DEF AtUrl
<1>3. Replies(m, u, t, f, code, k, skip, keep, h)
  <2>1. conn = Rests("url", m, u, t, f, Fresh(code, k, skip), NoAnswer)
    BY DEF Stands
  <2> HIDE DEF h
  <2> QED
    BY <1>2, <2>1, AnswerIs
<1>4. Heard(a, h, code, k, skip, keep)
  <2>1. h.kind = "none" \/ IsHandler(h)
    BY <1>2, HandlerIs
  <2> HIDE DEF h
  <2> QED
    BY <2>1, FilledIs
<1>5. conn' = Rests("idle", m, u, t, f, Fresh(200, keep, no), NoAnswer) /\ said' = a
  BY <1>3, Zenon DEF Replies
<1>6. no \in BOOLEAN /\ no # TRUE
  OBVIOUS
<1>7. Leaves(m, u, t, f, keep, no, keep)
  <2> HIDE DEF a, no
  <2> QED
    BY <1>5, <1>6 DEF Leaves
<1>8. Fine' /\ conn'.phase = "idle" /\ conn'.method = m /\ conn'.url = u /\ conn'.target = t
  <2> DEFINE w == keep
  <2>1. Leaves(m, u, t, f, w, no, keep)
    BY <1>7
  <2> HIDE DEF no, w
  <2> QED
    BY <2>1, LeavesFine
<1>9. u = t
  OBVIOUS
<1>10. /\ HandlerFor(conn.method, conn.target)' = h
       /\ (Replaces(conn.method, conn.target)' <=> h.kind \in {"returns", "throws"})
       /\ CodeOf(conn.method, conn.target)' = CodeBy(h, m, u, routed)
  <2>1. /\ \A x, y : HandlerFor(x, y)' = HandlerFor(x, y)
        /\ \A x, y : Replaces(x, y)' <=> Replaces(x, y)
        /\ \A x, y : CodeOf(x, y)' = CodeOf(x, y)
    BY AppSame, Zenon
  <2>2. Replaces(m, u) <=> h.kind \in {"returns", "throws"}
    BY DEF Replaces
  <2>3. CodeOf(m, u) = CodeBy(h, m, u, routed)
    BY DEF CodeOf, Routed
  <2> HIDE DEF routed
  <2>4. h = HandlerFor(m, u)
    OBVIOUS
  <2> HIDE DEF h
  <2>5. conn'.method = m /\ conn'.target = u
    BY <1>8, <1>9
  <2> QED
    BY <2>1, <2>2, <2>3, <2>4, <2>5, Zenon
<1>11. a.code = CodeBy(h, m, u, routed) \/ (h.kind \notin {"returns", "throws"} /\ ~(asked.whole /\ ~asked.expect))
  <2> HIDE DEF a, h, routed
  <2> QED
    BY <1>2, <1>4, HeardCode
<1>12. AnswersAreRouted'
  <2>1. conn'.phase # "closed" /\ conn'.method # "OPTIONS" /\ asked'.host = TRUE
    BY <1>2, <1>8
  <2>2. (asked'.whole /\ ~asked'.expect) \/ Replaces(conn.method, conn.target)' => said'.code = CodeOf(conn.method, conn.target)'
    <3> DEFINE x == CodeOf(conn.method, conn.target)'
               y == Replaces(conn.method, conn.target)'
               z == CodeBy(h, m, u, routed)
    <3>1. said'.code = a.code /\ x = z /\ (y <=> h.kind \in {"returns", "throws"})
      BY <1>5, <1>10
    <3>2. a.code = z \/ (h.kind \notin {"returns", "throws"} /\ ~(asked'.whole /\ ~asked'.expect))
      BY <1>11
    <3> HIDE DEF a, h, routed, x, y, z
    <3>3. (asked'.whole /\ ~asked'.expect) \/ y => said'.code = x
      BY <3>1, <3>2
    <3> QED
      BY <3>3 DEF x, y
  <2> QED
    BY <2>1, <2>2 DEF AnswersAreRouted
<1>13. AnswersAreFramed'
  <2> SUFFICES ASSUME ~asked'.probed
               PROVE  /\ conn'.method # "HEAD" => said'.length = said'.bytes
                      /\ conn'.method = "HEAD" /\ said'.code < 400 /\ HandlerFor(conn.method, conn.target)'.kind # "file" =>
                           said'.bytes = 0 /\ said'.length # None
                      /\ said'.keep => asked'.keep \/ (asked'.kept /\ ~Replaces(conn.method, conn.target)')
                      /\ asked'.keep => said'.keep
    <3>1. conn'.method = "HEAD" => HandlerFor("HEAD", conn.target)' = HandlerFor(conn.method, conn.target)'
      OBVIOUS
    <3> QED
      BY <1>8, <3>1 DEF AnswersAreFramed
  <2> HIDE DEF a, h, routed
  <2>1. m # "HEAD" => a.length = a.bytes
    BY <1>2, <1>4 DEF Heard
  <2>2. m = "HEAD" /\ a.code < 400 /\ h.kind # "file" => a.bytes = 0 /\ a.length # None
    BY <1>2, <1>4 DEF Heard
  <2>3. a.keep = TRUE <=> keep = TRUE \/ (h.kind \notin {"returns", "throws"} /\ k = TRUE)
    BY <1>4 DEF Heard
  <2>4. conn'.method # "HEAD" => said'.length = said'.bytes
    BY <1>5, <1>8, <2>1
  <2>5. conn'.method = "HEAD" /\ said'.code < 400 /\ HandlerFor(conn.method, conn.target)'.kind # "file" =>
          said'.bytes = 0 /\ said'.length # None
    <3> DEFINE g == HandlerFor(conn.method, conn.target)'
    <3>1. g = h
      BY <1>10
    <3> HIDE DEF g
    <3>2. conn'.method = "HEAD" /\ said'.code < 400 /\ g.kind # "file" => said'.bytes = 0 /\ said'.length # None
      BY <1>5, <1>8, <2>2, <3>1
    <3> QED
      BY <3>2 DEF g
  <2>6. asked'.keep => said'.keep
    BY <1>5, <2>3
  <2>7. said'.keep => asked'.keep \/ (asked'.kept /\ ~Replaces(conn.method, conn.target)')
    BY <1>2, <1>5, <1>10, <2>3
  <2> QED
    BY <2>4, <2>5, <2>6, <2>7
<1> QED
  BY <1>8, <1>12, <1>13 DEF Right

\* A request that is complete is answered as its target has said.
LEMMA HandleRequestKeeps ==
  ASSUME Answering, HandleRequest, RouterServes'
  PROVE  Answering'
<1>1. conn.phase = "url" /\ conn.url = conn.target /\ app' = app /\ router' = router
  BY DEF HandleRequest
<1>2. PICK host \in BOOLEAN : \E keep \in BOOLEAN : Answer(host, keep)
  BY DEF HandleRequest
<1>3. PICK keep \in BOOLEAN : Answer(host, keep)
  BY <1>2
<1> DEFINE hit == host /\ conn.found.catchAll /\ app.catchAll.kind \in {"returns", "file"}
           miss == ~host /\ conn.res.skip
           p == asked.probed \/ miss
           q == asked.caught \/ hit
<1>4. asked' = [asked EXCEPT !.host = host, !.keep = keep, !.probed = p, !.caught = q]
  BY <1>3, Zenon DEF Answer
<1>5. p \in BOOLEAN /\ q \in BOOLEAN
  OBVIOUS
<1>6. Notes(p, q, host, keep)
  <2> HIDE DEF p, q
  <2> QED
    BY <1>4, <1>5, NotesAre DEF Answering
<1>7. /\ asked' \in AskedType
      /\ asked'.whole = asked.whole /\ asked'.expect = asked.expect /\ asked'.kept = asked.kept
      /\ asked'.host = host /\ asked'.keep = keep /\ asked'.probed = p /\ asked'.caught = q
  <2> HIDE DEF p, q
  <2> QED
    BY <1>6 DEF Notes
<1>8. router.state = "serving"
  BY <1>1, NewIs DEF Answering
<1>9. ASSUME ~asked'.caught PROVE Right
  <2>1. ~asked.caught /\ ~hit
    BY <1>7, <1>9
  <2>2. PICK code \in {200, 404, 405}, k \in BOOLEAN, skip \in BOOLEAN : Stands(code, k, skip)
    BY <1>8, <2>1, StandsIs
  <2>3. IsApp(app)
    BY <1>8, AppsAssumption DEF Answering, RouterServes
  <2>4. conn = Rests("url", conn.method, conn.url, conn.target, conn.found, Fresh(code, k, skip), NoAnswer)
    BY <1>1, <2>2 DEF Stands
  <2> DEFINE m == conn.method
             u == conn.url
             t == conn.target
             f == conn.found
  <2>5. CASE host
    <3>1. Once(f)
      BY <2>1, <2>5 DEF Once
    <3>2. p = asked.probed
      BY <2>5, <1>7 DEF Answering, AskedType
    <3>3. asked'.probed = asked.probed
      BY <1>7, <3>2
    <3> HIDE DEF p, q, hit, miss
    <3>4. m = conn.method /\ u = conn.url /\ t = conn.target /\ f = conn.found
      OBVIOUS
    <3>5. host = TRUE
      BY <2>5
    <3> HIDE DEF m, u, t
    <3>6. Hosted(m, u, t, f, code, k, skip, host, keep)
      BY <1>1, <1>3, <1>7, <2>2, <2>3, <3>1, <3>3, <3>4, <3>5 DEF Hosted
    <3> HIDE DEF f
    <3> QED
      BY <3>6, HostKeeps, Zenon
  <2>6. CASE ~host
    <3>1. host = FALSE
      BY <2>6
    <3>2. conn.res.skip = skip
      <4> DEFINE r == Fresh(code, k, skip)
      <4>1. r.skip = skip
        BY DEF Fresh, Resp
      <4> HIDE DEF r
      <4>2. conn = Rests("url", m, u, t, f, r, NoAnswer)
        BY <2>4 DEF r
      <4> HIDE DEF m, u, t, f
      <4>3. conn.res = r
        BY <4>2, RestsIs
      <4> QED
        BY <4>1, <4>3
    <3>3. skip = TRUE => asked'.probed
      BY <1>7, <2>6, <3>2
    <3> HIDE DEF m, u, t, f, p, q, hit, miss
    <3>4. conn = Rests("url", m, u, t, f, Fresh(code, k, skip), NoAnswer)
      BY <2>4 DEF m, u, t, f
    <3>5. Hostless(m, u, t, f, code, k, skip, host, keep)
      BY <1>3, <1>7, <3>1, <3>3, <3>4 DEF Hostless
    <3> QED
      BY <3>5, HostlessKeeps, Zenon
  <2> QED
    BY <2>5, <2>6
<1> QED
  BY <1>1, <1>7, <1>8, <1>9, StepKeeps

\* Until a catch-all handler's answer is ended twice, every response begins fresh
\* but for what the requests before it have left, and what is said is the rule's.
LEMMA AnsweringAlways == ExchangeSpec => []Answering
<1>1. ExchangeInit => Answering
  <2> SUFFICES ASSUME ExchangeInit PROVE Answering
    OBVIOUS
  <2>1. router.state = "new" /\ conn = NewConnection /\ asked = NothingAsked /\ said = NoAnswer
    BY DEF ExchangeInit
  <2>2. asked \in AskedType
    BY <2>1 DEF NothingAsked, AskedType
  <2> QED
    BY <2>1, <2>2 DEF Answering, RouterServes, AnswersAreRouted, AnswersAreFramed
<1>2. Answering /\ RouterServes' /\ [ExchangeNext]_exchangeVars => Answering'
  <2> SUFFICES ASSUME Answering, RouterServes', [ExchangeNext]_exchangeVars PROVE Answering'
    OBVIOUS
  <2>1. CASE Declare \/ Validate
    BY <2>1, StartKeeps
  <2>2. CASE RequestLine
    BY <2>2, RequestLineKeeps
  <2>3. CASE RestOfUrl
    BY <2>3, RestOfUrlKeeps
  <2>4. CASE Continue
    BY <2>4, ContinueKeeps
  <2>5. CASE HandleRequest
    BY <2>5, HandleRequestKeeps
  <2>6. CASE Connect
    BY <2>6, ConnectKeeps
  <2>7. CASE UNCHANGED exchangeVars
    BY <2>7, RestKeeps
  <2> QED
    BY <2>1, <2>2, <2>3, <2>4, <2>5, <2>6, <2>7 DEF ExchangeNext
<1> QED
  BY <1>1, <1>2, RouterServesAlways, PTL DEF ExchangeSpec

\* Whatever is asked, and after whatever was asked before on the connection, a
\* request is answered by its rule, by 404 or 405, or by what is allowed.
THEOREM AnswersAreRoutedAlways == ExchangeSpec => []AnswersAreRouted
<1>1. Answering => AnswersAreRouted
  BY DEF Answering
<1> QED
  BY <1>1, AnsweringAlways, PTL

\* The length an answer names is that of what follows it, and it says Keep-Alive
\* if it was asked to, or fills the response of a request that was.
THEOREM AnswersAreFramedAlways == ExchangeSpec => []AnswersAreFramed
<1>1. Answering => AnswersAreFramed
  BY DEF Answering
<1> QED
  BY <1>1, AnsweringAlways, PTL
=============================================================================
