------------------------------ MODULE Induction ------------------------------
(* Induction in the form the proofs about recursive functions need it.     *)
EXTENDS Naturals, WellFoundedInduction, TLAPS

\* Induction over the naturals, by sets: every nonempty set of naturals, the
\* numbers a set lacks, has a least one.
LEMMA NumbersInduct ==
  ASSUME NEW S, 0 \in S, \A n \in Nat : n \in S => n + 1 \in S
  PROVE  Nat \subseteq S
<1> DEFINE T == Nat \ S
<1>1. SUFFICES ASSUME T # {} PROVE FALSE
  OBVIOUS
<1>2. IsWellFoundedOn(OpToRel(<, Nat), Nat)
  BY NatLessThanWellFounded, Zenon
<1>3. T \subseteq Nat
  OBVIOUS
<1> HIDE DEF T
<1>4. PICK n \in T : \A m \in T : ~(<<m, n>> \in OpToRel(<, Nat))
  BY <1>1, <1>2, <1>3, WFMin, Zenon
<1>5. \A m \in T : ~(m < n)
  BY <1>3, <1>4 DEF OpToRel
<1>6. n \in Nat /\ n # 0
  BY <1>3 DEF T
<1>7. n - 1 \in Nat /\ n - 1 < n
  BY <1>6
<1>8. n - 1 \in S
  BY <1>5, <1>7 DEF T
<1>9. (n - 1) + 1 \in S
  BY <1>7, <1>8
<1> QED
  BY <1>6, <1>9 DEF T
=============================================================================
