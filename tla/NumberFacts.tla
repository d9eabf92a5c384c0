----------------------------- MODULE NumberFacts -----------------------------
(***************************************************************************)
(* What Min and Max return: the provers know neither.                      *)
(***************************************************************************)
EXTENDS Integers, FiniteSetsExt, WellFoundedInduction, TLAPS

\* A nonempty set of naturals has a least element: the loops of the code that search
\* for the first index with some property find one.
LEMMA NatMin ==
  ASSUME NEW T, T \subseteq Nat, T # {}
  PROVE  \E x \in T : \A y \in T : x <= y
<1>1. IsWellFoundedOn(OpToRel(<, Nat), Nat)
  BY NatLessThanWellFounded
<1>2. PICK x \in T : \A y \in T : ~(<<y, x>> \in OpToRel(<, Nat))
  BY <1>1, WFMin
<1>3. \A y \in T : ~(y < x)
  BY <1>2 DEF OpToRel
<1>4. x \in T
  OBVIOUS
<1> QED
  BY <1>3, <1>4

\* What Min returns.
LEMMA MinType ==
  ASSUME NEW T, T \subseteq Nat, T # {}
  PROVE  Min(T) \in T /\ \A y \in T : Min(T) <= y
BY NatMin DEF Min

\* What Max returns on a set that lies below some number.
LEMMA MaxType ==
  ASSUME NEW T, NEW b \in Nat, T \subseteq 0..b, T # {}
  PROVE  Max(T) \in T /\ \A y \in T : y <= Max(T)
<1> DEFINE R == {x \in 0..b : b - x \in T}
<1>1. R \subseteq Nat /\ R # {}
  <2>1. PICK y \in T : TRUE
    OBVIOUS
  <2>2. b - y \in 0..b /\ b - (b - y) = y
    BY <2>1
  <2>3. b - y \in R
    BY <2>1, <2>2
  <2>4. R \subseteq Nat
    OBVIOUS
  <2> HIDE DEF R
  <2> QED
    BY <2>3, <2>4
<1>2. PICK x \in R : \A y \in R : x <= y
  BY <1>1, NatMin
<1>3. b - x \in T
  BY <1>2
<1>4. \A y \in T : y <= b - x
  <2> SUFFICES ASSUME NEW y \in T PROVE y <= b - x
    OBVIOUS
  <2>1. b - y \in R
    <3>1. y \in 0..b
      OBVIOUS
    <3>2. b - y \in 0..b /\ b - (b - y) = y
      BY <3>1
    <3> QED
      BY <3>2
  <2>2. x <= b - y /\ x \in 0..b /\ y \in 0..b
    BY <1>2, <2>1
  <2> QED
    BY <2>2
<1> QED
  BY <1>3, <1>4 DEF Max
===============================================================================
