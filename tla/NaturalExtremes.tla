-------------------------- MODULE NaturalExtremes --------------------------
(***************************************************************************)
(* That sets of natural numbers have least and greatest elements, and that *)
(* a finite sequence of them has a bound: what max() over the rows of a    *)
(* table or of a micro-batch rests on.                                     *)
(***************************************************************************)
EXTENDS Integers, WellFoundedInduction, TLAPS

\* A set of naturals that is not empty has a least element.
LEMMA LeastNatural ==
  ASSUME NEW T \in SUBSET Nat, T # {}
  PROVE  \E x \in T : \A y \in T : x <= y
<1>. DEFINE R == {p \in Nat \X Nat : p[1] < p[2]}
<1>1. IsWellFoundedOn(R, Nat)
  BY NatLessThanWellFounded DEF OpToRel
<1>2. \E x \in T : \A y \in T : <<y, x>> \notin R
  BY <1>1, WFMin
<1>3. PICK x \in T : \A y \in T : <<y, x>> \notin R
  BY <1>2
<1>4. \A y \in T : ~(y < x)
  BY <1>3
<1>5. x \in Nat /\ \A y \in T : y \in Nat
  OBVIOUS
<1> QED
  BY <1>4, <1>5

\* A set of naturals that has a bound and is not empty has a greatest element.
LEMMA GreatestNatural ==
  ASSUME NEW n \in Nat, NEW T \in SUBSET (0 .. n), T # {}
  PROVE  \E x \in T : \A y \in T : y <= x
<1>. DEFINE U == {n - x : x \in T}
<1>1. U \in SUBSET Nat /\ U # {}
  <2>1. \A x \in T : n - x \in Nat
    OBVIOUS
  <2> QED
    BY <2>1
<1>2. PICK u \in U : \A v \in U : u <= v
  BY <1>1, LeastNatural
<1>3. PICK x \in T : u = n - x
  OBVIOUS
<1>4. \A y \in T : u <= n - y
  BY <1>2
<1> QED
  BY <1>3, <1>4

\* The values of a function at 1 .. n have a bound, whatever they are: were there
\* an n for which they have none, the least such n would not be one.
LEMMA PrefixBounded ==
  ASSUME NEW n \in Nat, NEW f, \A i \in 1 .. n : f[i] \in Nat
  PROVE  \E b \in Nat : \A i \in 1 .. n : f[i] <= b
<1>. DEFINE Bounded(k) == \E b \in Nat : \A i \in 1 .. k : f[i] <= b
            T == {k \in 0 .. n : ~Bounded(k)}
<1>1. CASE T = {}
  BY <1>1
<1>2. CASE T # {}
  <2>0. T \in SUBSET Nat
    OBVIOUS
  <2>1. PICK k \in T : \A j \in T : k <= j
    <3> HIDE DEF T
    <3> QED
      BY <1>2, <2>0, LeastNatural
  <2>2. k \in 0 .. n /\ ~Bounded(k)
    BY <2>1
  <2>3. k # 0
    <3>1. \A i \in 1 .. 0 : f[i] <= 0
      OBVIOUS
    <3>2. Bounded(0)
      BY <3>1
    <3> QED
      BY <2>2, <3>2
  <2>4. Bounded(k - 1)
    <3>1. k - 1 \in 0 .. n /\ ~(k <= k - 1)
      BY <2>2, <2>3
    <3> HIDE DEF Bounded
    <3> QED
      BY <2>1, <3>1
  <2>5. PICK b \in Nat : \A i \in 1 .. k - 1 : f[i] <= b
    BY <2>4
  <2>6. f[k] \in Nat
    BY <2>2, <2>3
  <2>7. PICK c \in Nat : b <= c /\ f[k] <= c
    <3>1. CASE b <= f[k]
      BY <2>6, <3>1
    <3>2. CASE ~(b <= f[k])
      BY <2>6, <3>2
    <3> QED
      BY <3>1, <3>2
  <2>8. \A i \in 1 .. k : f[i] <= c
    <3> SUFFICES ASSUME NEW i \in 1 .. k PROVE f[i] <= c
      OBVIOUS
    <3>1. CASE i = k
      BY <2>7, <3>1
    <3>2. CASE i # k
      <4>1. i \in 1 .. k - 1 /\ f[i] \in Nat
        BY <2>2, <3>2
      <4>2. f[i] <= b
        BY <2>5, <4>1
      <4> QED
        BY <2>7, <4>1, <4>2
    <3> QED
      BY <3>1, <3>2
  <2>9. Bounded(k)
    BY <2>7, <2>8
  <2> QED
    BY <2>2, <2>9
<1> QED
  BY <1>1, <1>2
=============================================================================
