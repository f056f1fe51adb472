----------------------------- MODULE NatLemmas -----------------------------
(***************************************************************************)
(* Minimum and maximum of sets of natural numbers, as FiniteSetsExt defines *)
(* them.                                                                    *)
(***************************************************************************)
EXTENDS Integers, FiniteSetsExt, FiniteSetTheorems, WellFoundedInduction, TLAPS

\* A set of naturals has a least element.
LEMMA LeastNat ==
    ASSUME NEW T, T \subseteq Nat, T # {}
    PROVE  \E m \in T : \A x \in T : m <= x
<1> DEFINE R == OpToRel(<, Nat)
<1>1. IsWellFoundedOn(R, Nat)  BY NatLessThanWellFounded
<1>2. \A x, y \in Nat : x < y => <<x, y>> \in R  BY DEF OpToRel
<1> HIDE DEF R
<1>3. PICK m \in T : \A x \in T : ~(<<x, m>> \in R)  BY <1>1, WFMin
<1>4. ASSUME NEW x \in T PROVE m <= x
    <2>1. m \in Nat /\ x \in Nat  OBVIOUS
    <2>2. ~(x < m)  BY <1>2, <1>3, <2>1
    <2> QED  BY <2>1, <2>2
<1> QED  BY <1>4

\* A bounded set of naturals has a greatest element.
LEMMA GreatestNat ==
    ASSUME NEW S, S \subseteq Nat, S # {}, NEW N \in Nat, \A x \in S : x <= N
    PROVE  \E m \in S : \A x \in S : x <= m
<1> DEFINE T == {y \in Nat : \E x \in S : x + y = N}
<1>1. \A x \in S : N - x \in T  OBVIOUS
<1>2. T # {} /\ T \subseteq Nat  BY <1>1
<1>3. PICK n \in T : \A y \in T : n <= y
    <2> HIDE DEF T
    <2> QED  BY <1>2, LeastNat
<1>4. PICK m \in S : m + n = N  OBVIOUS
<1>5. ASSUME NEW x \in S PROVE x <= m
    <2>1. n <= N - x  BY <1>1, <1>3
    <2>2. x \in Nat /\ m \in Nat /\ n \in Nat  OBVIOUS
    <2> QED  BY <1>4, <2>1, <2>2
<1> QED  BY <1>5

\* Induction, for a property given as a set.
LEMMA NatSetInduction ==
    ASSUME NEW T, 0 \in T, \A n \in Nat : n \in T => n + 1 \in T
    PROVE  \A n \in Nat : n \in T
<1> SUFFICES ASSUME NEW n \in Nat, n \notin T PROVE FALSE  OBVIOUS
<1> DEFINE S == Nat \ T
<1>1. S \subseteq Nat /\ S # {}  OBVIOUS
<1>2. PICK m \in S : \A x \in S : m <= x
    <2> HIDE DEF S
    <2> QED  BY <1>1, LeastNat
<1>3. m \in Nat /\ m # 0  OBVIOUS
<1>4. m - 1 \in Nat /\ m - 1 + 1 = m  BY <1>3
<1>5. m - 1 \notin S
    <2> HIDE DEF S
    <2> QED  BY <1>2, <1>3
<1>6. m - 1 \in T  BY <1>4, <1>5
<1>7. m \in T  BY <1>4, <1>6
<1> QED  BY <1>7

LEMMA MinOfNats ==
    ASSUME NEW S, S \subseteq Nat, S # {}
    PROVE  Min(S) \in S /\ \A x \in S : Min(S) <= x
<1>1. \E m \in S : \A x \in S : m <= x  BY LeastNat
<1> QED  BY <1>1 DEF Min

LEMMA MaxOfNats ==
    ASSUME NEW S, S \subseteq Nat, S # {}, NEW N \in Nat, \A x \in S : x <= N
    PROVE  Max(S) \in S /\ \A x \in S : x <= Max(S)
<1>1. PICK m \in S : \A x \in S : x <= m  BY GreatestNat
<1>2. \A x \in S : m >= x  BY <1>1
<1>3. Max(S) \in S /\ \A x \in S : Max(S) >= x  BY <1>2 DEF Max
<1>4. \A x \in S : x \in Nat /\ Max(S) \in Nat  BY <1>3
<1> QED  BY <1>3, <1>4

============================================================================
