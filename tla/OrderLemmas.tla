---------------------------- MODULE OrderLemmas ----------------------------
(***************************************************************************)
(* Least and greatest members of sets of numbers, for the operators that   *)
(* choose one.  That every set of numbers has a least member also replaces *)
(* induction: a statement that fails for some number fails for a least one *)
(* of those.                                                               *)
(***************************************************************************)
EXTENDS Integers, TLAPS, WellFoundedInduction

LEMMA Least ==
  ASSUME NEW S, S \subseteq Nat, S # {}
  PROVE  \E m \in S : \A n \in S : m <= n
<1>1. \E m \in S : \A n \in S : ~ (<<n, m>> \in OpToRel(<, Nat))
  BY NatLessThanWellFounded, WFMin
<1>2. PICK m \in S : \A n \in S : ~ (<<n, m>> \in OpToRel(<, Nat))
  BY <1>1
<1>3. ASSUME NEW n \in S
      PROVE  m <= n
  <2>1. n \in Nat /\ m \in Nat
    OBVIOUS
  <2>2. ~ (<<n, m>> \in OpToRel(<, Nat))
    BY <1>2
  <2>3. ~ (n < m)
    BY <2>1, <2>2 DEF OpToRel
  <2> HIDE <1>2
  <2> QED BY <2>1, <2>3
<1> QED BY <1>3

LEMMA Greatest ==
  ASSUME NEW n \in Nat, NEW S, S \subseteq 0..n, S # {}
  PROVE  \E m \in S : \A k \in S : m >= k
<1> DEFINE T == {k \in 0..n : n - k \in S}
<1>1. T \subseteq Nat
  OBVIOUS
<1>2. T # {}
  <2>1. PICK k \in S : k \in 0..n
    OBVIOUS
  <2>2. n - k \in 0..n /\ n - (n - k) = k
    BY <2>1
  <2> QED BY <2>1, <2>2
<1>3. PICK t \in T : \A k \in T : t <= k
  BY <1>1, <1>2, Least
<1>4. t \in 0..n /\ n - t \in S
  BY <1>3
<1>5. ASSUME NEW k \in S PROVE n - t >= k
  <2>1. k \in 0..n
    OBVIOUS
  <2>2. n - k \in 0..n /\ n - (n - k) = k
    BY <2>1
  <2>3. n - k \in T
    BY <2>2
  <2>4. t <= n - k
    BY <1>3, <2>3
  <2> HIDE DEF T
  <2> QED BY <1>4, <2>1, <2>4
<1> QED BY <1>4, <1>5
=============================================================================
