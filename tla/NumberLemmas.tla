----------------------------- MODULE NumberLemmas -----------------------------
(***************************************************************************)
(* Facts about numbers that several proofs need.  Unsigned counters are    *)
(* numbers modulo the size M of a machine word: the pool's freeLength and  *)
(* the thread pool's queue sizes are raised and lowered by threads in any  *)
(* order and may pass below zero on the way.                               *)
(***************************************************************************)
EXTENDS Integers, WellFoundedInduction, TLAPS

\* Numbers a multiple of the word's size apart are the same word.
LEMMA ModPeriod ==
  ASSUME NEW M \in Nat \ {0}, NEW n \in Int, NEW m \in Int, NEW k \in Int,
         m = n + M * k
  PROVE  m % M = n % M
<1> DEFINE qn == n \div M  rn == n % M
           qm == m \div M  rm == m % M
<1>1. /\ n = M * qn + rn /\ qn \in Int /\ rn \in 0 .. M - 1
      /\ m = M * qm + rm /\ qm \in Int /\ rm \in 0 .. M - 1
  OBVIOUS
<1>2. m = n + M * k OBVIOUS
<1> SUFFICES rm = rn
  OBVIOUS
<1> HIDE DEF qn, rn, qm, rm
<1>3. M * (qm - qn - k) = rn - rm BY <1>1, <1>2
<1>4. rn - rm < M /\ rn - rm > -M BY <1>1
<1>5. PICK e \in Int : e = qm - qn - k BY <1>1
<1>6. M * e = rn - rm BY <1>3, <1>5
<1>7. e = 0
  <2>1. e >= 1 => M * e >= M OBVIOUS
  <2>2. e <= -1 => M * e <= -M OBVIOUS
  <2>3. rn - rm \in Int BY <1>1
  <2>4. QED BY <1>4, <1>6, <2>1, <2>2, <2>3
<1>8. QED BY <1>1, <1>6, <1>7

\* Adding to the word is adding to the number it stands for.
LEMMA ModAdds ==
  ASSUME NEW M \in Nat \ {0}, NEW n \in Int, NEW d \in Int
  PROVE  ((n % M) + d) % M = (n + d) % M
<1> DEFINE q == n \div M  r == n % M
<1>1. n = M * q + r /\ q \in Int /\ r \in Int OBVIOUS
<1> SUFFICES (r + d) % M = (n + d) % M
  OBVIOUS
<1> HIDE DEF q, r
<1>2. n + d = (r + d) + M * q /\ n + d \in Int /\ r + d \in Int
  BY <1>1
<1>3. QED BY <1>1, <1>2, ModPeriod

\* A set of naturals that is not empty has a least element: a chain of block or
\* node pointers that keeps going down ends.
LEMMA LeastNat ==
  ASSUME NEW T \in SUBSET Nat, T # {}
  PROVE  \E x \in T : \A y \in T : x <= y
<1>1. IsWellFoundedOn(OpToRel(<, Nat), Nat) BY NatLessThanWellFounded
<1>2. PICK x \in T : \A y \in T : ~ (<<y, x>> \in OpToRel(<, Nat))
  BY <1>1, WFMin
<1>3. \A y \in T : ~(y < x) BY <1>2 DEF OpToRel
<1>4. QED BY <1>3

===============================================================================
