-------------------------- MODULE InductionLemmas --------------------------
(* Induction over the natural numbers and over finite sets, for properties *)
(* given as the sets of what has them.                                     *)
EXTENDS Integers, FiniteSets, Folds, Functions, FiniteSetTheorems,
        WellFoundedInduction, TLAPS

LEMMA LeastNat ==
    ASSUME NEW T \in SUBSET Nat, T # {}
    PROVE  \E m \in T : \A k \in T : m \leq k
<1> DEFINE R == OpToRel(<, Nat)
<1>1. IsWellFoundedOn(R, Nat)
  BY NatLessThanWellFounded
<1>2. \A x, y \in Nat : <<y, x>> \in R <=> y < x
  BY DEF OpToRel
<1> HIDE DEF R
<1>3. \E x \in T : \A y \in T : ~(<<y, x>> \in R)
  BY <1>1, WFMin
<1>4. PICK x \in T : \A y \in T : ~(y < x)
  BY <1>2, <1>3
<1>5. \A y \in T : x \leq y
  <2> TAKE y \in T
  <2>1. x \in Nat /\ y \in Nat /\ ~(y < x)
    BY <1>4
  <2>2. QED
    BY <2>1
<1>6. QED
  BY <1>5

(* A set of numbers that holds 0 and the successor of each is all of Nat.  *)
LEMMA SetInduction ==
    ASSUME NEW T, 0 \in T, \A n \in Nat : n \in T => n + 1 \in T
    PROVE  Nat \subseteq T
<1> DEFINE B == {n \in Nat : n \notin T}
<1> SUFFICES ASSUME B # {} PROVE FALSE
  OBVIOUS
<1>1. PICK m \in B : \A k \in B : m \leq k
  BY LeastNat
<1>2. m # 0 /\ m - 1 \in Nat /\ m - 1 \notin B
  BY <1>1
<1>3. QED
  BY <1>1, <1>2

(* A family of finite sets that holds {}, and each set of which it holds   *)
(* one with an element less, holds all.                                    *)
LEMMA FiniteInduction ==
    ASSUME NEW D, IsFiniteSet(D), NEW F, {} \in F,
           \A s \in SUBSET D : s # {} /\ (\A x \in s : s \ {x} \in F) => s \in F
    PROVE  SUBSET D \subseteq F
<1> DEFINE T == {n \in Nat : \A s \in SUBSET D : Cardinality(s) \leq n => s \in F}
<1>1. \A s \in SUBSET D :
         /\ IsFiniteSet(s) /\ Cardinality(s) \in Nat
         /\ Cardinality(s) = 0 => s = {}
         /\ \A x \in s : Cardinality(s \ {x}) = Cardinality(s) - 1
  BY FS_Subset, FS_CardinalityType, FS_EmptySet, FS_RemoveElement
<1>2. 0 \in T
  <2>1. \A s \in SUBSET D : Cardinality(s) \leq 0 => s = {}
    BY <1>1
  <2>2. QED
    BY <2>1
<1>3. ASSUME NEW n \in Nat, n \in T
      PROVE  n + 1 \in T
  <2>1. ASSUME NEW s \in SUBSET D, Cardinality(s) \leq n + 1
        PROVE  s \in F
    <3>1. CASE s = {}
      BY <3>1
    <3>2. CASE s # {}
      <4>1. \A x \in s : s \ {x} \in SUBSET D /\ Cardinality(s \ {x}) \leq n
        BY <1>1, <2>1
      <4>2. \A x \in s : s \ {x} \in F
        BY <4>1, <1>3
      <4>3. QED
        BY <4>2, <3>2
    <3>3. QED
      BY <3>1, <3>2
  <2>2. QED
    BY <2>1
<1>4. Nat \subseteq T
  <2> HIDE DEF T
  <2>1. QED
    BY <1>2, <1>3, SetInduction
<1>5. QED
  BY <1>1, <1>4

-----------------------------------------------------------------------------
(* The sum of an integer-valued function, as FoldFunction computes it.     *)

SumOf(f) == FoldFunction(LAMBDA a, b : a + b, 0, f)

(* What each step of the fold adds to the rest.                            *)
AnyOf(s) == CHOOSE x \in s : TRUE

LEMMA SumIterates ==
    ASSUME NEW f, IsFiniteSet(DOMAIN f)
    PROVE  \E it : /\ SumOf(f) = it[DOMAIN f]
                   /\ it = [s \in SUBSET (DOMAIN f) |->
                               IF s = {} THEN 0 ELSE f[AnyOf(s)] + it[s \ {AnyOf(s)}]]
<1> DEFINE D == DOMAIN f
           Step(g) == [s \in SUBSET D |->
                          IF s = {} THEN 0 ELSE f[AnyOf(s)] + g[s \ {AnyOf(s)}]]
           it == CHOOSE g : g = Step(g)
<1>1. SumOf(f) = it[D]
  BY DEF SumOf, FoldFunction, FoldFunctionOnSet, MapThenFoldSet, AnyOf
<1>2. \E g : g = Step(g)
  <2> DEFINE Good(g, s) == g[s] = IF s = {} THEN 0 ELSE f[AnyOf(s)] + g[s \ {AnyOf(s)}]
             Upto(n) == {s \in SUBSET D : Cardinality(s) \leq n}
             T == {n \in Nat : \E g : \A s \in Upto(n) : Good(g, s)}
  <2>1. \A s \in SUBSET D :
           /\ Cardinality(s) \in Nat /\ Cardinality(s) \leq Cardinality(D)
           /\ s # {} => /\ AnyOf(s) \in s /\ s \ {AnyOf(s)} \in SUBSET D
                        /\ Cardinality(s \ {AnyOf(s)}) = Cardinality(s) - 1
           /\ Cardinality(s) = 0 => s = {}
    BY FS_Subset, FS_CardinalityType, FS_EmptySet, FS_RemoveElement DEF AnyOf
  <2>2. 0 \in T
    <3> DEFINE g == [s \in SUBSET D |-> 0]
    <3>1. \A s \in Upto(0) : s = {}
      <4>1. \A s \in SUBSET D : Cardinality(s) \in Nat /\ (Cardinality(s) = 0 => s = {})
        BY <2>1
      <4>2. \A k \in Nat : k \leq 0 => k = 0
        OBVIOUS
      <4>3. QED
        BY <4>1, <4>2
    <3>2. \A s \in Upto(0) : Good(g, s)
      BY <3>1
    <3>3. QED
      BY <3>2
  <2>3. ASSUME NEW n \in Nat, n \in T
        PROVE  n + 1 \in T
    <3>1. PICK g : \A s \in Upto(n) : Good(g, s)
      BY <2>3
    <3> DEFINE h == Step(g)
    <3>2. \A s \in Upto(n) : h[s] = g[s]
      BY <3>1
    <3>3. \A s \in Upto(n + 1) : s # {} => s \ {AnyOf(s)} \in Upto(n)
      BY <2>1
    <3>4. \A s \in Upto(n + 1) : Good(h, s)
      BY <3>2, <3>3
    <3>5. \E x : \A s \in Upto(n + 1) : Good(x, s)
      <4> HIDE DEF h, Upto, Good
      <4>1. QED
        BY <3>4
    <3>6. n + 1 \in Nat
      BY <2>3
    <3>7. QED
      <4> HIDE DEF Upto, Good
      <4>1. QED
        BY <3>5, <3>6
  <2>4. Nat \subseteq T
    <3> HIDE DEF T
    <3>1. QED
      BY <2>2, <2>3, SetInduction
  <2>5. Cardinality(D) \in T /\ Upto(Cardinality(D)) = SUBSET D
    BY <2>1, <2>4
  <2>6. PICK g : \A s \in SUBSET D : Good(g, s)
    BY <2>5
  <2>7. Step(g) = Step(Step(g))
    BY <2>1, <2>6
  <2>8. QED
    BY <2>7
<1>3. it = Step(it)
  BY <1>2
<1>4. QED
  BY <1>1, <1>3

(* A mean is not above all of its numbers.                                 *)
LEMMA SumBelow ==
    ASSUME NEW f, IsFiniteSet(DOMAIN f), NEW b \in Int,
           \A d \in DOMAIN f : f[d] \in Int /\ f[d] < b
    PROVE  /\ SumOf(f) \in Int
           /\ DOMAIN f # {} => SumOf(f) < b * Cardinality(DOMAIN f)
<1> DEFINE D == DOMAIN f
<1>1. PICK it : /\ SumOf(f) = it[D]
                /\ it = [s \in SUBSET D |->
                            IF s = {} THEN 0 ELSE f[AnyOf(s)] + it[s \ {AnyOf(s)}]]
  BY SumIterates
<1> DEFINE Bound(s) == /\ it[s] \in Int
                       /\ it[s] \leq b * Cardinality(s)
                       /\ s # {} => it[s] < b * Cardinality(s)
           F == {s \in SUBSET D : Bound(s)}
<1>2. it[{}] = 0 /\ \A s \in SUBSET D : s # {} => it[s] = f[AnyOf(s)] + it[s \ {AnyOf(s)}]
  BY <1>1
<1> HIDE DEF D
<1>3. IsFiniteSet(D)
  BY DEF D
<1>4. {} \in F
  <2>1. Cardinality({}) = 0
    BY FS_EmptySet
  <2>2. b * 0 = 0
    OBVIOUS
  <2>3. QED
    BY <1>2, <2>1, <2>2
<1>5. ASSUME NEW s \in SUBSET D, s # {}, \A x \in s : s \ {x} \in F
      PROVE  s \in F
  <2> DEFINE x == AnyOf(s)
             r == s \ {x}
  <2>1. x \in s
    BY <1>5 DEF AnyOf
  <2>2. it[s] = f[x] + it[r] /\ Bound(r)
    BY <1>2, <1>5, <2>1
  <2>3. Cardinality(s) \in Nat /\ Cardinality(r) = Cardinality(s) - 1
    BY <1>3, <2>1, FS_Subset, FS_CardinalityType, FS_RemoveElement
  <2>4. f[x] \in Int /\ f[x] < b
    BY <2>1 DEF D
  <2> HIDE DEF x, r
  <2>5. b * Cardinality(s) = b * Cardinality(r) + b
    BY <2>3
  <2>6. b * Cardinality(r) \in Int
    BY <2>3
  <2>7. Bound(s)
    BY <2>2, <2>4, <2>5, <2>6
  <2>8. QED
    BY <2>7
<1>6. D \in F
  <2> HIDE DEF F
  <2>1. QED
    BY <1>3, <1>4, <1>5, FiniteInduction
<1>7. QED
  BY <1>1, <1>6 DEF D
=============================================================================
