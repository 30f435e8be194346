--------------------------- MODULE RoomCasting_proofs --------------------------
(***************************************************************************)
(* The arithmetic of a room, for any number of seats, of archetypes and    *)
(* sources: folds, orders and totals over finite sets, and with them that  *)
(* _fair_share, apportion and the deal of a cohort are fair.               *)
(***************************************************************************)
EXTENDS MCSimulation, FiniteSetTheorems, SequenceTheorems, TLAPS

-----------------------------------------------------------------------------
(***************************************************************************)
(* Folds over a finite set and orders of one.  A fold picks an element,    *)
(* folds the rest and takes a step; an order ranks by what comes before.   *)
(***************************************************************************)
LEMMA LeastNatural ==
  ASSUME NEW T, T \subseteq Nat, T # {}
  PROVE  \E m \in T : \A k \in T : m <= k
<1> DEFINE R == OpToRel(<, Nat)
<1>1. R = {p \in Nat \X Nat : p[1] < p[2]}  BY Zenon DEF OpToRel
<1>2. IsWellFoundedOn(R, Nat)  BY NatLessThanWellFounded, Zenon
<1> HIDE DEF R
<1>3. PICK m \in T : \A k \in T : ~(<<k, m>> \in R)  BY <1>2, WFMin, Zenon
<1>4. ASSUME NEW k \in T PROVE m <= k
  <2>1. k \in Nat /\ m \in Nat  OBVIOUS
  <2>2. ~(k < m)  BY <1>1, <1>3, <2>1
  <2>3. QED  BY <2>1, <2>2
<1>5. QED  BY <1>4

LEMMA LeastSubset ==
  ASSUME NEW D, IsFiniteSet(D), NEW T, T \subseteq SUBSET D, T # {}
  PROVE  \E s \in T : \A t \in T : t \subseteq s => t = s
<1>1. FiniteSubsetsOf(D) = SUBSET D  BY FS_FiniteSubsetsOfFinite
<1>2. IsWellFoundedOn(StrictSubsetOrdering(D), SUBSET D)
  BY <1>1, FS_StrictSubsetOrderingWellFounded
<1>3. PICK s \in T : \A t \in T : ~(<<t, s>> \in StrictSubsetOrdering(D))
  BY <1>2, WFMin, Zenon
<1>4. QED  BY <1>3 DEF StrictSubsetOrdering

(* What holds of nothing, and of a set when it holds of the set without    *)
(* one of its elements, holds of a finite set.                             *)
Grows(D, Holds) ==
  {} \in Holds /\ \A s \in SUBSET D : s # {} => \E x \in s : s \ {x} \in Holds => s \in Holds
LEMMA FoldsStay == ASSUME NEW D, IsFiniteSet(D), NEW Holds, Grows(D, Holds) PROVE D \in Holds
<1> USE DEF Grows
<1> SUFFICES SUBSET D \subseteq Holds  OBVIOUS
<1> DEFINE T == {s \in SUBSET D : s \notin Holds}
<1> SUFFICES ASSUME T # {} PROVE FALSE  OBVIOUS
<1>1. PICK s \in T : \A t \in T : t \subseteq s => t = s
  <2>1. T \subseteq SUBSET D  OBVIOUS
  <2> HIDE DEF T
  <2>2. QED  BY <2>1, LeastSubset
<1>2. s \in SUBSET D /\ s \notin Holds  OBVIOUS
<1>3. s # {}  BY <1>2
<1>4. PICK x \in s : s \ {x} \in Holds => s \in Holds  BY <1>2, <1>3
<1>5. s \ {x} \subseteq s /\ s \ {x} # s /\ s \ {x} \in SUBSET D  BY <1>2, <1>4
<1>6. QED  BY <1>1, <1>2, <1>4, <1>5

(* There is a function that folds every subset.                            *)
Folds(f, D, base, pick, step) ==
  \A s \in SUBSET D : f[s] = IF s = {} THEN base ELSE step[<<pick[s], f[s \ {pick[s]}]>>]
Foldable(D, B, base, pick, step) ==
  /\ base \in B /\ \A s \in SUBSET D : s # {} => pick[s] \in s
  /\ \A x \in D, b \in B : step[<<x, b>>] \in B
LEMMA FoldsExist ==
  ASSUME NEW D, IsFiniteSet(D), NEW B, NEW base, NEW pick, NEW step, Foldable(D, B, base, pick, step)
  PROVE  \E f \in [SUBSET D -> B] : Folds(f, D, base, pick, step)
<1> USE DEF Foldable
<1> DEFINE Upto(n, f) == \A s \in SUBSET D : Cardinality(s) <= n =>
                           f[s] = IF s = {} THEN base ELSE step[<<pick[s], f[s \ {pick[s]}]>>]
           None == {n \in Nat : ~\E f \in [SUBSET D -> B] : Upto(n, f)}
<1>1. \A s \in SUBSET D : IsFiniteSet(s) /\ Cardinality(s) \in Nat /\ Cardinality(s) <= Cardinality(D)
  BY FS_Subset, FS_CardinalityType
<1>2. None = {}
  <2> SUFFICES ASSUME None # {} PROVE FALSE  OBVIOUS
  <2>1. PICK n \in None : \A k \in None : n <= k
    <3>1. None \subseteq Nat  OBVIOUS
    <3> HIDE DEF None
    <3>2. QED  BY <3>1, LeastNatural
  <2>2. n # 0
    <3>1. [s \in SUBSET D |-> base] \in [SUBSET D -> B]  OBVIOUS
    <3>2. Upto(0, [s \in SUBSET D |-> base])  BY <1>1, FS_EmptySet
    <3> HIDE DEF Upto
    <3>3. 0 \notin None  BY <3>1, <3>2
    <3>4. QED  BY <3>3
  <2>3. n \in Nat /\ n - 1 \in Nat /\ ~(n <= n - 1)  BY <2>2
  <2>4. PICK f \in [SUBSET D -> B] : Upto(n - 1, f)  BY <2>1, <2>3
  <2> DEFINE h == [s \in SUBSET D |-> IF Cardinality(s) <= n - 1 \/ s = {} THEN f[s]
                                      ELSE step[<<pick[s], f[s \ {pick[s]}]>>]]
  <2>5. h \in [SUBSET D -> B]
    <3>1. \A s \in SUBSET D : s # {} => pick[s] \in D /\ f[s \ {pick[s]}] \in B  OBVIOUS
    <3>2. QED  BY <3>1
  <2>6. ASSUME NEW s \in SUBSET D, Cardinality(s) <= n
        PROVE  h[s] = IF s = {} THEN base ELSE step[<<pick[s], h[s \ {pick[s]}]>>]
    <3>1. CASE s = {}
      <4>1. Cardinality(s) <= n - 1  BY <2>3, <3>1, FS_EmptySet
      <4>2. QED  BY <2>4, <3>1, <4>1
    <3>2. CASE s # {}
      <4>1. s \ {pick[s]} \in SUBSET D /\ Cardinality(s \ {pick[s]}) = Cardinality(s) - 1
        BY <1>1, <3>2, FS_RemoveElement
      <4>2. Cardinality(s \ {pick[s]}) <= n - 1  BY <1>1, <2>3, <2>6, <4>1
      <4>3. h[s \ {pick[s]}] = f[s \ {pick[s]}]  BY <4>1, <4>2
      <4>4. h[s] = step[<<pick[s], f[s \ {pick[s]}]>>]
        BY <2>4, <3>2
      <4>5. QED  BY <3>2, <4>3, <4>4
    <3>3. QED  BY <3>1, <3>2
  <2> HIDE DEF h
  <2>7. QED  BY <2>1, <2>5, <2>6
<1>3. Cardinality(D) \in Nat  BY FS_CardinalityType
<1>4. PICK f \in [SUBSET D -> B] : Upto(Cardinality(D), f)  BY <1>2, <1>3
<1>5. QED  BY <1>1, <1>4, Zenon DEF Folds

(* A strict total order of a finite set lists it.                          *)
LEMMA OrdersExist ==
  ASSUME NEW S, IsFiniteSet(S), NEW R,
         \A x \in S : <<x, x>> \notin R,
         \A x, y \in S : x # y => <<x, y>> \in R \/ <<y, x>> \in R,
         \A x, y, z \in S : <<x, y>> \in R /\ <<y, z>> \in R => <<x, z>> \in R
  PROVE  \E p \in [1..Cardinality(S) -> S] : \A i, j \in 1..Cardinality(S) :
           i < j => p[i] # p[j] /\ <<p[i], p[j]>> \in R
<1> DEFINE n == Cardinality(S)
           below(x) == {y \in S : <<y, x>> \in R}
           rank == [x \in S |-> Cardinality(below(x)) + 1]
<1>1. n \in Nat  BY FS_CardinalityType
<1>2. ASSUME NEW x \in S PROVE IsFiniteSet(below(x)) /\ Cardinality(below(x)) \in 0..(n - 1)
  <2>1. IsFiniteSet(S \ {x}) /\ Cardinality(S \ {x}) = n - 1  BY FS_RemoveElement
  <2>2. below(x) \in SUBSET (S \ {x})  OBVIOUS
  <2> HIDE DEF below
  <2>3. IsFiniteSet(below(x)) /\ Cardinality(below(x)) <= Cardinality(S \ {x})  BY <2>1, <2>2, FS_Subset
  <2>4. Cardinality(below(x)) \in Nat  BY <2>3, FS_CardinalityType
  <2>5. QED  BY <1>1, <2>1, <2>3, <2>4
<1>3. ASSUME NEW x \in S, NEW y \in S, <<x, y>> \in R
      PROVE  Cardinality(below(x)) < Cardinality(below(y))
  <2>1. below(x) \in SUBSET below(y) /\ x \in below(y) /\ x \notin below(x)  BY <1>3
  <2> HIDE DEF below
  <2>2. below(x) # below(y)  BY <2>1
  <2>3. Cardinality(below(x)) <= Cardinality(below(y)) /\ Cardinality(below(x)) # Cardinality(below(y))
    BY <1>2, <2>1, <2>2, FS_Subset
  <2>4. Cardinality(below(x)) \in 0..(n - 1) /\ Cardinality(below(y)) \in 0..(n - 1)  BY <1>2
  <2>5. QED  BY <1>1, <2>3, <2>4
<1>4. rank \in [S -> 1..n]
  <2> HIDE DEF below, n
  <2>1. \A x \in S : Cardinality(below(x)) + 1 \in 1..n  BY <1>1, <1>2
  <2>2. QED  BY <2>1
<1>5. \A x, y \in S : x # y => rank[x] # rank[y]
  <2> SUFFICES ASSUME NEW x \in S, NEW y \in S, x # y PROVE rank[x] # rank[y]  OBVIOUS
  <2> HIDE DEF below, n
  <2>1. Cardinality(below(x)) \in 0..(n - 1) /\ Cardinality(below(y)) \in 0..(n - 1)  BY <1>2
  <2>2. Cardinality(below(x)) # Cardinality(below(y))
    <3>1. CASE <<x, y>> \in R  BY <1>1, <1>3, <2>1, <3>1
    <3>2. CASE <<y, x>> \in R  BY <1>1, <1>3, <2>1, <3>2
    <3>3. QED  BY <3>1, <3>2
  <2>3. QED  BY <1>1, <2>1, <2>2
<1>6. IsFiniteSet(1..n) /\ Cardinality(1..n) = n
  <2> HIDE DEF n
  <2>1. 1 \in Int /\ n \in Int  BY <1>1
  <2>2. IsFiniteSet(1..n) /\ Cardinality(1..n) = IF 1 > n THEN 0 ELSE n - 1 + 1
    BY <2>1, FS_Interval, Zenon
  <2>3. QED  BY <1>1, <2>2
<1> HIDE DEF rank
<1>7. rank \in Surjection(S, 1..n)
  <2>1. rank \in Injection(S, 1..n)  BY <1>4, <1>5 DEF Injection, IsInjective
  <2>2. Cardinality(S) = Cardinality(1..n)  BY <1>6
  <2> HIDE DEF n
  <2>3. QED  BY <1>6, <2>1, <2>2, FS_Injection
<1>8. \A i \in 1..n : \E x \in S : rank[x] = i
  <2> HIDE DEF n
  <2>1. QED  BY <1>7 DEF Surjection
<1> DEFINE p == [i \in 1..n |-> CHOOSE x \in S : rank[x] = i]
<1>9. p \in [1..n -> S] /\ \A i \in 1..n : rank[p[i]] = i
  <2> HIDE DEF n
  <2>1. QED  BY <1>8
<1>10. ASSUME NEW i \in 1..n, NEW j \in 1..n, i < j PROVE p[i] # p[j] /\ <<p[i], p[j]>> \in R
  <2> HIDE DEF p
  <2>1. p[i] \in S /\ p[j] \in S  BY <1>9
  <2> HIDE DEF n
  <2>2. rank[p[i]] = i /\ rank[p[j]] = j /\ i # j  BY <1>1, <1>9, <1>10
  <2>3. p[i] # p[j]  BY <2>2
  <2>4. <<p[j], p[i]>> \notin R
    <3> SUFFICES ASSUME <<p[j], p[i]>> \in R PROVE FALSE  OBVIOUS
    <3>1. Cardinality(below(p[j])) < Cardinality(below(p[i]))  BY <1>3, <2>1
    <3> HIDE DEF below
    <3>2. rank[p[i]] = Cardinality(below(p[i])) + 1 /\ rank[p[j]] = Cardinality(below(p[j])) + 1
      BY <2>1 DEF rank
    <3>3. Cardinality(below(p[i])) \in 0..(n - 1) /\ Cardinality(below(p[j])) \in 0..(n - 1)  BY <1>2, <2>1
    <3> DEFINE a == Cardinality(below(p[i]))  b == Cardinality(below(p[j]))
    <3>4. a \in 0..(n - 1) /\ b \in 0..(n - 1) /\ b < a /\ i = a + 1 /\ j = b + 1
      BY <2>2, <3>1, <3>2, <3>3
    <3> HIDE DEF a, b
    <3>5. QED  BY <1>1, <1>10, <3>4
  <2>5. QED  BY <2>1, <2>3, <2>4
<1> HIDE DEF p
<1>11. QED  BY <1>9, <1>10

(* What lists as many different elements as there are lists them all.      *)
LEMMA OrderIsOnto ==
  ASSUME NEW S, IsFiniteSet(S), NEW p \in [1..Cardinality(S) -> S],
         \A i, j \in 1..Cardinality(S) : i < j => p[i] # p[j]
  PROVE  \A x \in S : \E i \in 1..Cardinality(S) : p[i] = x
<1> DEFINE n == Cardinality(S)
<1>1. n \in Nat  BY FS_CardinalityType
<1>2. IsFiniteSet(1..n) /\ Cardinality(1..n) = n
  <2> HIDE DEF n
  <2>1. 1 \in Int /\ n \in Int  BY <1>1
  <2>2. IsFiniteSet(1..n) /\ Cardinality(1..n) = IF 1 > n THEN 0 ELSE n - 1 + 1
    BY <2>1, FS_Interval, Zenon
  <2>3. QED  BY <1>1, <2>2
<1>3. p \in Injection(1..n, S)
  <2> SUFFICES ASSUME NEW i \in 1..n, NEW j \in 1..n, i # j PROVE p[i] # p[j]
    BY DEF Injection, IsInjective
  <2>1. i < j \/ j < i  BY <1>1
  <2>2. QED  BY <2>1
<1>4. p \in Surjection(1..n, S)
  <2>1. Cardinality(1..n) = Cardinality(S)  BY <1>2
  <2> HIDE DEF n
  <2>2. QED  BY <1>3, <2>1, FS_Injection
<1>5. QED  BY <1>4 DEF Surjection

-----------------------------------------------------------------------------
(***************************************************************************)
(* A room is split fairly, however many it holds.                          *)
(***************************************************************************)
(* A total is over the whole domain, in any order.                         *)
Sums(F, D, f) ==
  /\ F \in [SUBSET D -> Int] /\ F[{}] = 0
  /\ \A s \in SUBSET D : \A x \in s : F[s] = f[x] + F[s \ {x}]
LEMMA TotalSums ==
  ASSUME NEW D, IsFiniteSet(D), NEW f \in [D -> Int]
  PROVE  \E F : Sums(F, D, f) /\ Cast!Total(f) = F[D]
<1> DEFINE pick == [s \in SUBSET D |-> CHOOSE x \in s : TRUE]
           step == [p \in D \X Int |-> f[p[1]] + p[2]]
           Adds(g) == g = [s \in SUBSET D |-> IF s = {} THEN 0
                             ELSE f[CHOOSE x \in s : TRUE] + g[s \ {CHOOSE x \in s : TRUE}]]
           kept == CHOOSE g : Adds(g)
<1>1. \A s \in SUBSET D : s # {} => pick[s] \in s /\ pick[s] = CHOOSE x \in s : TRUE
  OBVIOUS
<1>2. \A x \in D, b \in Int : step[<<x, b>>] = f[x] + b /\ step[<<x, b>>] \in Int
  OBVIOUS
<1> HIDE DEF step
<1>3. PICK F \in [SUBSET D -> Int] : Folds(F, D, 0, pick, step)
  <2>1. Foldable(D, Int, 0, pick, step)  BY <1>1, <1>2 DEF Foldable
  <2> HIDE DEF pick
  <2>2. QED  BY <2>1, FoldsExist
<1> HIDE DEF pick
<1>4. \A s \in SUBSET D : s # {} =>
        /\ pick[s] \in s /\ pick[s] = CHOOSE x \in s : TRUE
        /\ F[s] = f[pick[s]] + F[s \ {pick[s]}]
  <2> SUFFICES ASSUME NEW s \in SUBSET D, s # {} PROVE F[s] = f[pick[s]] + F[s \ {pick[s]}]
    BY <1>1
  <2>1. F[s] = step[<<pick[s], F[s \ {pick[s]}]>>]  BY <1>3 DEF Folds
  <2>2. pick[s] \in D /\ F[s \ {pick[s]}] \in Int  BY <1>1
  <2>3. QED  BY <1>2, <2>1, <2>2
<1>5. F[{}] = 0  BY <1>3 DEF Folds
<1>6. Adds(F)
  <2>1. ASSUME NEW s \in SUBSET D
        PROVE  F[s] = IF s = {} THEN 0 ELSE f[CHOOSE x \in s : TRUE] + F[s \ {CHOOSE x \in s : TRUE}]
    <3>1. CASE s = {}  BY <1>5, <3>1
    <3>2. CASE s # {}  BY <1>4, <3>2
    <3>3. QED  BY <3>1, <3>2
  <2>2. QED  BY <2>1
<1> HIDE DEF Adds
<1>7. Adds(kept)  BY <1>6, Zenon
<1> HIDE DEF kept
<1>8. kept = F
  <2>1. kept = [s \in SUBSET D |-> IF s = {} THEN 0
                  ELSE f[CHOOSE x \in s : TRUE] + kept[s \ {CHOOSE x \in s : TRUE}]]
    BY <1>7 DEF Adds
  <2>2. \A s \in SUBSET D : s # {} => kept[s] = f[pick[s]] + kept[s \ {pick[s]}]
    <3>1. \A s \in SUBSET D : s # {} =>
            kept[s] = f[CHOOSE x \in s : TRUE] + kept[s \ {CHOOSE x \in s : TRUE}]
      BY <2>1
    <3>2. QED  BY <1>4, <3>1
  <2>3. kept[{}] = 0  BY <2>1
  <2>4. kept = [s \in SUBSET D |-> kept[s]]  BY <2>1
  <2> DEFINE T == {s \in SUBSET D : kept[s] # F[s]}
  <2>5. T = {}
    <3> SUFFICES ASSUME T # {} PROVE FALSE  OBVIOUS
    <3>1. PICK s \in T : \A t \in T : t \subseteq s => t = s
      <4>1. T \subseteq SUBSET D  OBVIOUS
      <4> HIDE DEF T
      <4>2. QED  BY <4>1, LeastSubset
    <3>2. s \in SUBSET D /\ s # {} /\ kept[s] # F[s]  BY <1>5, <2>3
    <3>3. s \ {pick[s]} \in SUBSET D /\ s \ {pick[s]} # s  BY <1>4, <3>2
    <3>4. kept[s \ {pick[s]}] = F[s \ {pick[s]}]  BY <3>1, <3>3
    <3>5. QED  BY <1>4, <2>2, <3>2, <3>4
  <2>6. QED  BY <2>4, <2>5
<1>9. Cast!Total(f) = kept[D]
  <2>1. DOMAIN f = D  OBVIOUS
  <2>2. QED
    BY <2>1, Zenon DEF Cast!Total, Cast!FoldSeq, Cast!FoldFunction, Cast!FoldFunctionOnSet,
       Cast!MapThenFoldSet, kept, Adds
<1>10. \A s \in SUBSET D : \A x \in s : F[s] = f[x] + F[s \ {x}]
  <2> DEFINE T == {s \in SUBSET D : \E x \in s : F[s] # f[x] + F[s \ {x}]}
  <2>1. T = {}
    <3> SUFFICES ASSUME T # {} PROVE FALSE  OBVIOUS
    <3>1. PICK s \in T : \A t \in T : t \subseteq s => t = s
      <4>1. T \subseteq SUBSET D  OBVIOUS
      <4> HIDE DEF T
      <4>2. QED  BY <4>1, LeastSubset
    <3>2. PICK y \in s : F[s] # f[y] + F[s \ {y}]  OBVIOUS
    <3> DEFINE p == pick[s]
    <3>3. s \in SUBSET D /\ p \in s /\ F[s] = f[p] + F[s \ {p}]  BY <1>4, <3>2
    <3> HIDE DEF p
    <3>4. y # p  BY <3>2, <3>3
    <3>5. s \ {p} \notin T /\ s \ {y} \notin T  BY <3>1, <3>2, <3>3
    <3>6. F[s \ {p}] = f[y] + F[(s \ {p}) \ {y}]  BY <3>2, <3>3, <3>4, <3>5
    <3>7. F[s \ {y}] = f[p] + F[(s \ {y}) \ {p}]  BY <3>2, <3>3, <3>4, <3>5
    <3>8. (s \ {y}) \ {p} = (s \ {p}) \ {y}  OBVIOUS
    <3>9. f[y] \in Int /\ f[p] \in Int /\ F[(s \ {p}) \ {y}] \in Int  BY <3>2, <3>3
    <3> DEFINE a == f[y]  b == f[p]  c == F[(s \ {p}) \ {y}]
    <3>10. F[s] = b + (a + c) /\ F[s \ {y}] = b + c  BY <3>3, <3>6, <3>7, <3>8
    <3>11. a \in Int /\ b \in Int /\ c \in Int  BY <3>9
    <3>12. F[s] # a + F[s \ {y}]  BY <3>2
    <3> HIDE DEF a, b, c
    <3>13. QED  BY <3>10, <3>11, <3>12
  <2>2. ASSUME NEW s \in SUBSET D, NEW x \in s PROVE F[s] = f[x] + F[s \ {x}]
    <3>1. s \notin T  BY <2>1
    <3>2. QED  BY <3>1
  <2>3. QED  BY <2>2, Zenon
<1>11. QED  BY <1>5, <1>8, <1>9, <1>10 DEF Sums

LEMMA StaysByAny ==
  ASSUME NEW D, IsFiniteSet(D), NEW Holds, {} \in Holds,
         \A s \in SUBSET D : \A x \in s : s \ {x} \in Holds => s \in Holds
  PROVE  D \in Holds
<1>1. \A s \in SUBSET D : s # {} => \E x \in s : s \ {x} \in Holds => s \in Holds
  <2> SUFFICES ASSUME NEW s \in SUBSET D, s # {}
               PROVE  \E x \in s : s \ {x} \in Holds => s \in Holds
    OBVIOUS
  <2>1. PICK x : x \in s  OBVIOUS
  <2>2. QED  BY <2>1
<1>2. QED  BY <1>1, FoldsStay DEF Grows

(* What a total is of: sums, multiples, a count, and one element changed.  *)
Added(D, f, g, h) ==
  /\ IsFiniteSet(D) /\ f \in [D -> Int] /\ g \in [D -> Int] /\ h \in [D -> Int]
  /\ \A x \in D : h[x] = f[x] + g[x]
LEMMA TotalAdds ==
  ASSUME NEW D, NEW f, NEW g, NEW h, Added(D, f, g, h)
  PROVE  Cast!Total(h) = Cast!Total(f) + Cast!Total(g)
<1> USE DEF Added
<1>1. PICK F : Sums(F, D, f) /\ Cast!Total(f) = F[D]  BY TotalSums
<1>2. PICK G : Sums(G, D, g) /\ Cast!Total(g) = G[D]  BY TotalSums
<1>3. PICK H : Sums(H, D, h) /\ Cast!Total(h) = H[D]  BY TotalSums
<1> DEFINE Holds == {s \in SUBSET D : H[s] = F[s] + G[s]}
<1>4. {} \in Holds  BY <1>1, <1>2, <1>3 DEF Sums
<1>5. ASSUME NEW s \in SUBSET D, NEW x \in s, s \ {x} \in Holds PROVE s \in Holds
  <2> DEFINE a == F[s \ {x}]  b == G[s \ {x}]
  <2>1. F[s] = f[x] + a /\ G[s] = g[x] + b /\ H[s] = h[x] + H[s \ {x}]  BY <1>1, <1>2, <1>3 DEF Sums
  <2>2. H[s \ {x}] = a + b /\ h[x] = f[x] + g[x]  BY <1>5
  <2>3. a \in Int /\ b \in Int /\ f[x] \in Int /\ g[x] \in Int  BY <1>1, <1>2 DEF Sums
  <2> HIDE DEF a, b
  <2>4. QED  BY <2>1, <2>2, <2>3
<1> HIDE DEF Holds
<1>6. D \in Holds  BY <1>4, <1>5, StaysByAny
<1>7. QED  BY <1>1, <1>2, <1>3, <1>6 DEF Holds

LEMMA TotalScales ==
  ASSUME NEW D, IsFiniteSet(D), NEW f \in [D -> Int], NEW c \in Int, NEW h \in [D -> Int],
         \A x \in D : h[x] = f[x] * c
  PROVE  Cast!Total(h) = Cast!Total(f) * c
<1>1. PICK F : Sums(F, D, f) /\ Cast!Total(f) = F[D]  BY TotalSums
<1>2. PICK H : Sums(H, D, h) /\ Cast!Total(h) = H[D]  BY TotalSums
<1> DEFINE Holds == {s \in SUBSET D : H[s] = F[s] * c}
<1>3. {} \in Holds  BY <1>1, <1>2 DEF Sums
<1>4. ASSUME NEW s \in SUBSET D, NEW x \in s, s \ {x} \in Holds PROVE s \in Holds
  <2> DEFINE a == F[s \ {x}]  b == f[x]
  <2>1. F[s] = b + a /\ H[s] = b * c + a * c
    <3>1. F[s] = b + a /\ H[s] = h[x] + H[s \ {x}]  BY <1>1, <1>2 DEF Sums
    <3>2. H[s \ {x}] = a * c /\ h[x] = b * c  BY <1>4
    <3>3. QED  BY <3>1, <3>2
  <2>2. a \in Int /\ b \in Int  BY <1>1 DEF Sums
  <2> HIDE DEF a, b
  <2>3. (b + a) * c = b * c + a * c  BY <2>2
  <2>4. QED  BY <2>1, <2>3
<1> HIDE DEF Holds
<1>5. D \in Holds  BY <1>3, <1>4, StaysByAny
<1>6. QED  BY <1>1, <1>2, <1>5 DEF Holds

LEMMA TotalCounts ==
  ASSUME NEW D, IsFiniteSet(D), NEW S \in SUBSET D, NEW f \in [D -> Int],
         \A x \in D : f[x] = IF x \in S THEN 1 ELSE 0
  PROVE  Cast!Total(f) = Cardinality(S)
<1>1. PICK F : Sums(F, D, f) /\ Cast!Total(f) = F[D]  BY TotalSums
<1> DEFINE Holds == {s \in SUBSET D : F[s] = Cardinality(s \cap S)}
<1>2. {} \in Holds
  <2>1. {} \cap S = {} /\ Cardinality({}) = 0  BY FS_EmptySet
  <2> HIDE DEF Holds
  <2>2. F[{}] = Cardinality({} \cap S)  BY <1>1, <2>1 DEF Sums
  <2>3. QED  BY <2>2 DEF Holds
<1>3. ASSUME NEW s \in SUBSET D, NEW x \in s, s \ {x} \in Holds PROVE s \in Holds
  <2> DEFINE rest == (s \ {x}) \cap S
  <2>1. F[s] = f[x] + Cardinality(rest)  BY <1>1, <1>3 DEF Sums
  <2>2. IsFiniteSet(rest) /\ Cardinality(rest) \in Nat
    <3>1. rest \in SUBSET D  OBVIOUS
    <3> HIDE DEF rest
    <3>2. QED  BY <3>1, FS_Subset, FS_CardinalityType
  <2>3. CASE x \in S
    <3>1. s \cap S = rest \cup {x} /\ x \notin rest  BY <2>3
    <3> HIDE DEF rest
    <3>2. Cardinality(s \cap S) = Cardinality(rest) + 1  BY <2>2, <3>1, FS_AddElement
    <3>3. f[x] = 1  BY <2>3
    <3>4. QED  BY <2>1, <2>2, <3>2, <3>3
  <2>4. CASE x \notin S
    <3>1. s \cap S = rest /\ f[x] = 0  BY <2>4
    <3> HIDE DEF rest
    <3>2. QED  BY <2>1, <2>2, <3>1
  <2>5. QED  BY <2>3, <2>4
<1> HIDE DEF Holds
<1>4. D \in Holds  BY <1>2, <1>3, StaysByAny
<1>5. D \cap S = S  OBVIOUS
<1>6. QED  BY <1>1, <1>4, <1>5 DEF Holds

LEMMA TotalOrders ==
  ASSUME NEW D, IsFiniteSet(D), NEW f \in [D -> Int], NEW g \in [D -> Int], \A x \in D : f[x] <= g[x]
  PROVE  /\ Cast!Total(f) \in Int /\ Cast!Total(g) \in Int
         /\ Cast!Total(f) <= Cast!Total(g)
         /\ \A x \in D : g[x] - f[x] <= Cast!Total(g) - Cast!Total(f)
<1>1. PICK F : Sums(F, D, f) /\ Cast!Total(f) = F[D]  BY TotalSums
<1>2. PICK G : Sums(G, D, g) /\ Cast!Total(g) = G[D]  BY TotalSums
<1> DEFINE Holds == {s \in SUBSET D : F[s] <= G[s] /\ \A x \in s : g[x] - f[x] <= G[s] - F[s]}
<1>3. {} \in Holds  BY <1>1, <1>2 DEF Sums
<1>4. ASSUME NEW s \in SUBSET D, NEW x \in s, s \ {x} \in Holds PROVE s \in Holds
  <2> DEFINE a == F[s \ {x}]  b == G[s \ {x}]
  <2>1. F[s] = f[x] + a /\ G[s] = g[x] + b /\ a \in Int /\ b \in Int  BY <1>1, <1>2 DEF Sums
  <2>2. a <= b /\ \A y \in s \ {x} : g[y] - f[y] <= b - a  BY <1>4
  <2> HIDE DEF a, b
  <2>3. f[x] \in Int /\ g[x] \in Int /\ f[x] <= g[x]  OBVIOUS
  <2>4. F[s] <= G[s] /\ G[s] - F[s] = (g[x] - f[x]) + (b - a)  BY <2>1, <2>2, <2>3
  <2>5. ASSUME NEW y \in s PROVE g[y] - f[y] <= G[s] - F[s]
    <3>1. f[y] \in Int /\ g[y] \in Int  OBVIOUS
    <3>2. CASE y = x  BY <2>1, <2>2, <2>3, <2>4, <3>2
    <3>3. CASE y # x
      <4>1. g[y] - f[y] <= b - a  BY <2>2, <3>3
      <4>2. QED  BY <2>1, <2>3, <2>4, <3>1, <4>1
    <3>4. QED  BY <3>2, <3>3
  <2>6. QED  BY <2>4, <2>5
<1> HIDE DEF Holds
<1>5. D \in Holds  BY <1>3, <1>4, StaysByAny
<1>6. F[D] \in Int /\ G[D] \in Int  BY <1>1, <1>2 DEF Sums
<1>7. QED  BY <1>1, <1>2, <1>5, <1>6 DEF Holds

Uniform(D, S, c, f) ==
  /\ IsFiniteSet(D) /\ S \in SUBSET D /\ c \in Int /\ f \in [D -> Int]
  /\ \A x \in D : f[x] = IF x \in S THEN c ELSE 0
LEMMA TotalUniform ==
  ASSUME NEW D, NEW S, NEW c, NEW f, Uniform(D, S, c, f)
  PROVE  Cast!Total(f) = Cardinality(S) * c
<1> USE DEF Uniform
<1> DEFINE one == [x \in D |-> IF x \in S THEN 1 ELSE 0]
<1>1. one \in [D -> Int] /\ \A x \in D : one[x] = IF x \in S THEN 1 ELSE 0  OBVIOUS
<1>2. \A x \in D : f[x] = one[x] * c  OBVIOUS
<1> HIDE DEF one
<1>3. Cast!Total(one) = Cardinality(S)  BY <1>1, TotalCounts
<1>4. Cast!Total(f) = Cast!Total(one) * c  BY <1>1, <1>2, TotalScales
<1>5. QED  BY <1>3, <1>4

(* What holds at 0, and at k when it holds at k - 1, holds up to n; a      *)
(* recursion over 0..n has a solution.                                     *)
LEMMA StaysUpto ==
  ASSUME NEW n \in Nat, NEW Holds, 0 \in Holds, \A k \in 1..n : k - 1 \in Holds => k \in Holds
  PROVE  n \in Holds
<1> DEFINE T == {k \in 0..n : k \notin Holds}
<1> SUFFICES ASSUME n \notin Holds PROVE FALSE  OBVIOUS
<1>1. T \subseteq Nat /\ n \in T  OBVIOUS
<1>2. PICK m \in T : \A k \in T : m <= k
  <2> HIDE DEF T
  <2>1. QED  BY <1>1, LeastNatural
<1>3. m \in 1..n /\ m \notin Holds /\ m - 1 \in 0..n /\ ~(m <= m - 1)  OBVIOUS
<1>4. m - 1 \in Holds  BY <1>2, <1>3
<1>5. QED  BY <1>3, <1>4

Chained(f, n, base, step) == f[0] = base /\ \A k \in 1..n : f[k] = step[f[k - 1]]
LEMMA ChainExists ==
  ASSUME NEW n \in Nat, NEW B, NEW base \in B, NEW step \in [B -> B]
  PROVE  \E f \in [0..n -> B] : Chained(f, n, base, step)
<1> DEFINE Chain(m, f) == f[0] = base /\ \A k \in 1..m : f[k] = step[f[k - 1]]
           Holds == {m \in Nat : \E f \in [0..m -> B] : Chain(m, f)}
<1>1. 0 \in Holds
  <2>1. [k \in 0..0 |-> base] \in [0..0 -> B] /\ Chain(0, [k \in 0..0 |-> base])  OBVIOUS
  <2> HIDE DEF Chain
  <2>2. QED  BY <2>1
<1>2. ASSUME NEW m \in 1..n, m - 1 \in Holds PROVE m \in Holds
  <2>1. PICK f \in [0..(m - 1) -> B] : Chain(m - 1, f)  BY <1>2
  <2> DEFINE h == [k \in 0..m |-> IF k = m THEN step[f[m - 1]] ELSE f[k]]
  <2>2. h \in [0..m -> B]
    <3>1. f[m - 1] \in B /\ \A k \in 0..m : k # m => k \in 0..(m - 1)  OBVIOUS
    <3>2. QED  BY <3>1
  <2>3. Chain(m, h)
    <3>1. h[0] = base  BY <2>1
    <3>2. ASSUME NEW k \in 1..m PROVE h[k] = step[h[k - 1]]
      <4>1. CASE k = m  BY <4>1
      <4>2. CASE k # m
        <5>1. k \in 1..(m - 1) /\ k - 1 \in 0..m /\ k \in 0..m /\ k - 1 # m  BY <4>2
        <5>2. f[k] = step[f[k - 1]]  BY <2>1, <5>1
        <5>3. QED  BY <4>2, <5>1, <5>2
      <4>3. QED  BY <4>1, <4>2
    <3> HIDE DEF h
    <3>3. QED  BY <3>1, <3>2
  <2> HIDE DEF h, Chain
  <2>4. QED  BY <2>2, <2>3
<1> HIDE DEF Holds
<1>3. n \in Holds  BY <1>1, <1>2, StaysUpto
<1>4. QED  BY <1>3 DEF Holds, Chained

LEMMA Divides ==
  ASSUME NEW a \in Nat, NEW b \in Nat, b > 0
  PROVE  a \div b \in Nat /\ a % b \in 0..(b - 1) /\ a = (b * (a \div b)) + (a % b)
<1>1. a \div b \in Int /\ a % b \in Int  OBVIOUS
<1>2. a % b \in 0..(b - 1)  OBVIOUS
<1>3. a = (b * (a \div b)) + (a % b)  BY SMT
<1>4. a \div b \in Nat  OBVIOUS
<1>5. QED  BY <1>1, <1>2, <1>3, <1>4

-----------------------------------------------------------------------------
(* _fair_share: while some still want, everyone else has what it wanted,   *)
(* which is no more than an equal share of what is left.                   *)
FairTo(w, budget, got) ==
  LET cut == {i \in DOMAIN w : got[i] < w[i]} IN
  /\ \A i \in DOMAIN w : got[i] <= w[i]
  /\ Cast!Total(got) <= budget
  /\ cut # {} => budget - Cast!Total(got) < Cardinality(cut)
  /\ \A i \in cut, j \in DOMAIN w : got[j] <= got[i]
Open(w, budget, s) ==
  /\ s = [got |-> s.got, wanting |-> s.wanting, left |-> s.left]
  /\ s.got \in [DOMAIN w -> Nat] /\ s.wanting \in SUBSET DOMAIN w /\ s.left \in Nat
  /\ Cast!Total(s.got) + s.left = budget
  /\ \A i \in s.wanting : s.got[i] = 0 /\ w[i] > 0
  /\ \A i \in DOMAIN w \ s.wanting : s.got[i] = w[i] /\ s.got[i] * Cardinality(s.wanting) <= s.left
Closed(w, budget, s) ==
  /\ s = [got |-> s.got, wanting |-> s.wanting, left |-> s.left]
  /\ s.got \in [DOMAIN w -> Nat] /\ s.wanting = {} /\ s.left \in Nat /\ FairTo(w, budget, s.got)

LEMMA PassIs ==
  ASSUME NEW w, NEW s
  PROVE  LET share   == IF s.wanting = {} THEN 0 ELSE s.left \div Cardinality(s.wanting)
             content == {i \in s.wanting : w[i] <= share}
         IN Cast!Pass(w, s) =
              IF share = 0 THEN [s EXCEPT !.wanting = {}]
              ELSE IF content = {}
              THEN [got |-> [i \in DOMAIN w |-> IF i \in s.wanting THEN share ELSE s.got[i]],
                    wanting |-> {}, left |-> s.left]
              ELSE [got |-> [i \in DOMAIN w |-> IF i \in content THEN w[i] ELSE s.got[i]],
                    wanting |-> s.wanting \ content, left |-> s.left - Cast!Total(Cast!Of(w, content))]
<1>1. Cast!Cardinality(s.wanting) = Cardinality(s.wanting)  BY Zenon DEF Cast!Cardinality, Cardinality
<1>2. QED  BY <1>1, Zenon DEF Cast!Pass

(* A pass that shares closes, or lets somebody leave.                      *)
LEMMA ClosedStays ==
  ASSUME NEW w, NEW budget, NEW s, Closed(w, budget, s)
  PROVE  Cast!Pass(w, s) = s
<1>1. s.wanting = {}  BY DEF Closed
<1>2. Cast!Pass(w, s) = [s EXCEPT !.wanting = {}]  BY <1>1, PassIs
<1>3. s = [got |-> s.got, wanting |-> {}, left |-> s.left]  BY <1>1 DEF Closed
<1>4. QED  BY <1>2, <1>3

LEMMA EmptyCloses ==
  ASSUME NEW n \in Nat, NEW w \in [1..n -> Nat], NEW budget \in Nat, NEW s, Open(w, budget, s),
         s.wanting = {}
  PROVE  Closed(w, budget, s)
<1>1. DOMAIN w = 1..n  OBVIOUS
<1>2. IsFiniteSet(1..n)
  <2>1. 1 \in Int /\ n \in Int  OBVIOUS
  <2>2. QED  BY <2>1, FS_Interval
<1>3. s.got \in [1..n -> Nat] /\ \A i \in 1..n : s.got[i] = w[i]  BY <1>1 DEF Open
<1>4. Cast!Total(s.got) \in Int
  <2>1. s.got \in [1..n -> Int] /\ \A i \in 1..n : s.got[i] <= s.got[i]  BY <1>3
  <2>2. QED  BY <1>2, <2>1, TotalOrders
<1>5. Cast!Total(s.got) <= budget
  <2>1. s.left \in Nat /\ Cast!Total(s.got) + s.left = budget  BY DEF Open
  <2>2. QED  BY <1>4, <2>1
<1>6. {i \in 1..n : s.got[i] < w[i]} = {} /\ \A i \in 1..n : s.got[i] <= w[i]  BY <1>3
<1>7. FairTo(w, budget, s.got)  BY <1>1, <1>5, <1>6 DEF FairTo
<1>8. QED  BY <1>7 DEF Open, Closed

LEMMA LeftOver ==
  ASSUME NEW t \in Int, NEW u \in Nat, NEW l \in Nat, NEW c \in Nat, NEW budget \in Nat,
         t + l = budget, u <= l, l < u + c
  PROVE  t + u <= budget /\ budget - (t + u) < c
OBVIOUS
LEMMA NoMoreThanAShare ==
  ASSUME NEW a \in Nat, NEW c \in Nat, NEW l \in Nat, NEW share \in Nat, a * c <= l, l < (share * c) + c
  PROVE  a <= share
<1> SUFFICES ASSUME share < a PROVE FALSE  OBVIOUS
<1> DEFINE d == a - (share + 1)
<1>1. d \in Nat /\ a = (share + 1) + d  OBVIOUS
<1> HIDE DEF d
<1>2. a * c = ((share * c) + c) + (d * c) /\ d * c \in Nat /\ share * c \in Nat  BY <1>1
<1> DEFINE x == share * c  y == d * c  z == a * c
<1>3. z = (x + c) + y /\ x \in Nat /\ y \in Nat /\ z <= l /\ l < x + c  BY <1>2
<1> HIDE DEF x, y, z
<1>4. QED  BY <1>3

(* Nobody is content: each gets an equal share, and what is left over is   *)
(* less than one each.                                                     *)
TooLittle(w, s, share) ==
  LET c == Cardinality(s.wanting) IN
  /\ share \in Nat /\ share * c <= s.left /\ s.left < (share * c) + c
  /\ \A i \in s.wanting : share < w[i] /\ c > 0
LEMMA EqualShares ==
  ASSUME NEW n \in Nat, NEW w \in [1..n -> Nat], NEW budget \in Nat, NEW s, Open(w, budget, s),
         NEW share, TooLittle(w, s, share),
         NEW got, got = [i \in DOMAIN w |-> IF i \in s.wanting THEN share ELSE s.got[i]]
  PROVE  Closed(w, budget, [got |-> got, wanting |-> {}, left |-> s.left])
<1> DEFINE W == s.wanting  c == Cardinality(W)  L == s.left
           add == [i \in 1..n |-> IF i \in W THEN share ELSE 0]
<1>1. DOMAIN w = 1..n /\ W \in SUBSET (1..n) /\ s.got \in [1..n -> Nat] /\ L \in Nat  BY DEF Open
<1>2. IsFiniteSet(1..n) /\ IsFiniteSet(W) /\ c \in Nat
  <2>1. 1 \in Int /\ n \in Int  OBVIOUS
  <2>2. IsFiniteSet(1..n)  BY <2>1, FS_Interval
  <2>3. IsFiniteSet(W)  BY <1>1, <2>2, FS_Subset
  <2>4. QED  BY <2>2, <2>3, FS_CardinalityType
<1>2a. share \in Nat /\ share \in Int /\ share * c <= L /\ L < (share * c) + c /\ \A i \in W : share < w[i]
  BY DEF TooLittle
<1>3. got \in [1..n -> Nat] /\ s.got \in [1..n -> Int] /\ got \in [1..n -> Int] /\ add \in [1..n -> Int]
  <2>1. got = [i \in 1..n |-> IF i \in W THEN share ELSE s.got[i]]  BY <1>1
  <2>2. \A i \in 1..n : s.got[i] \in Nat  BY <1>1
  <2>3. got \in [1..n -> Nat]  BY <1>2a, <2>1, <2>2
  <2>4. add \in [1..n -> Int]  BY <1>2a
  <2>5. QED  BY <1>1, <2>3, <2>4
<1>4. \A i \in W : s.got[i] = 0 /\ got[i] = share  BY <1>1 DEF Open
<1>5. \A i \in (1..n) \ W : got[i] = w[i] /\ got[i] = s.got[i] /\ got[i] * c <= L  BY <1>1 DEF Open
<1>6. \A i \in 1..n : add[i] = IF i \in W THEN share ELSE 0  OBVIOUS
<1> HIDE DEF add
<1>7. Cast!Total(add) = c * share
  <2> DEFINE D == 1..n
  <2>1. Uniform(D, W, share, add)  BY <1>2a, <1>1, <1>2, <1>3, <1>6 DEF Uniform
  <2> HIDE DEF W, D
  <2>2. Cast!Total(add) = Cardinality(W) * share  BY <2>1, TotalUniform
  <2>3. QED  BY <2>2 DEF c
<1>8. Cast!Total(got) = Cast!Total(s.got) + Cast!Total(add)
  <2>1. ASSUME NEW i \in 1..n PROVE got[i] = s.got[i] + add[i]
    <3>1. CASE i \in W
      <4>1. got[i] = share /\ s.got[i] = 0 /\ add[i] = share  BY <1>4, <1>6, <3>1
      <4>2. QED  BY <1>2a, <4>1
    <3>2. CASE i \notin W
      <4>1. got[i] = s.got[i] /\ s.got[i] \in Nat /\ add[i] = 0  BY <1>1, <1>5, <1>6, <3>2
      <4>2. QED  BY <4>1
    <3>3. QED  BY <3>1, <3>2
  <2> DEFINE f == s.got
  <2> HIDE DEF f
  <2>2. f \in [1..n -> Int] /\ \A i \in 1..n : got[i] = f[i] + add[i]  BY <1>3, <2>1 DEF f
  <2> DEFINE D == 1..n
  <2>3. Added(D, f, add, got)  BY <1>2, <1>3, <2>2 DEF Added
  <2> HIDE DEF D
  <2>4. Cast!Total(got) = Cast!Total(f) + Cast!Total(add)  BY <2>3, TotalAdds
  <2>5. QED  BY <2>4 DEF f
<1>9. Cast!Total(s.got) \in Int
  <2> DEFINE f == s.got  D == 1..n
  <2>1. IsFiniteSet(D) /\ f \in [D -> Int]  BY <1>2, <1>3
  <2> HIDE DEF f, D
  <2>2. \A i \in D : f[i] <= f[i]  BY <2>1
  <2>3. Cast!Total(f) \in Int  BY <2>1, <2>2, TotalOrders
  <2>4. QED  BY <2>3 DEF f
<1>10. Cast!Total(got) <= budget /\ budget - Cast!Total(got) < c
  <2>1. Cast!Total(s.got) + L = budget  BY DEF Open
  <2>2. c * share = share * c /\ share * c \in Nat  BY <1>2a, <1>2
  <2>3. c * share \in Nat /\ c * share <= L /\ L < (c * share) + c  BY <1>2a, <2>2
  <2> DEFINE u == c * share
  <2>4. u \in Nat /\ u <= L /\ L < u + c /\ L \in Nat /\ c \in Nat /\ Cast!Total(got) = Cast!Total(s.got) + u
    BY <1>1, <1>2, <1>7, <1>8, <2>3
  <2> HIDE DEF u, c, L
  <2>5. QED  BY <1>9, <2>1, <2>4, LeftOver
<1>11. \A i \in (1..n) \ W : got[i] <= share
  <2> SUFFICES ASSUME NEW i \in (1..n) \ W PROVE got[i] <= share  OBVIOUS
  <2>1. got[i] \in Nat /\ got[i] * c <= L  BY <1>3, <1>5
  <2> HIDE DEF c, L, W
  <2>2. QED  BY <1>2a, <1>1, <1>2, <2>1, NoMoreThanAShare
<1>12. {i \in 1..n : got[i] < w[i]} = W
  <2>1. \A i \in W : i \in 1..n /\ got[i] < w[i]  BY <1>2a, <1>1, <1>4
  <2>2. \A i \in (1..n) \ W : ~(got[i] < w[i])  BY <1>3, <1>5
  <2> HIDE DEF W
  <2>3. QED  BY <2>1, <2>2
<1>13. \A i \in 1..n : got[i] <= w[i]
  <2> SUFFICES ASSUME NEW i \in 1..n PROVE got[i] <= w[i]  OBVIOUS
  <2>1. w[i] \in Nat /\ got[i] \in Nat  BY <1>3
  <2>2. CASE i \in W  BY <1>2a, <1>4, <2>1, <2>2
  <2>3. CASE i \notin W  BY <1>5, <2>1, <2>3
  <2>4. QED  BY <2>2, <2>3
<1>14. \A i \in W, j \in 1..n : got[j] <= got[i]
  <2> SUFFICES ASSUME NEW i \in W, NEW j \in 1..n PROVE got[j] <= got[i]  OBVIOUS
  <2>1. got[i] = share /\ got[j] \in Nat  BY <1>3, <1>4
  <2>2. got[j] <= share  BY <1>2a, <1>4, <1>11, <2>1
  <2>3. QED  BY <2>1, <2>2
<1>15. FairTo(w, budget, got)
  <2> HIDE DEF W
  <2>1. QED  BY <1>1, <1>10, <1>12, <1>13, <1>14 DEF FairTo, c
<1>16. QED  BY <1>1, <1>3, <1>15 DEF Closed

LEMMA TimesGrow ==
  ASSUME NEW a \in Nat, NEW b \in Nat, NEW k \in Nat, a <= b
  PROVE  a * k \in Nat /\ b * k \in Nat /\ a * k <= b * k
<1> DEFINE d == b - a
<1>1. d \in Nat /\ b = a + d  OBVIOUS
<1> HIDE DEF d
<1>2. b * k = (a * k) + (d * k) /\ d * k \in Nat /\ a * k \in Nat  BY <1>1
<1>3. QED  BY <1>2

(* Those who want no more than a share leave with what they want.          *)
Leaves(w, s, share, who, t) ==
  /\ share \in Nat /\ share * Cardinality(s.wanting) <= s.left
  /\ s.left < (share * Cardinality(s.wanting)) + Cardinality(s.wanting)
  /\ who = {i \in s.wanting : w[i] <= share} /\ who # {}
  /\ t = [got |-> [i \in DOMAIN w |-> IF i \in who THEN w[i] ELSE s.got[i]],
          wanting |-> s.wanting \ who, left |-> s.left - Cast!Total(Cast!Of(w, who))]
LEMMA SomeLeave ==
  ASSUME NEW n \in Nat, NEW w \in [1..n -> Nat], NEW budget \in Nat, NEW s, Open(w, budget, s),
         NEW share, NEW who, NEW t, Leaves(w, s, share, who, t)
  PROVE  Open(w, budget, t) /\ Cardinality(t.wanting) < Cardinality(s.wanting)
<1> DEFINE W == s.wanting  c == Cardinality(W)  L == s.left  D == 1..n  had == s.got
           got == t.got
           m == Cardinality(who)
           add == Cast!Of(w, who)
           cap == [i \in D |-> IF i \in who THEN share ELSE 0]
           none == [i \in D |-> IF i \in {} THEN 1 ELSE 0]
<1>1. DOMAIN w = D /\ W \in SUBSET D /\ had \in [D -> Nat] /\ L \in Nat /\ Cast!Total(had) + L = budget
      /\ (\A i \in W : had[i] = 0) /\ (\A i \in D \ W : had[i] = w[i] /\ had[i] * c <= L)
      /\ (\A i \in W : w[i] > 0)
  BY DEF Open
<1>2. who \in SUBSET W /\ who \in SUBSET D /\ who # {} /\ share \in Nat  BY <1>1 DEF Leaves
<1>3. IsFiniteSet(D)
  <2>1. 1 \in Int /\ n \in Int  OBVIOUS
  <2>2. QED  BY <2>1, FS_Interval
<1>4. t.wanting = W \ who /\ t.left = L - Cast!Total(add)
      /\ got = [i \in D |-> IF i \in who THEN w[i] ELSE had[i]]
      /\ t = [got |-> got, wanting |-> t.wanting, left |-> t.left]
  BY <1>1 DEF Leaves
<1>5. add = [i \in D |-> IF i \in who THEN w[i] ELSE 0] /\ \A i \in who : w[i] <= share
  BY <1>1 DEF Cast!Of, Leaves
<1>6. share * c <= L /\ L < (share * c) + c  BY DEF Leaves
<1> HIDE DEF W, D, had, got, add, L
<1>7. IsFiniteSet(W) /\ c \in Nat /\ m \in Nat /\ m > 0 /\ m <= c /\ Cardinality(W \ who) = c - m
  <2>1. IsFiniteSet(W)  BY <1>1, <1>3, FS_Subset
  <2>2. IsFiniteSet(who) /\ m <= c  BY <1>2, <2>1, FS_Subset
  <2>3. m \in Nat /\ c \in Nat  BY <2>1, <2>2, FS_CardinalityType
  <2>4. m # 0  BY <1>2, <2>2, FS_EmptySet
  <2>5. Cardinality(W \ who) = c - m
    <3>1. W \cap who = who  BY <1>2
    <3>2. Cardinality(W \ who) = c - Cardinality(W \cap who)  BY <2>1, <2>2, FS_Difference
    <3>3. QED  BY <3>1, <3>2
  <2>6. QED  BY <2>1, <2>2, <2>3, <2>4, <2>5
<1> HIDE DEF c, m
<1>8. add \in [D -> Int] /\ cap \in [D -> Int] /\ none \in [D -> Int] /\ got \in [D -> Nat]
      /\ had \in [D -> Int] /\ got \in [D -> Int]
  <2>1. w \in [D -> Nat]  BY DEF D
  <2>2. QED  BY <1>1, <1>2, <1>4, <1>5, <2>1
<1>9. Cast!Total(add) \in Nat /\ Cast!Total(add) <= m * share
  <2>1. \A i \in D : cap[i] = IF i \in who THEN share ELSE 0  OBVIOUS
  <2>2. \A i \in D : none[i] = IF i \in {} THEN 1 ELSE 0  OBVIOUS
  <2>3. \A i \in D : none[i] <= add[i] /\ add[i] <= cap[i]
    <3>1. w \in [D -> Nat]  BY DEF D
    <3> SUFFICES ASSUME NEW i \in D PROVE none[i] <= add[i] /\ add[i] <= cap[i]  OBVIOUS
    <3>2. w[i] \in Nat /\ none[i] = 0 /\ (i \notin who => add[i] = 0 /\ cap[i] = 0)
          /\ (i \in who => add[i] = w[i] /\ w[i] <= share /\ cap[i] = share)
      BY <1>5, <3>1
    <3> HIDE DEF cap, none
    <3>3. QED  BY <3>2
  <2> HIDE DEF cap, none
  <2>4. Cast!Total(cap) = m * share
    <3>1. Uniform(D, who, share, cap)  BY <1>2, <1>3, <1>8, <2>1 DEF Uniform
    <3>2. QED  BY <3>1, TotalUniform DEF m
  <2>5. Cast!Total(none) = 0
    <3>1. {} \in SUBSET D  OBVIOUS
    <3>2. Cast!Total(none) = Cardinality({})  BY <1>3, <1>8, <2>2, <3>1, TotalCounts
    <3>3. QED  BY <3>2, FS_EmptySet
  <2>6. Cast!Total(none) <= Cast!Total(add) /\ Cast!Total(add) \in Int  BY <1>3, <1>8, <2>3, TotalOrders
  <2>7. Cast!Total(add) <= Cast!Total(cap)  BY <1>3, <1>8, <2>3, TotalOrders
  <2>8. QED  BY <2>4, <2>5, <2>6, <2>7
<1>10. Cast!Total(got) = Cast!Total(had) + Cast!Total(add)
  <2>1. ASSUME NEW i \in D PROVE got[i] = had[i] + add[i]
    <3>1. had[i] \in Int /\ add[i] \in Int  BY <1>8
    <3>2. CASE i \in who
      <4>1. got[i] = w[i] /\ had[i] = 0 /\ add[i] = w[i]  BY <1>1, <1>2, <1>4, <1>5, <3>2
      <4>2. QED  BY <3>1, <4>1
    <3>3. CASE i \notin who
      <4>1. got[i] = had[i] /\ add[i] = 0  BY <1>4, <1>5, <3>3
      <4>2. QED  BY <3>1, <4>1
    <3>4. QED  BY <3>2, <3>3
  <2>2. Added(D, had, add, got)  BY <1>3, <1>8, <2>1 DEF Added
  <2>3. QED  BY <2>2, TotalAdds
<1>11. t.left \in Nat /\ share * (c - m) <= t.left /\ Cast!Total(got) + t.left = budget
  <2> DEFINE a == Cast!Total(add)  h == Cast!Total(had)  l == t.left  k == c - m
  <2>1. a \in Nat /\ a <= m * share /\ l = L - a /\ h + L = budget /\ Cast!Total(got) = h + a
    BY <1>1, <1>4, <1>9, <1>10
  <2>2. k \in Nat /\ c = k + m  BY <1>7
  <2>3. h \in Int
    <3>1. \A i \in D : had[i] <= had[i]  BY <1>8
    <3>2. QED  BY <1>3, <1>8, <3>1, TotalOrders
  <2> HIDE DEF a, h, l, k
  <2>4. share * c = (share * k) + (m * share) /\ share * k \in Nat /\ m * share \in Nat
    BY <1>2, <1>7, <2>2
  <2> DEFINE x == share * k  y == m * share  z == share * c
  <2>5. z = x + y /\ x \in Nat /\ y \in Nat /\ z <= L /\ a <= y /\ L \in Nat  BY <1>1, <1>6, <2>1, <2>4
  <2> HIDE DEF x, y, z
  <2>6. l \in Nat /\ x <= l
    <3>1. l = L - a /\ a \in Nat  BY <2>1
    <3>2. QED  BY <2>5, <3>1
  <2>7. Cast!Total(got) + l = budget
    <3>1. a \in Int /\ L \in Int /\ h \in Int /\ l = L - a /\ h + L = budget /\ Cast!Total(got) = h + a
      BY <1>1, <2>1, <2>3
    <3>2. QED  BY <3>1
  <2>8. QED  BY <2>6, <2>7 DEF l, k, x
<1>12. \A i \in D \ (W \ who) : got[i] = w[i] /\ got[i] * (c - m) <= t.left
  <2> SUFFICES ASSUME NEW i \in D \ (W \ who) PROVE got[i] = w[i] /\ got[i] * (c - m) <= t.left
    OBVIOUS
  <2>1. got[i] = w[i] /\ got[i] \in Nat  BY <1>1, <1>4, <1>8
  <2>2. got[i] <= share
    <3>1. CASE i \in who  BY <1>5, <2>1, <3>1
    <3>2. CASE i \notin who
      <4>1. got[i] = had[i] /\ had[i] * c <= L  BY <1>1, <1>4, <3>2
      <4>2. QED  BY <1>1, <1>2, <1>6, <1>7, <2>1, <4>1, NoMoreThanAShare
    <3>3. QED  BY <3>1, <3>2
  <2> DEFINE g == got[i]  k == c - m
  <2>3. k \in Nat /\ g \in Nat /\ g <= share /\ share \in Nat  BY <1>2, <1>7, <2>1, <2>2
  <2> HIDE DEF g, k
  <2>4. g * k \in Nat /\ share * k \in Nat /\ g * k <= share * k  BY <2>3, TimesGrow
  <2>5. share * k <= t.left /\ t.left \in Nat  BY <1>11 DEF k
  <2>6. g * k <= t.left
    <3> DEFINE x == g * k  y == share * k
    <3>1. x \in Nat /\ y \in Nat /\ x <= y /\ y <= t.left /\ t.left \in Nat  BY <2>4, <2>5
    <3> HIDE DEF x, y
    <3>2. x <= t.left  BY <3>1
    <3>3. QED  BY <3>2 DEF x
  <2>7. QED  BY <2>1, <2>6 DEF g, k
<1>13. \A i \in W \ who : got[i] = 0 /\ w[i] > 0  BY <1>1, <1>4
<1>14. Cardinality(t.wanting) = c - m  BY <1>4, <1>7
<1>15. Open(w, budget, t)
  <2>1. t.wanting \in SUBSET D /\ got \in [DOMAIN w -> Nat]  BY <1>1, <1>4, <1>8
  <2>2. QED  BY <1>1, <1>4, <1>11, <1>12, <1>13, <1>14, <2>1 DEF Open, got
<1>16. Cardinality(t.wanting) < c  BY <1>7, <1>14
<1>17. QED  BY <1>15, <1>16 DEF c, W

LEMMA PassFair ==
  ASSUME NEW n \in Nat, NEW w \in [1..n -> Nat], NEW budget \in Nat, NEW s,
         Open(w, budget, s) \/ Closed(w, budget, s)
  PROVE  \/ Closed(w, budget, Cast!Pass(w, s))
         \/ /\ Open(w, budget, Cast!Pass(w, s)) /\ Open(w, budget, s)
            /\ Cardinality(Cast!Pass(w, s).wanting) < Cardinality(s.wanting)
<1>1. CASE Closed(w, budget, s)  BY <1>1, ClosedStays
<1>2. CASE Open(w, budget, s) /\ s.wanting = {}
  <2>1. Closed(w, budget, s)  BY <1>2, EmptyCloses
  <2>2. QED  BY <2>1, ClosedStays
<1>3. CASE Open(w, budget, s) /\ s.wanting # {}
  <2> DEFINE W == s.wanting  c == Cardinality(W)  share == s.left \div c
             who == {i \in W : w[i] <= share}
             last == [got |-> [i \in DOMAIN w |-> IF i \in W THEN share ELSE s.got[i]],
                      wanting |-> {}, left |-> s.left]
             next == [got |-> [i \in DOMAIN w |-> IF i \in who THEN w[i] ELSE s.got[i]],
                      wanting |-> W \ who, left |-> s.left - Cast!Total(Cast!Of(w, who))]
  <2>1. Cast!Pass(w, s) = IF share = 0 THEN [s EXCEPT !.wanting = {}] ELSE IF who = {} THEN last ELSE next
    BY <1>3, PassIs
  <2>2. W \in SUBSET (1..n) /\ s.left \in Nat /\ s.got \in [1..n -> Nat] /\ DOMAIN w = 1..n
        /\ (\A i \in W : s.got[i] = 0 /\ w[i] > 0)
        /\ s = [got |-> s.got, wanting |-> W, left |-> s.left]
    BY <1>3 DEF Open
  <2>3. c \in Nat /\ c > 0
    <3>1. 1 \in Int /\ n \in Int  OBVIOUS
    <3>2. IsFiniteSet(1..n)  BY <3>1, FS_Interval
    <3>3. IsFiniteSet(W)  BY <2>2, <3>2, FS_Subset
    <3>4. c \in Nat  BY <3>3, FS_CardinalityType
    <3>5. c # 0  BY <1>3, <3>3, FS_EmptySet
    <3>6. QED  BY <3>4, <3>5
  <2>4. share \in Nat /\ share * c <= s.left /\ s.left < (share * c) + c
    <3> DEFINE l == s.left  r == l % c
    <3>1. share \in Nat /\ r \in 0..(c - 1) /\ l = (c * share) + r  BY <2>2, <2>3, Divides
    <3> HIDE DEF share, r, c, l
    <3>2. c * share = share * c /\ share * c \in Nat  BY <2>3, <3>1
    <3> DEFINE x == share * c
    <3>3. x \in Nat /\ l = x + r /\ r \in 0..(c - 1)  BY <3>1, <3>2
    <3> HIDE DEF x
    <3>4. x <= l /\ l < x + c  BY <2>3, <3>3
    <3>5. QED  BY <3>1, <3>4 DEF x, l
  <2> HIDE DEF share, c, W
  <2>5. CASE who = {} \/ share = 0
    <3>1. \A i \in W : share < w[i]
      <4>1. \A i \in W : w[i] \in Nat /\ w[i] > 0  BY <2>2
      <4>2. CASE who = {}
        <5>1. \A i \in W : ~(w[i] <= share)  BY <4>2
        <5>2. QED  BY <2>4, <4>1, <5>1
      <4>3. CASE share = 0  BY <4>1, <4>3
      <4>4. QED  BY <2>5, <4>2, <4>3
    <3>2. TooLittle(w, s, share)  BY <2>3, <2>4, <3>1 DEF TooLittle, c, W
    <3>3. Closed(w, budget, last)  BY <1>3, <3>2, EqualShares DEF W
    <3>4. Cast!Pass(w, s) = last
      <4>1. CASE share = 0
        <5>1. last.got = [i \in DOMAIN w |-> IF i \in W THEN 0 ELSE s.got[i]]  BY <4>1
        <5>2. last.got = s.got  BY <2>2, <5>1
        <5>3. last = [got |-> s.got, wanting |-> {}, left |-> s.left]  BY <5>2
        <5>4. [s EXCEPT !.wanting = {}] = [got |-> s.got, wanting |-> {}, left |-> s.left]
          <6>1. PICK g, v, l : s = [got |-> g, wanting |-> v, left |-> l]  BY <2>2
          <6>2. s.got = g /\ s.left = l  BY <6>1
          <6>3. \A e : [s EXCEPT !.wanting = e] = [got |-> g, wanting |-> e, left |-> l]
            <7> SUFFICES ASSUME NEW e
                         PROVE  [s EXCEPT !.wanting = e] = [got |-> g, wanting |-> e, left |-> l]
              OBVIOUS
            <7> DEFINE but == [x \in {"got", "wanting", "left"} |-> IF x = "wanting" THEN e ELSE s[x]]
            <7>1. [s EXCEPT !.wanting = e] = but  BY <6>1
            <7>2. [got |-> g, wanting |-> e, left |-> l] = but  BY <6>1
            <7>3. QED  BY <7>1, <7>2
          <6>4. [s EXCEPT !.wanting = {}] = [got |-> g, wanting |-> {}, left |-> l]  BY <6>3, Zenon
          <6>5. QED  BY <6>2, <6>4
        <5>5. QED  BY <2>1, <4>1, <5>3, <5>4
      <4>2. CASE share # 0  BY <2>1, <2>5, <4>2
      <4>3. QED  BY <4>1, <4>2
    <3>5. QED  BY <3>3, <3>4
  <2>6. CASE who # {} /\ share # 0
    <3>1. Cast!Pass(w, s) = next  BY <2>1, <2>6
    <3>2. Open(w, budget, next) /\ Cardinality(next.wanting) < Cardinality(s.wanting)
      <4>1. Leaves(w, s, share, who, next)  BY <2>4, <2>6 DEF Leaves, c, W
      <4> HIDE DEF who, next
      <4>2. QED  BY <1>3, <4>1, SomeLeave
    <3>3. QED  BY <1>3, <3>1, <3>2
  <2>7. QED  BY <2>5, <2>6
<1>4. QED  BY <1>1, <1>2, <1>3

LEMMA SharesBegin ==
  ASSUME NEW n \in Nat, NEW w \in [1..n -> Nat], NEW budget \in Nat,
         NEW s, s = [got |-> [i \in DOMAIN w |-> 0], wanting |-> Cast!Positive(w), left |-> budget]
  PROVE  Open(w, budget, s) /\ Cardinality(s.wanting) \in Nat /\ Cardinality(s.wanting) <= n
<1> DEFINE D == 1..n  zero == s.got  W == s.wanting
<1>1. DOMAIN w = D /\ zero = [i \in D |-> 0] /\ W = {i \in D : w[i] > 0} /\ W \in SUBSET D
      /\ s = [got |-> zero, wanting |-> W, left |-> budget]
  BY DEF Cast!Positive
<1>2. IsFiniteSet(D) /\ Cardinality(D) = n
  <2>1. 1 \in Int /\ n \in Int  OBVIOUS
  <2>2. IsFiniteSet(1..n) /\ Cardinality(1..n) = IF 1 > n THEN 0 ELSE n - 1 + 1
    BY <2>1, FS_Interval, Zenon
  <2>3. QED  BY <2>2
<1>3. w \in [D -> Nat]  OBVIOUS
<1> HIDE DEF D, zero, W
<1>4. Cast!Total(zero) = 0
  <2>1. zero \in [D -> Int] /\ {} \in SUBSET D /\ \A i \in D : zero[i] = IF i \in {} THEN 1 ELSE 0  BY <1>1
  <2>2. Cast!Total(zero) = Cardinality({})  BY <1>2, <2>1, TotalCounts
  <2>3. QED  BY <2>2, FS_EmptySet
<1>5. IsFiniteSet(W) /\ Cardinality(W) \in Nat /\ Cardinality(W) <= n
  <2>1. IsFiniteSet(W) /\ Cardinality(W) <= Cardinality(D)  BY <1>1, <1>2, FS_Subset
  <2>2. QED  BY <1>2, <2>1, FS_CardinalityType
<1>6. \A i \in D \ W : zero[i] = w[i] /\ zero[i] * Cardinality(W) <= budget
  <2> SUFFICES ASSUME NEW i \in D \ W PROVE zero[i] = w[i] /\ zero[i] * Cardinality(W) <= budget
    OBVIOUS
  <2>1. w[i] \in Nat /\ ~(w[i] > 0) /\ zero[i] = 0  BY <1>1, <1>3
  <2>2. 0 * Cardinality(W) = 0  BY <1>5
  <2>3. QED  BY <2>1, <2>2
<1>7. \A i \in W : zero[i] = 0 /\ w[i] > 0  BY <1>1
<1>8. zero \in [D -> Nat]  BY <1>1
<1>9. Open(w, budget, s)
  <2>1. s.left = budget /\ Cast!Total(s.got) + s.left = budget  BY <1>1, <1>4 DEF zero
  <2>2. QED  BY <1>1, <1>6, <1>7, <1>8, <2>1 DEF Open, zero, W
<1>10. QED  BY <1>5, <1>9 DEF W

LEMMA SharesAreFair ==
  ASSUME NEW n \in Nat, NEW w \in [1..n -> Nat], NEW budget \in Nat
  PROVE  FairTo(w, budget, Cast!FairShare(w, budget))
<1> DEFINE D == 1..n
           base == [got |-> [i \in DOMAIN w |-> 0], wanting |-> Cast!Positive(w), left |-> budget]
           Passes(f) == f = [k \in 0..Len(w) |-> IF k = 0 THEN base ELSE Cast!Pass(w, f[k - 1])]
           after == CHOOSE f : Passes(f)
           X == [got : [D -> Nat], wanting : SUBSET D, left : Nat]
           B == {s \in X : Open(w, budget, s) \/ Closed(w, budget, s)}
           step == [s \in B |-> Cast!Pass(w, s)]
<1>1. Len(w) = n /\ DOMAIN w = D
  <2>1. w \in Seq(Nat)  BY SeqDef
  <2>2. QED  BY <2>1, LenProperties
<1>2. Open(w, budget, base) /\ Cardinality(base.wanting) \in Nat /\ Cardinality(base.wanting) <= n
  BY SharesBegin
<1>3. \A s : Open(w, budget, s) \/ Closed(w, budget, s) => s \in B
  <2> SUFFICES ASSUME NEW s, Open(w, budget, s) \/ Closed(w, budget, s) PROVE s \in X
    OBVIOUS
  <2>1. s = [got |-> s.got, wanting |-> s.wanting, left |-> s.left]
        /\ s.got \in [D -> Nat] /\ s.wanting \in SUBSET D /\ s.left \in Nat
    BY <1>1 DEF Open, Closed
  <2> HIDE DEF D
  <2>2. QED  BY <2>1
<1>4. base \in B /\ \A s \in B : Open(w, budget, s) \/ Closed(w, budget, s)  BY <1>2, <1>3
<1> HIDE DEF B, base
<1>5. step \in [B -> B] /\ \A s \in B : step[s] = Cast!Pass(w, s)
  <2>1. \A s \in B : Cast!Pass(w, s) \in B  BY <1>3, <1>4, PassFair
  <2>2. QED  BY <2>1
<1> HIDE DEF step
<1>6. PICK f \in [0..n -> B] : Chained(f, n, base, step)
  <2>1. base \in B /\ step \in [B -> B]  BY <1>4, <1>5
  <2>2. QED  BY <2>1, ChainExists
<1>7. Passes(f)
  <2>1. ASSUME NEW k \in 0..n PROVE f[k] = IF k = 0 THEN base ELSE Cast!Pass(w, f[k - 1])
    <3>1. CASE k = 0  BY <1>6, <3>1 DEF Chained
    <3>2. CASE k # 0
      <4>1. k \in 1..n /\ k - 1 \in 0..n  BY <3>2
      <4>2. f[k] = step[f[k - 1]] /\ f[k - 1] \in B  BY <1>6, <4>1 DEF Chained
      <4>3. QED  BY <1>5, <3>2, <4>2
    <3>3. QED  BY <3>1, <3>2
  <2>2. QED  BY <1>1, <2>1
<1> HIDE DEF Passes
<1>8. Passes(after)  BY <1>7, Zenon
<1> HIDE DEF after
<1>9. after[0] = base /\ \A k \in 1..n : after[k] = Cast!Pass(w, after[k - 1])
  <2>1. after = [k \in 0..n |-> IF k = 0 THEN base ELSE Cast!Pass(w, after[k - 1])]
    BY <1>1, <1>8 DEF Passes
  <2>2. 0 \in 0..n /\ \A k \in 1..n : k \in 0..n /\ k # 0  OBVIOUS
  <2>3. QED  BY <2>1, <2>2
<1> DEFINE Holds == {k \in Nat : k <= n =>
                       \/ Closed(w, budget, after[k])
                       \/ /\ Open(w, budget, after[k])
                          /\ Cardinality(after[k].wanting) + k <= n}
<1>10. 0 \in Holds  BY <1>2, <1>9 DEF base
<1>11. ASSUME NEW k \in 1..n, k - 1 \in Holds PROVE k \in Holds
  <2> DEFINE s == after[k - 1]  t == after[k]
  <2>1. t = Cast!Pass(w, s) /\ k \in Nat /\ k <= n  BY <1>9
  <2>2. \/ Closed(w, budget, s)
        \/ Open(w, budget, s) /\ Cardinality(s.wanting) + (k - 1) <= n
    BY <1>11
  <2> HIDE DEF s, t
  <2>3. \/ Closed(w, budget, t)
        \/ Open(w, budget, t) /\ Open(w, budget, s) /\ Cardinality(t.wanting) < Cardinality(s.wanting)
    BY <2>1, <2>2, PassFair
  <2>4. ASSUME Open(w, budget, t), Open(w, budget, s), ~Closed(w, budget, t)
        PROVE  Cardinality(t.wanting) + k <= n
    <3>1. ~Closed(w, budget, s)  BY <2>1, <2>4, ClosedStays
    <3>2. Cardinality(s.wanting) + (k - 1) <= n /\ Cardinality(t.wanting) < Cardinality(s.wanting)
      BY <2>2, <2>3, <2>4, <3>1
    <3>3. Cardinality(s.wanting) \in Nat /\ Cardinality(t.wanting) \in Nat
      <4>1. 1 \in Int /\ n \in Int  OBVIOUS
      <4>2. IsFiniteSet(D)  BY <4>1, FS_Interval
      <4>3. s.wanting \in SUBSET D /\ t.wanting \in SUBSET D  BY <1>1, <2>4 DEF Open
      <4>4. QED  BY <4>2, <4>3, FS_Subset, FS_CardinalityType
    <3>4. QED  BY <3>2, <3>3
  <2>5. QED  BY <2>1, <2>3, <2>4 DEF t
<1> HIDE DEF Holds
<1>12. n \in Holds  BY <1>10, <1>11, StaysUpto
<1>13. Closed(w, budget, after[n])
  <2> DEFINE s == after[n]
  <2>1. Closed(w, budget, s) \/ (Open(w, budget, s) /\ Cardinality(s.wanting) + n <= n)
    BY <1>12 DEF Holds
  <2> HIDE DEF s
  <2>2. CASE Open(w, budget, s) /\ Cardinality(s.wanting) + n <= n
    <3>1. 1 \in Int /\ n \in Int  OBVIOUS
    <3>2. IsFiniteSet(D)  BY <3>1, FS_Interval
    <3>3. s.wanting \in SUBSET D  BY <1>1, <2>2 DEF Open
    <3>4. IsFiniteSet(s.wanting) /\ Cardinality(s.wanting) \in Nat
      BY <3>2, <3>3, FS_Subset, FS_CardinalityType
    <3>5. Cardinality(s.wanting) = 0  BY <2>2, <3>4
    <3>6. s.wanting = {}  BY <3>4, <3>5, FS_EmptySet
    <3>7. QED  BY <2>2, <3>6, EmptyCloses DEF s
  <2>3. QED  BY <2>1, <2>2 DEF s
<1>14. Cast!FairShare(w, budget) = after[n].got
  <2>1. Cast!FairShare(w, budget) = after[Len(w)].got
    BY Zenon DEF Cast!FairShare, after, Passes, base
  <2>2. QED  BY <1>1, <2>1
<1>15. QED  BY <1>13, <1>14 DEF Closed

-----------------------------------------------------------------------------
(* compile_packs: a deal that goes round deals every adversary as often as *)
(* another, or once more.                                                  *)
LEMMA ProductsOrder ==
  ASSUME NEW b \in Nat, NEW p \in Nat, NEW q \in Nat, p < q
  PROVE  /\ b * p \in Nat /\ b * q \in Nat /\ (b * p) + b <= b * q
<1> DEFINE d == q - (p + 1)
<1>1. d \in Nat /\ q = (p + 1) + d  OBVIOUS
<1> HIDE DEF d
<1>2. b * q = ((b * p) + b) + (b * d) /\ b * d \in Nat /\ b * p \in Nat  BY <1>1
<1>3. QED  BY <1>2

LEMMA Quotient ==
  ASSUME NEW a \in Nat, NEW b \in Nat, NEW q \in Nat, NEW r \in Nat, r < b, a = (b * q) + r
  PROVE  a \div b = q /\ a % b = r
<1> DEFINE p == a \div b  t == a % b
<1>1. p \in Nat /\ t \in 0..(b - 1) /\ a = (b * p) + t  BY Divides
<1> HIDE DEF p, t
<1>2. ~(p < q)
  <2> SUFFICES ASSUME p < q PROVE FALSE  OBVIOUS
  <2>1. b * p \in Nat /\ b * q \in Nat /\ (b * p) + b <= b * q  BY <1>1, ProductsOrder
  <2> DEFINE x == b * p  y == b * q
  <2>2. x \in Nat /\ y \in Nat /\ x + b <= y /\ x + t = y + r /\ t < b /\ t \in Nat  BY <1>1, <2>1
  <2> HIDE DEF x, y
  <2>3. QED  BY <2>2
<1>3. ~(q < p)
  <2> SUFFICES ASSUME q < p PROVE FALSE  OBVIOUS
  <2>1. b * p \in Nat /\ b * q \in Nat /\ (b * q) + b <= b * p  BY <1>1, ProductsOrder
  <2> DEFINE x == b * p  y == b * q
  <2>2. x \in Nat /\ y \in Nat /\ y + b <= x /\ x + t = y + r /\ t \in Nat  BY <1>1, <2>1
  <2> HIDE DEF x, y
  <2>3. QED  BY <2>2
<1>4. p = q  BY <1>1, <1>2, <1>3
<1>5. t = r
  <2> DEFINE x == b * q
  <2>1. x + t = x + r /\ x \in Nat /\ t \in Nat  BY <1>1, <1>4
  <2> HIDE DEF x
  <2>2. QED  BY <2>1
<1>6. QED  BY <1>4, <1>5 DEF p, t

(* The share of each segment: enough for all of the cohort together, and   *)
(* never the same adversary twice.                                         *)
LEMMA ShareOfCohort ==
  ASSUME NEW c \in Nat, NEW n \in Nat, c > 0, n > 0
  PROVE  LET each == Cast!PerPack(c, n) IN
         each \in Nat /\ each > 0 /\ each <= c /\ n * each \in Nat /\ c <= n * each
<1> DEFINE each == (c + n - 1) \div n  r == (c + n - 1) % n  t == (c + n) - 1
<1>1. t \in Nat /\ each = t \div n /\ r = t % n  OBVIOUS
<1>2. each \in Nat /\ r \in 0..(n - 1) /\ t = (n * each) + r  BY <1>1, Divides
<1> HIDE DEF each, r
<1>3. n * each \in Nat  BY <1>2
<1>4. c <= n * each
  <2> DEFINE x == n * each
  <2>1. x \in Nat /\ (c + n) - 1 = x + r /\ r \in 0..(n - 1)  BY <1>2, <1>3
  <2> HIDE DEF x
  <2>2. c <= x  BY <2>1
  <2>3. QED  BY <2>2 DEF x
<1>5. each # 0
  <2> SUFFICES ASSUME each = 0 PROVE FALSE  OBVIOUS
  <2>1. n * each = 0  OBVIOUS
  <2>2. QED  BY <1>4, <2>1
<1>6. ~(c < each)
  <2> SUFFICES ASSUME c < each PROVE FALSE  OBVIOUS
  <2>1. n * c \in Nat /\ (n * c) + n <= n * each  BY <1>2, ProductsOrder
  <2>2. c <= n * c
    <3> DEFINE d == n - 1
    <3>1. d \in Nat /\ n = d + 1  OBVIOUS
    <3> HIDE DEF d
    <3>2. n * c = (d * c) + c /\ d * c \in Nat  BY <3>1
    <3>3. QED  BY <3>2
  <2> DEFINE x == n * each  y == n * c
  <2>3. x \in Nat /\ y \in Nat /\ y + n <= x /\ c <= y /\ (c + n) - 1 = x + r /\ r \in Nat
    BY <1>2, <1>3, <2>1, <2>2
  <2> HIDE DEF x, y
  <2>4. QED  BY <2>3
<1>7. Cast!PerPack(c, n) = each  BY DEF Cast!PerPack, each
<1>8. QED  BY <1>2, <1>3, <1>4, <1>5, <1>6, <1>7

(* How often one of the cohort is met: once per round of the deal, and     *)
(* once more when the last round reaches it.                               *)
Meeting(c, n, x) == {s \in 1..n : x \in Cast!Deal(c, n)[s]}
LEMMA MetOncePerRound ==
  ASSUME NEW c \in Nat, NEW n \in Nat, c > 0, n > 0, NEW x \in 1..c
  PROVE  LET q == (n * Cast!PerPack(c, n)) \div c  IN
         /\ q \in Nat /\ q > 0
         /\ Cardinality(Meeting(c, n, x)) \in {q, q + 1}
<1> DEFINE each == Cast!PerPack(c, n)
           T == n * each  q == T \div c  r == T % c
           y == x - 1
           last == IF y < r THEN q ELSE q - 1
           times == 0..last
           spot(m) == y + (c * m)
           f == [m \in times |-> 1 + (spot(m) \div each)]
           M == Meeting(c, n, x)
<1>1. each \in Nat /\ each > 0 /\ each <= c /\ T \in Nat /\ c <= T  BY ShareOfCohort
<1> HIDE DEF each
<1>2. y \in Nat /\ y < c /\ x = y + 1  OBVIOUS
<1> HIDE DEF y
<1>3. q \in Nat /\ r \in 0..(c - 1) /\ T = (c * q) + r  BY <1>1, Divides
<1> HIDE DEF q, r, T
<1>4. q > 0
  <2> SUFFICES ASSUME q = 0 PROVE FALSE  BY <1>3
  <2>1. c * q = 0  OBVIOUS
  <2>2. QED  BY <1>1, <1>3, <2>1
<1>5. last \in Nat /\ last \in {q - 1, q} /\ (last = q <=> y < r)  BY <1>3, <1>4
<1> HIDE DEF last
(* In every round of the deal this one has a spot, and the deal reaches it.*)
<1>6. ASSUME NEW m \in Nat PROVE spot(m) \in Nat /\ c * m \in Nat
  BY <1>2
<1>7. ASSUME NEW m \in Nat PROVE m \in times <=> spot(m) < T
  <2>1. c * m \in Nat /\ c * q \in Nat  BY <1>3, <1>6
  <2>2. CASE m < q
    <3>1. (c * m) + c <= c * q  BY <1>3, <2>2, ProductsOrder
    <3> DEFINE u == c * m  v == c * q
    <3>2. u \in Nat /\ v \in Nat /\ u + c <= v /\ T = v + r /\ r \in Nat /\ y \in Nat /\ y < c
      BY <1>2, <1>3, <2>1, <3>1
    <3>3. m \in times  BY <1>3, <1>5, <2>2
    <3> HIDE DEF u, v
    <3>4. y + u < T  BY <3>2
    <3>5. QED  BY <3>3, <3>4 DEF u
  <2>3. CASE m = q
    <3> DEFINE u == c * q
    <3>1. u \in Nat /\ T = u + r /\ r \in Nat  BY <1>3, <2>1
    <3>2. spot(m) = y + u  BY <2>3
    <3> HIDE DEF u
    <3>3. spot(m) < T <=> y < r  BY <1>2, <3>1, <3>2
    <3> HIDE DEF spot
    <3>4. m \in times <=> last = q  BY <1>3, <1>5, <2>3
    <3>5. QED  BY <1>5, <3>3, <3>4
  <2>4. CASE q < m
    <3>1. (c * q) + c <= c * m  BY <1>3, <2>4, ProductsOrder
    <3> DEFINE u == c * m  v == c * q
    <3>2. u \in Nat /\ v \in Nat /\ v + c <= u /\ T = v + r /\ r \in 0..(c - 1) /\ y \in Nat
      BY <1>2, <1>3, <2>1, <3>1
    <3>3. m \notin times  BY <1>3, <1>5, <2>4
    <3> HIDE DEF u, v
    <3>4. ~(y + u < T)  BY <3>2
    <3>5. QED  BY <3>3, <3>4 DEF u
  <2>5. QED  BY <1>3, <2>2, <2>3, <2>4
<1>8. \A m \in times : m \in Nat /\ spot(m) \in Nat /\ spot(m) < T
  <2>1. \A m \in times : m \in Nat  BY <1>5
  <2> HIDE DEF times, spot
  <2>2. QED  BY <1>6, <1>7, <2>1
(* The segments that meet it are those that have one of its spots.         *)
<1>9. ASSUME NEW s \in 1..n
      PROVE  s \in M <=> \E k \in 0..(each - 1) : y = (((s - 1) * each) + k) % c
  <2>1. Cast!Deal(c, n)[s] = {1 + ((((s - 1) * each) + k) % c) : k \in 0..(each - 1)}
    BY DEF Cast!Deal, each
  <2>2. s \in M <=> \E k \in 0..(each - 1) : x = 1 + ((((s - 1) * each) + k) % c)
    BY <2>1 DEF Meeting
  <2>3. ASSUME NEW k \in 0..(each - 1) PROVE (((s - 1) * each) + k) % c \in Int
    <3> DEFINE a == ((s - 1) * each) + k
    <3>1. a \in Nat
      <4>1. s - 1 \in Nat /\ each \in Nat  BY <1>1
      <4>2. (s - 1) * each \in Nat  BY <4>1
      <4>3. QED  BY <1>1, <4>2
    <3> HIDE DEF a
    <3>2. a % c \in Int  BY <3>1
    <3>3. QED  BY <3>2 DEF a
  <2> DEFINE at2(k) == (((s - 1) * each) + k) % c
  <2>4. ASSUME NEW k \in 0..(each - 1) PROVE x = 1 + at2(k) <=> y = at2(k)
    <3>1. at2(k) \in Int  BY <2>3
    <3> HIDE DEF at2
    <3>2. QED  BY <1>2, <3>1
  <2> HIDE DEF at2
  <2>5. (\E k \in 0..(each - 1) : x = 1 + at2(k)) <=> (\E k \in 0..(each - 1) : y = at2(k))
    BY <2>4
  <2>6. QED  BY <2>2, <2>5 DEF at2
<1>10. ASSUME NEW m \in times
       PROVE  /\ f[m] \in 1..n /\ spot(m) \div each \in Nat /\ spot(m) % each \in 0..(each - 1)
              /\ spot(m) = (each * (spot(m) \div each)) + (spot(m) % each)
  <2> DEFINE a == spot(m)  p == a \div each  t == a % each
  <2>1. a \in Nat /\ a < T  BY <1>8
  <2>2. p \in Nat /\ t \in 0..(each - 1) /\ a = (each * p) + t  BY <1>1, <2>1, Divides
  <2>3. p < n
    <3> HIDE DEF a, p, t
    <3>1. T = each * n /\ each * n \in Nat  BY <1>1 DEF T
    <3>2. CASE n < p
      <4>1. each * n \in Nat /\ each * p \in Nat /\ (each * n) + each <= each * p
        BY <1>1, <2>2, <3>2, ProductsOrder
      <4> DEFINE u == each * n  v == each * p
      <4>2. u \in Nat /\ v \in Nat /\ u + each <= v /\ a = v + t /\ a < u /\ t \in Nat
        BY <1>1, <2>1, <2>2, <3>1, <4>1
      <4> HIDE DEF u, v
      <4>3. QED  BY <1>1, <4>2
    <3>3. CASE n = p
      <4> DEFINE u == each * n
      <4>1. u \in Nat /\ a = u + t /\ a < u /\ t \in Nat  BY <1>1, <2>1, <2>2, <3>1, <3>3
      <4> HIDE DEF u
      <4>2. QED  BY <4>1
    <3>4. QED  BY <2>2, <3>2, <3>3
  <2>4. f[m] = 1 + p  OBVIOUS
  <2> HIDE DEF p, f
  <2>5. f[m] \in 1..n  BY <2>2, <2>3, <2>4
  <2>6. QED  BY <2>2, <2>5 DEF p
<1>11. \A m \in times : f[m] \in M
  <2> SUFFICES ASSUME NEW m \in times PROVE f[m] \in M  OBVIOUS
  <2> DEFINE a == spot(m)  p == a \div each  t == a % each
  <2>1. f[m] = 1 + p /\ f[m] \in 1..n /\ p \in Nat /\ t \in 0..(each - 1) /\ a = (each * p) + t
        /\ m \in Nat /\ a \in Nat
    BY <1>8, <1>10
  <2>2. a = (c * m) + y  BY <1>2, <1>6, <2>1
  <2> HIDE DEF a, p, t, f
  <2>3. a % c = y  BY <1>2, <2>1, <2>2, Quotient
  <2>4. ((f[m] - 1) * each) + t = a
    <3>1. f[m] - 1 = p /\ p * each = each * p  BY <1>1, <2>1
    <3>2. QED  BY <2>1, <3>1
  <2>5. \E k \in 0..(each - 1) : y = (((f[m] - 1) * each) + k) % c  BY <2>1, <2>3, <2>4
  <2>6. QED  BY <1>9, <2>1, <2>5
<1>12. \A m, l \in times : m # l => f[m] # f[l]
  <2>1. ASSUME NEW m \in times, NEW l \in times, m < l PROVE f[m] # f[l]
    <3> DEFINE a == spot(m)  p == a \div each  t == a % each
               b == spot(l)  v == b \div each  w == b % each
    <3>1. f[m] = 1 + p /\ p \in Nat /\ t \in 0..(each - 1) /\ a = (each * p) + t /\ m \in Nat
      BY <1>8, <1>10
    <3>2. f[l] = 1 + v /\ v \in Nat /\ w \in 0..(each - 1) /\ b = (each * v) + w /\ l \in Nat
      BY <1>8, <1>10
    <3>3. a + c <= b
      <4>1. c * m \in Nat /\ c * l \in Nat /\ (c * m) + c <= c * l  BY <2>1, <3>1, <3>2, ProductsOrder
      <4> DEFINE g == c * m  h == c * l
      <4>2. g \in Nat /\ h \in Nat /\ g + c <= h  BY <4>1
      <4> HIDE DEF g, h
      <4>3. (y + g) + c <= y + h  BY <1>2, <4>2
      <4>4. QED  BY <4>3 DEF g, h
    <3> HIDE DEF a, p, t, b, v, w, f
    <3>4. ASSUME p = v PROVE FALSE
      <4> DEFINE u == each * p
      <4>1. u \in Nat /\ a = u + t /\ b = u + w  BY <1>1, <3>1, <3>2, <3>4
      <4> HIDE DEF u
      <4>2. QED  BY <1>1, <3>1, <3>2, <3>3, <4>1
    <3>5. QED  BY <3>1, <3>2, <3>4
  <2> SUFFICES ASSUME NEW m \in times, NEW l \in times, m # l PROVE f[m] # f[l]  OBVIOUS
  <2>2. m < l \/ l < m  BY <1>8
  <2> HIDE DEF f, times
  <2>3. QED  BY <2>1, <2>2
<1>13. \A s \in M : \E m \in times : f[m] = s
  <2> SUFFICES ASSUME NEW s \in M PROVE \E m \in times : f[m] = s  OBVIOUS
  <2>1. s \in 1..n  BY DEF Meeting
  <2>2. PICK k \in 0..(each - 1) : y = (((s - 1) * each) + k) % c  BY <1>9, <2>1
  <2> DEFINE p == s - 1  a == (p * each) + k  m == a \div c
  <2>3. p \in Nat /\ p < n /\ k \in Nat /\ k < each  BY <1>1, <2>1
  <2>4. p * each = each * p /\ each * p \in Nat  BY <1>1, <2>3
  <2>5. a \in Nat /\ a = (each * p) + k  BY <2>3, <2>4
  <2>6. m \in Nat /\ a = (c * m) + y
    <3>1. a \div c \in Nat /\ a % c \in 0..(c - 1) /\ a = (c * (a \div c)) + (a % c)  BY <2>5, Divides
    <3>2. a % c = y  BY <2>2
    <3>3. QED  BY <3>1, <3>2
  <2>7. a < T
    <3>1. each * p \in Nat /\ each * n \in Nat /\ (each * p) + each <= each * n
      BY <1>1, <2>3, ProductsOrder
    <3>2. T = each * n  BY <1>1 DEF T
    <3> DEFINE u == each * p
    <3>3. u \in Nat /\ u + each <= T /\ a = u + k  BY <2>5, <3>1, <3>2
    <3> HIDE DEF u, a
    <3>4. QED  BY <1>1, <2>3, <3>3
  <2> HIDE DEF m, p, a
  <2>8. spot(m) = a
    <3>1. c * m \in Nat  BY <2>6
    <3>2. QED  BY <1>2, <2>6, <3>1
  <2>9. m \in times  BY <1>7, <2>6, <2>7, <2>8
  <2>10. a \div each = p  BY <1>1, <2>3, <2>5, Quotient
  <2>11. f[m] = 1 + p  BY <2>8, <2>9, <2>10
  <2>12. 1 + p = s  BY <2>1 DEF p
  <2>13. QED  BY <2>9, <2>11, <2>12
<1> HIDE DEF f, spot
<1>14. Cardinality(M) = last + 1
  <2>1. IsFiniteSet(times) /\ Cardinality(times) = last + 1
    <3>1. 0 \in Int /\ last \in Int  BY <1>5
    <3>2. IsFiniteSet(0..last) /\ Cardinality(0..last) = IF 0 > last THEN 0 ELSE last - 0 + 1
      BY <3>1, FS_Interval, Zenon
    <3>3. QED  BY <1>5, <3>2
  <2> HIDE DEF times, M
  <2>2. f \in Bijection(times, M)
    <3>1. f \in [times -> M]
      <4>1. f = [m \in times |-> f[m]]  BY DEF f
      <4>2. QED  BY <1>11, <4>1
    <3>2. QED  BY <1>12, <1>13, <3>1 DEF Bijection, Injection, Surjection, IsInjective
  <2>3. ExistsBijection(times, M)  BY <2>2 DEF ExistsBijection
  <2>4. QED  BY <2>1, <2>3, FS_Bijection
<1>15. Cardinality(M) \in {q, q + 1}  BY <1>3, <1>5, <1>14
<1>16. QED  BY <1>3, <1>4, <1>15 DEF q, T, each

(* The deal of a cohort: nobody sits out, and nobody is met twice more     *)
(* often than another.                                                     *)
DealtTo(c, got) ==
  LET met(x) == Cardinality({s \in DOMAIN got : x \in got[s]}) IN
  /\ \A s \in DOMAIN got : got[s] # {}
  /\ \A x, y \in 1..c : met(x) > 0 /\ met(x) <= met(y) + 1
LEMMA DealsReachAll ==
  ASSUME NEW c \in Nat, NEW n \in Nat, c > 0, n > 0
  PROVE  DealtTo(c, Cast!Deal(c, n))
<1> DEFINE got == Cast!Deal(c, n)  each == Cast!PerPack(c, n)  q == (n * each) \div c
           met(x) == Cardinality({s \in DOMAIN got : x \in got[s]})
<1>1. each \in Nat /\ each > 0  BY ShareOfCohort, Zenon
<1>2. DOMAIN got = 1..n
      /\ \A s \in 1..n : got[s] = {1 + (((s - 1) * each + k) % c) : k \in 0..(each - 1)}
  BY DEF Cast!Deal
<1>3. \A s \in DOMAIN got : got[s] # {}
  <2> SUFFICES ASSUME NEW s \in 1..n PROVE got[s] # {}  BY <1>2, Zenon
  <2> HIDE DEF each, got
  <2>1. 0 \in 0..(each - 1)  BY <1>1
  <2>2. 1 + (((s - 1) * each + 0) % c) \in got[s]
    <3>1. got[s] = {1 + (((s - 1) * each + k) % c) : k \in 0..(each - 1)}  BY <1>2, Zenon
    <3>2. QED  BY <2>1, <3>1, Zenon
  <2>3. QED  BY <2>2, Zenon
<1>4. \A x : {s \in DOMAIN got : x \in got[s]} = Meeting(c, n, x)  BY <1>2, Zenon DEF Meeting
<1>5. \A x \in 1..c : q \in Nat /\ q > 0 /\ met(x) \in {q, q + 1}
  BY <1>4, MetOncePerRound, Zenon
<1> HIDE DEF q, met
<1>6. \A x, y \in 1..c : met(x) > 0 /\ met(x) <= met(y) + 1  BY <1>5
<1>7. QED  BY <1>3, <1>6, Zenon DEF met, DealtTo

-----------------------------------------------------------------------------
(* Who comes first: by one measure, then by another, then by place.  Such  *)
(* an order exists, and the first of it are ahead of everybody else.       *)
Ahead(S, a, b) == {p \in S \X S :
  \/ a[p[1]] > a[p[2]]
  \/ a[p[1]] = a[p[2]] /\ (b[p[1]] > b[p[2]] \/ (b[p[1]] = b[p[2]] /\ p[1] < p[2]))}
Ordered(S, a, b, p) ==
  /\ p \in [1..Cardinality(S) -> S]
  /\ \A i, j \in 1..Cardinality(S) : i < j => p[i] # p[j] /\ <<p[i], p[j]>> \in Ahead(S, a, b)
Measured(S, a, b) ==
  IsFiniteSet(S) /\ S \subseteq Nat /\ \A x \in S : a[x] \in Nat /\ b[x] \in Nat
LEMMA AheadOrders ==
  ASSUME NEW S, NEW a, NEW b, Measured(S, a, b)
  PROVE  /\ \E p : Ordered(S, a, b, p)
         /\ \A x, y \in S : <<x, y>> \in Ahead(S, a, b) => <<y, x>> \notin Ahead(S, a, b)
<1> DEFINE R == Ahead(S, a, b)
<1>1. \A x, y \in S : <<x, y>> \in R <=>
        \/ a[x] > a[y]
        \/ a[x] = a[y] /\ (b[x] > b[y] \/ (b[x] = b[y] /\ x < y))
  BY DEF Ahead
<1>2. \A x \in S : x \in Nat /\ a[x] \in Nat /\ b[x] \in Nat  BY DEF Measured
<1> HIDE DEF R
<1>3. \A x \in S : <<x, x>> \notin R  BY <1>1, <1>2
<1>4. \A x, y \in S : x # y => <<x, y>> \in R \/ <<y, x>> \in R  BY <1>1, <1>2
<1>5. \A x, y, z \in S : <<x, y>> \in R /\ <<y, z>> \in R => <<x, z>> \in R
  <2> SUFFICES ASSUME NEW x \in S, NEW y \in S, NEW z \in S, <<x, y>> \in R, <<y, z>> \in R
               PROVE  <<x, z>> \in R
    BY Zenon
  <2>1. a[x] > a[y] \/ (a[x] = a[y] /\ (b[x] > b[y] \/ (b[x] = b[y] /\ x < y)))  BY <1>1
  <2>2. a[y] > a[z] \/ (a[y] = a[z] /\ (b[y] > b[z] \/ (b[y] = b[z] /\ y < z)))  BY <1>1
  <2>3. a[x] > a[z] \/ (a[x] = a[z] /\ (b[x] > b[z] \/ (b[x] = b[z] /\ x < z)))
    BY <1>2, <2>1, <2>2
  <2>4. QED  BY <1>1, <2>3
<1>6. \E p \in [1..Cardinality(S) -> S] : \A i, j \in 1..Cardinality(S) :
        i < j => p[i] # p[j] /\ <<p[i], p[j]>> \in R
  <2>1. IsFiniteSet(S)  BY DEF Measured
  <2>2. QED  BY <1>3, <1>4, <1>5, <2>1, OrdersExist
<1>7. \E p : Ordered(S, a, b, p)  BY <1>6, Zenon DEF Ordered, R
<1>8. \A x, y \in S : <<x, y>> \in R => <<y, x>> \notin R  BY <1>3, <1>5
<1>9. QED  BY <1>7, <1>8 DEF R

FirstOf(p, K) == {p[k] : k \in 1..K}
Some(S, a) == {x \in S : a[x] > 0}
LEMMA FirstAreAhead ==
  ASSUME NEW S, NEW a, NEW b, Measured(S, a, b), NEW p, Ordered(S, a, b, p),
         NEW K \in Nat, K <= Cardinality(S), NEW first, first = FirstOf(p, K)
  PROVE  /\ first \subseteq S /\ IsFiniteSet(first) /\ Cardinality(first) = K
         /\ \A x \in S, y \in first : <<x, y>> \in Ahead(S, a, b) => x \in first
         /\ K <= Cardinality(Some(S, a)) => \A y \in first : a[y] > 0
<1> USE DEF FirstOf, Some
<1> DEFINE N == Cardinality(S)  R == Ahead(S, a, b)
<1>1. IsFiniteSet(S) /\ N \in Nat  BY FS_CardinalityType DEF Measured
<1>2. p \in [1..N -> S] /\ \A i, j \in 1..N : i < j => p[i] # p[j] /\ <<p[i], p[j]>> \in R
  BY DEF Ordered
<1>3. 1..K \subseteq 1..N  BY <1>1
<1>4. \A x, y \in S : <<x, y>> \in R => <<y, x>> \notin R  BY AheadOrders
<1>5. \A x, y \in S : a[x] > a[y] => <<x, y>> \in R  BY DEF Ahead
<1>6. \A x \in S : a[x] \in Nat  BY DEF Measured
<1> HIDE DEF N, R
<1>7. first \subseteq S  BY <1>2, <1>3
<1>8. \A i, j \in 1..N : p[i] = p[j] => i = j
  <2> SUFFICES ASSUME NEW i \in 1..N, NEW j \in 1..N, p[i] = p[j], i # j PROVE FALSE  OBVIOUS
  <2>1. i < j \/ j < i  BY <1>1
  <2>2. QED  BY <1>2, <2>1
<1>9. IsFiniteSet(first) /\ Cardinality(first) = K
  <2> DEFINE f == [k \in 1..K |-> p[k]]
  <2>1. f \in Bijection(1..K, first)
    <3>1. f \in [1..K -> first]  OBVIOUS
    <3>2. \A i, j \in 1..K : f[i] = f[j] => i = j  BY <1>3, <1>8
    <3>3. \A y \in first : \E k \in 1..K : f[k] = y  OBVIOUS
    <3> HIDE DEF f
    <3>4. QED  BY <3>1, <3>2, <3>3 DEF Bijection, Injection, Surjection, IsInjective
  <2> HIDE DEF f
  <2>2. ExistsBijection(1..K, first)  BY <2>1 DEF ExistsBijection
  <2>3. IsFiniteSet(1..K) /\ Cardinality(1..K) = K
    <3>1. 1 \in Int /\ K \in Int  OBVIOUS
    <3>2. IsFiniteSet(1..K) /\ Cardinality(1..K) = IF 1 > K THEN 0 ELSE K - 1 + 1
      BY <3>1, FS_Interval, Zenon
    <3>3. QED  BY <3>2
  <2>4. QED  BY <2>2, <2>3, FS_Bijection
<1>10. \A x \in S : \E i \in 1..N : p[i] = x
  <2>1. p \in [1..Cardinality(S) -> S]
        /\ \A i, j \in 1..Cardinality(S) : i < j => p[i] # p[j]
    BY <1>2 DEF N
  <2>2. QED  BY <1>1, <2>1, OrderIsOnto DEF N
<1>11. ASSUME NEW x \in S, NEW y \in first, <<x, y>> \in R PROVE x \in first
  <2>1. PICK k \in 1..K : y = p[k]  OBVIOUS
  <2>2. PICK i \in 1..N : p[i] = x  BY <1>10
  <2>3. ~(k < i)  BY <1>2, <1>3, <1>4, <1>7, <1>11, <2>1, <2>2
  <2>4. i \in 1..K  BY <1>1, <2>1, <2>2, <2>3
  <2>5. QED  BY <2>2, <2>4
<1>12. ASSUME K <= Cardinality(Some(S, a)), NEW y \in first PROVE a[y] > 0
  <2> DEFINE L == {x \in S : a[x] > 0}
  <2> SUFFICES ASSUME ~(a[y] > 0) PROVE FALSE  OBVIOUS
  <2>1. y \in S /\ a[y] = 0 /\ y \notin L  BY <1>6, <1>7
  <2>2. L \subseteq first \ {y}  BY <1>5, <1>11, <2>1
  <2>3. K <= Cardinality(L)  BY <1>12
  <2> HIDE DEF L
  <2>4. IsFiniteSet(first \ {y}) /\ Cardinality(first \ {y}) = K - 1
    <3>1. /\ IsFiniteSet(first \ {y})
          /\ Cardinality(first \ {y}) = IF y \in first THEN Cardinality(first) - 1 ELSE Cardinality(first)
      BY <1>9, FS_RemoveElement, Zenon
    <3>2. y \in first  OBVIOUS
    <3>3. QED  BY <1>9, <3>1, <3>2
  <2>5. IsFiniteSet(L) /\ Cardinality(L) <= K - 1  BY <2>2, <2>4, FS_Subset
  <2>6. Cardinality(L) \in Nat  BY <2>5, FS_CardinalityType
  <2>7. QED  BY <2>3, <2>5, <2>6
<1>13. QED  BY <1>7, <1>9, <1>11, <1>12 DEF R

(* The quotas: floors and remainders, and what the remainders leave over   *)
(* is no more than there are archetypes with one.                          *)
LEMMA SeatsLeft ==
  ASSUME NEW whole \in Nat, whole > 0, NEW n \in Nat, NEW tf \in Nat, NEW tr \in Nat, NEW l \in Nat,
         whole * n = (whole * tf) + tr, tr <= whole * l
  PROVE  n - tf \in Nat /\ n - tf <= l
<1> DEFINE p == whole * n  q == whole * tf
<1>1. p \in Nat /\ q \in Nat  OBVIOUS
<1>2. ~(n < tf)
  <2> SUFFICES ASSUME n < tf PROVE FALSE  OBVIOUS
  <2>1. p + whole <= q  BY ProductsOrder
  <2>2. p = q + tr  OBVIOUS
  <2> HIDE DEF p, q
  <2>3. QED  BY <1>1, <2>1, <2>2
<1>3. ~(n > tf + l)
  <2> SUFFICES ASSUME n > tf + l PROVE FALSE  OBVIOUS
  <2> DEFINE m == tf + l  u == whole * m  v == whole * l
  <2>1. m \in Nat /\ u \in Nat /\ v \in Nat /\ m < n  OBVIOUS
  <2>2. u = q + v  OBVIOUS
  <2>3. u + whole <= p
    <3> HIDE DEF m
    <3>1. QED  BY <2>1, ProductsOrder
  <2>4. p = q + tr /\ tr <= v  OBVIOUS
  <2> HIDE DEF p, q, u, v, m
  <2>5. QED  BY <1>1, <2>1, <2>2, <2>3, <2>4
<1>4. QED  BY <1>2, <1>3

(* Quotas of weights: floor and rest, over a whole.                         *)
Quotas(D, wt, n, whole, floor, rest) ==
  /\ IsFiniteSet(D) /\ wt \in [D -> Nat] /\ whole = Cast!Total(wt) /\ whole \in Nat /\ whole > 0
  /\ floor = [i \in D |-> (wt[i] * n) \div whole]
  /\ rest = [i \in D |-> (wt[i] * n) % whole]
LEMMA QuotasLeave ==
  ASSUME NEW D, NEW wt, NEW n \in Nat, NEW whole, NEW floor, NEW rest,
         Quotas(D, wt, n, whole, floor, rest)
  PROVE  /\ floor \in [D -> Nat] /\ rest \in [D -> Nat]
         /\ Cast!Total(floor) \in Nat /\ n - Cast!Total(floor) \in Nat
         /\ n - Cast!Total(floor) <= Cardinality(Some(D, rest))
<1> USE DEF Quotas
<1> DEFINE L == {i \in D : rest[i] > 0}
           quota == [i \in D |-> wt[i] * n]
           base == [i \in D |-> floor[i] * whole]
           cap == [i \in D |-> IF i \in L THEN whole ELSE 0]
           zero == [i \in D |-> 0]
<1>1. \A i \in D : /\ quota[i] \in Nat /\ quota[i] = wt[i] * n
                   /\ floor[i] = quota[i] \div whole /\ rest[i] = quota[i] % whole
  BY DEF Quotas
<1>2. \A i \in D : /\ floor[i] \in Nat /\ rest[i] \in 0..(whole - 1)
                   /\ quota[i] = (whole * floor[i]) + rest[i]
  <2> HIDE DEF quota
  <2> SUFFICES ASSUME NEW i \in D
               PROVE  /\ floor[i] \in Nat /\ rest[i] \in 0..(whole - 1)
                      /\ quota[i] = (whole * floor[i]) + rest[i]
    BY Zenon
  <2> DEFINE a == quota[i]
  <2>1. a \in Nat /\ floor[i] = a \div whole /\ rest[i] = a % whole  BY <1>1, Zenon
  <2> HIDE DEF a
  <2>2. a \div whole \in Nat /\ a % whole \in 0..(whole - 1) /\ a = (whole * (a \div whole)) + (a % whole)
    BY <2>1, Divides, Zenon
  <2>3. QED  BY <2>1, <2>2, Zenon DEF a
<1>3. floor \in [D -> Nat] /\ rest \in [D -> Nat]
  <2>1. floor = [i \in D |-> floor[i]] /\ rest = [i \in D |-> rest[i]]  OBVIOUS
  <2>2. QED  BY <1>2, <2>1
<1>4. \A i \in D : base[i] = floor[i] * whole /\ base[i] \in Nat /\ whole * floor[i] = base[i]
  BY <1>2
<1>5. /\ quota \in [D -> Int] /\ base \in [D -> Int] /\ cap \in [D -> Int] /\ zero \in [D -> Int]
      /\ floor \in [D -> Int] /\ rest \in [D -> Int] /\ wt \in [D -> Int]
  <2>1. quota \in [D -> Int] /\ base \in [D -> Int]  BY <1>1, <1>4
  <2>2. QED  BY <1>3, <2>1
<1>6. \A i \in D : quota[i] = wt[i] * n  OBVIOUS
<1>7. \A i \in D : cap[i] = (IF i \in L THEN whole ELSE 0) /\ zero[i] = 0  OBVIOUS
<1>8. \A i \in D : (i \in L <=> rest[i] > 0)  OBVIOUS
<1>9. L \in SUBSET D  OBVIOUS
<1> HIDE DEF quota, base, cap, zero, L
<1>10. Cast!Total(quota) = whole * n
  <2>1. n \in Int /\ IsFiniteSet(D) /\ whole = Cast!Total(wt)  OBVIOUS
  <2> HIDE DEF Quotas
  <2>2. Cast!Total(quota) = Cast!Total(wt) * n  BY <1>5, <1>6, <2>1, TotalScales
  <2>3. QED  BY <2>1, <2>2, Zenon
<1>11. Cast!Total(base) = Cast!Total(floor) * whole  BY <1>4, <1>5, TotalScales
<1>12. Cast!Total(quota) = Cast!Total(base) + Cast!Total(rest)
  <2>1. Added(D, base, rest, quota)  BY <1>2, <1>4, <1>5 DEF Added
  <2>2. QED  BY <2>1, TotalAdds
<1>13. Cast!Total(cap) = Cardinality(L) * whole
  <2>1. Uniform(D, L, whole, cap)  BY <1>5, <1>7, <1>9 DEF Uniform
  <2>2. QED  BY <2>1, TotalUniform
<1>14. Cast!Total(zero) = 0
  <2>1. Uniform(D, {}, 0, zero)  BY <1>5, <1>7 DEF Uniform
  <2>2. Cast!Total(zero) = Cardinality({}) * 0  BY <2>1, TotalUniform
  <2>3. Cardinality({}) = 0  BY FS_EmptySet
  <2>4. QED  BY <2>2, <2>3
<1>15. Cast!Total(floor) \in Nat
  <2>1. \A i \in D : zero[i] <= floor[i]  BY <1>2, <1>7
  <2>2. Cast!Total(floor) \in Int /\ Cast!Total(zero) <= Cast!Total(floor)
    BY <1>5, <2>1, TotalOrders
  <2>3. QED  BY <1>14, <2>2
<1>16. Cast!Total(rest) \in Nat /\ Cast!Total(rest) <= Cast!Total(cap)
  <2>1. \A i \in D : zero[i] <= rest[i] /\ rest[i] <= cap[i]  BY <1>2, <1>7, <1>8
  <2>2. Cast!Total(rest) \in Int /\ Cast!Total(zero) <= Cast!Total(rest)
    BY <1>5, <2>1, TotalOrders
  <2>3. Cast!Total(rest) <= Cast!Total(cap)  BY <1>5, <2>1, TotalOrders
  <2>4. QED  BY <1>14, <2>2, <2>3
<1>17. Cardinality(L) \in Nat  BY <1>9, FS_Subset, FS_CardinalityType
<1> DEFINE tf == Cast!Total(floor)  tr == Cast!Total(rest)  l == Cardinality(L)
<1>18. whole * n = (whole * tf) + tr /\ tr <= whole * l
  <2>1. whole * n = (tf * whole) + tr /\ tr <= l * whole  BY <1>10, <1>11, <1>12, <1>13, <1>16
  <2>2. tf \in Nat /\ l \in Nat  BY <1>15, <1>17
  <2> HIDE DEF tf, tr, l
  <2>3. QED  BY <2>1, <2>2
<1>19. n - tf \in Nat /\ n - tf <= l
  <2>1. tf \in Nat /\ tr \in Nat /\ l \in Nat  BY <1>15, <1>16, <1>17
  <2> HIDE DEF tf, tr, l
  <2>2. QED  BY <1>18, <2>1, SeatsLeft
<1>20. QED  BY <1>3, <1>15, <1>19 DEF L, Some

(* The seats before anybody starves: the quotas' floors, and one more for  *)
(* those ahead in the order of the remainders.                             *)
Seats(D, wt, n, floor, rest, first, got) ==
  /\ \E p : Ordered(D, rest, wt, p) /\ first = {p[k] : k \in 1..(n - Cast!Total(floor))}
  /\ got = [i \in D |-> floor[i] + IF i \in first THEN 1 ELSE 0]
LEMMA SeatedByQuotas ==
  ASSUME NEW m \in Nat, m > 0, NEW w \in [1..m -> Nat], NEW n \in Nat
  PROVE  \E wt, whole, floor, rest, first :
           /\ wt = IF Cast!Positive(w) = {} THEN [i \in 1..m |-> 1] ELSE w
           /\ Quotas(1..m, wt, n, whole, floor, rest)
           /\ Seats(1..m, wt, n, floor, rest, first, Cast!Seated(w, n))
<1> DEFINE D == 1..m
           wt == IF Cast!Positive(w) = {} THEN [i \in DOMAIN w |-> 1] ELSE w
           whole == Cast!Total(wt)
           floor == [i \in DOMAIN w |-> (wt[i] * n) \div whole]
           rest == [i \in DOMAIN w |-> (wt[i] * n) % whole]
           Places(s) == \A i, j \in 1..Cast!Cardinality(DOMAIN w) : i < j =>
             /\ s[i] # s[j]
             /\ \/ rest[s[i]] > rest[s[j]]
                \/ rest[s[i]] = rest[s[j]]
                   /\ (wt[s[i]] > wt[s[j]] \/ (wt[s[i]] = wt[s[j]] /\ s[i] < s[j]))
           order == CHOOSE s \in [1..Cast!Cardinality(DOMAIN w) -> DOMAIN w] : Places(s)
           first == {order[k] : k \in 1..(n - Cast!Total(floor))}
           zero == [i \in D |-> 0]
<1>1. Cast!Seated(w, n) = [i \in DOMAIN w |-> floor[i] + IF i \in first THEN 1 ELSE 0]
  BY Zenon DEF Cast!Seated, Cast!Ranked
<1>2. DOMAIN w = D  OBVIOUS
<1>3. IsFiniteSet(D) /\ D \subseteq Nat
  <2>1. 1 \in Int /\ m \in Int  OBVIOUS
  <2>2. QED  BY <2>1, FS_Interval
<1>4. wt \in [D -> Nat] /\ wt = IF Cast!Positive(w) = {} THEN [i \in D |-> 1] ELSE w
  BY <1>2
<1>5. \E i \in D : wt[i] > 0
  <2>1. CASE Cast!Positive(w) = {}
    <3>1. 1 \in D  OBVIOUS
    <3>2. wt[1] = 1  BY <1>4, <2>1, <3>1
    <3>3. QED  BY <3>1, <3>2
  <2>2. CASE Cast!Positive(w) # {}
    <3>1. wt = w  BY <2>2
    <3>2. \E i \in DOMAIN w : w[i] > 0  BY <2>2 DEF Cast!Positive
    <3>3. QED  BY <1>2, <3>1, <3>2
  <2>3. QED  BY <2>1, <2>2
<1> HIDE DEF wt, D
<1>6. whole \in Nat /\ whole > 0
  <2>1. zero \in [D -> Int] /\ wt \in [D -> Int] /\ \A i \in D : zero[i] = 0 /\ zero[i] <= wt[i]
    BY <1>4
  <2> HIDE DEF zero
  <2>2. Cast!Total(zero) = 0
    <3>1. Uniform(D, {}, 0, zero)  BY <1>3, <2>1 DEF Uniform
    <3>2. Cast!Total(zero) = Cardinality({}) * 0  BY <3>1, TotalUniform
    <3>3. Cardinality({}) = 0  BY FS_EmptySet
    <3>4. QED  BY <3>2, <3>3
  <2>3. whole \in Int /\ \A i \in D : wt[i] - zero[i] <= whole - Cast!Total(zero)
    BY <1>3, <2>1, TotalOrders
  <2>4. QED
    <3>1. PICK i \in D : wt[i] > 0  BY <1>5
    <3>2. wt[i] \in Nat /\ zero[i] = 0 /\ wt[i] - zero[i] <= whole - 0  BY <1>4, <2>1, <2>2, <2>3
    <3>3. QED  BY <2>3, <3>1, <3>2
<1> HIDE DEF whole
<1>7. Quotas(D, wt, n, whole, floor, rest)
  BY <1>2, <1>3, <1>4, <1>6 DEF Quotas, whole
<1>8. rest \in [D -> Nat]  BY <1>7, QuotasLeave
<1> HIDE DEF floor, rest
<1>9. Ordered(D, rest, wt, order)
  <2>1. PICK p : Ordered(D, rest, wt, p)
    <3>1. Measured(D, rest, wt)  BY <1>3, <1>4, <1>8 DEF Measured
    <3>2. QED  BY <3>1, AheadOrders
  <2>2. Cast!Cardinality(DOMAIN w) = Cardinality(D)
    BY <1>2, Zenon DEF Cast!Cardinality, Cardinality
  <2>3. \A s : s \in [1..Cardinality(D) -> D] => (Ordered(D, rest, wt, s) <=> Places(s))
    <3> SUFFICES ASSUME NEW s \in [1..Cardinality(D) -> D]
                 PROVE  Ordered(D, rest, wt, s) <=> Places(s)
      BY Zenon
    <3>1. \A i, j \in 1..Cardinality(D) : <<s[i], s[j]>> \in Ahead(D, rest, wt) <=>
            \/ rest[s[i]] > rest[s[j]]
            \/ rest[s[i]] = rest[s[j]]
               /\ (wt[s[i]] > wt[s[j]] \/ (wt[s[i]] = wt[s[j]] /\ s[i] < s[j]))
      <4> SUFFICES ASSUME NEW i \in 1..Cardinality(D), NEW j \in 1..Cardinality(D)
                   PROVE  <<s[i], s[j]>> \in Ahead(D, rest, wt) <=>
                            \/ rest[s[i]] > rest[s[j]]
                            \/ rest[s[i]] = rest[s[j]]
                               /\ (wt[s[i]] > wt[s[j]] \/ (wt[s[i]] = wt[s[j]] /\ s[i] < s[j]))
        BY Zenon
      <4>1. s[i] \in D /\ s[j] \in D  OBVIOUS
      <4>2. QED  BY <4>1 DEF Ahead
    <3>2. QED  BY <2>2, <3>1, Zenon DEF Ordered
  <2>4. p \in [1..Cardinality(D) -> D]  BY <2>1 DEF Ordered
  <2>5. \E s \in [1..Cast!Cardinality(DOMAIN w) -> DOMAIN w] : Places(s)
    BY <1>2, <2>1, <2>2, <2>3, <2>4, Zenon
  <2> HIDE DEF Places
  <2>6. order \in [1..Cast!Cardinality(DOMAIN w) -> DOMAIN w] /\ Places(order)  BY <2>5, Zenon
  <2> HIDE DEF order
  <2>7. QED  BY <1>2, <2>2, <2>3, <2>6, Zenon
<1> HIDE DEF order
<1>10. Seats(D, wt, n, floor, rest, first, Cast!Seated(w, n))
  <2>1. first = {order[k] : k \in 1..(n - Cast!Total(floor))}  OBVIOUS
  <2> HIDE DEF first
  <2>2. Cast!Seated(w, n) = [i \in D |-> floor[i] + IF i \in first THEN 1 ELSE 0]
    BY <1>1, <1>2
  <2>3. \E p : Ordered(D, rest, wt, p) /\ first = {p[k] : k \in 1..(n - Cast!Total(floor))}
    BY <1>9, <2>1
  <2>4. QED  BY <2>2, <2>3 DEF Seats
<1> HIDE DEF first
<1>11. QED  BY <1>4, <1>7, <1>10, Zenon DEF D

(* What holds of the seats while those in Q still have none.               *)
Seating(w, n, Q, c) ==
  LET some == Cast!Positive(w) IN
  /\ c \in [DOMAIN w -> Nat] /\ Cast!Total(c) = n
  /\ \A i, j \in DOMAIN w : w[i] > w[j] => c[i] + 1 >= c[j]
  /\ Q \in SUBSET DOMAIN w /\ \A i \in Q : c[i] = 0
  /\ some # {} => Q \subseteq some /\ \A i \in DOMAIN w : w[i] = 0 => c[i] = 0
  /\ n >= Cardinality(some) => \A i \in some \ Q : c[i] > 0
Starved(w, c) ==
  {i \in (IF Cast!Positive(w) = {} THEN DOMAIN w ELSE Cast!Positive(w)) : c[i] = 0}

(* More weight, no fewer seats: a larger quota has a larger floor or comes *)
(* first in the order of the remainders.                                   *)
LEMMA HeavierIsAhead ==
  ASSUME NEW D, D \subseteq Nat, NEW wt, NEW n \in Nat, NEW whole, NEW floor, NEW rest,
         Quotas(D, wt, n, whole, floor, rest), NEW i \in D, NEW j \in D, wt[i] > wt[j]
  PROVE  \/ floor[i] > floor[j]
         \/ floor[i] = floor[j] /\ <<i, j>> \in Ahead(D, rest, wt)
<1> USE DEF Quotas
<1> DEFINE a == wt[i] * n  b == wt[j] * n
<1>1. a \in Nat /\ b \in Nat /\ b <= a
  <2>1. wt[i] \in Nat /\ wt[j] \in Nat /\ wt[j] <= wt[i]  OBVIOUS
  <2>2. wt[j] * n \in Nat /\ wt[i] * n \in Nat /\ wt[j] * n <= wt[i] * n  BY <2>1, TimesGrow
  <2>3. QED  BY <2>2
<1>2. floor[i] = a \div whole /\ rest[i] = a % whole /\ floor[j] = b \div whole /\ rest[j] = b % whole
  OBVIOUS
<1> HIDE DEF a, b
<1> DEFINE p == floor[i]  q == floor[j]  r == rest[i]  s == rest[j]
<1>3. p \in Nat /\ r \in 0..(whole - 1) /\ a = (whole * p) + r
  <2>1. whole \in Nat /\ whole > 0  OBVIOUS
  <2>2. a \div whole \in Nat /\ a % whole \in 0..(whole - 1) /\ a = (whole * (a \div whole)) + (a % whole)
    BY <1>1, <2>1, Divides, Zenon
  <2>3. QED  BY <1>2, <2>2, Zenon
<1>4. q \in Nat /\ s \in 0..(whole - 1) /\ b = (whole * q) + s
  <2>1. whole \in Nat /\ whole > 0  OBVIOUS
  <2>2. b \div whole \in Nat /\ b % whole \in 0..(whole - 1) /\ b = (whole * (b \div whole)) + (b % whole)
    BY <1>1, <2>1, Divides, Zenon
  <2>3. QED  BY <1>2, <2>2, Zenon
<1>5. <<i, j>> \in Ahead(D, rest, wt) <=> r > s \/ (r = s /\ (wt[i] > wt[j] \/ (wt[i] = wt[j] /\ i < j)))
  BY DEF Ahead
<1>6. whole \in Nat  OBVIOUS
<1> HIDE DEF p, q, r, s, Quotas
<1>7. ~(p < q)
  <2> SUFFICES ASSUME p < q PROVE FALSE  OBVIOUS
  <2> DEFINE u == whole * p  v == whole * q
  <2>1. u \in Nat /\ v \in Nat /\ u + whole <= v  BY <1>3, <1>4, <1>6, ProductsOrder
  <2>2. a = u + r /\ b = v + s  BY <1>3, <1>4
  <2> HIDE DEF u, v
  <2>3. QED  BY <1>1, <1>3, <1>4, <1>6, <2>1, <2>2
<1>8. p = q => r >= s
  <2> SUFFICES ASSUME p = q PROVE r >= s  OBVIOUS
  <2> DEFINE u == whole * p
  <2>1. u \in Nat /\ a = u + r /\ b = u + s  BY <1>3, <1>4, <1>6
  <2> HIDE DEF u
  <2>2. QED  BY <1>1, <1>3, <1>4, <2>1
<1>9. p > q \/ (p = q /\ (r > s \/ r = s))  BY <1>3, <1>4, <1>7, <1>8
<1>10. QED  BY <1>5, <1>9 DEF p, q

LEMMA SeatedBegins ==
  ASSUME NEW m \in Nat, m > 0, NEW w \in [1..m -> Nat], NEW n \in Nat
  PROVE  Seating(w, n, Starved(w, Cast!Seated(w, n)), Cast!Seated(w, n))
<1> DEFINE D == 1..m  some == Cast!Positive(w)  c == Cast!Seated(w, n)
<1>1. PICK wt, whole, floor, rest, first :
        /\ wt = IF some = {} THEN [i \in D |-> 1] ELSE w
        /\ Quotas(D, wt, n, whole, floor, rest)
        /\ Seats(D, wt, n, floor, rest, first, c)
  BY SeatedByQuotas, Zenon
<1>2. DOMAIN w = D /\ some = {i \in D : w[i] > 0} /\ \A i \in D : w[i] \in Nat
  BY DEF Cast!Positive
<1>3. IsFiniteSet(D) /\ D \subseteq Nat
  <2>1. 1 \in Int /\ m \in Int  OBVIOUS
  <2>2. QED  BY <2>1, FS_Interval
<1> HIDE DEF D, some, c
<1> DEFINE K == n - Cast!Total(floor)
<1>4. PICK p : Ordered(D, rest, wt, p) /\ first = FirstOf(p, K)  BY <1>1 DEF Seats, FirstOf
<1>5. /\ floor \in [D -> Nat] /\ rest \in [D -> Nat] /\ Cast!Total(floor) \in Nat
      /\ K \in Nat /\ K <= Cardinality(Some(D, rest))
  <2>1. Quotas(D, wt, n, whole, floor, rest)  BY <1>1
  <2>2. /\ floor \in [D -> Nat] /\ rest \in [D -> Nat] /\ Cast!Total(floor) \in Nat
        /\ n - Cast!Total(floor) \in Nat
        /\ n - Cast!Total(floor) <= Cardinality(Some(D, rest))
    BY <2>1, QuotasLeave, Zenon
  <2>3. QED  BY <2>2
<1>6. c = [i \in D |-> floor[i] + IF i \in first THEN 1 ELSE 0]  BY <1>1 DEF Seats
<1>7. wt \in [D -> Nat] /\ Measured(D, rest, wt)
  BY <1>1, <1>3, <1>5 DEF Quotas, Measured
<1> HIDE DEF K
<1>8. K <= Cardinality(D)
  <2> DEFINE L == Some(D, rest)
  <2>1. L \in SUBSET D  BY DEF Some
  <2> HIDE DEF L
  <2>2. Cardinality(L) <= Cardinality(D) /\ Cardinality(L) \in Nat /\ Cardinality(D) \in Nat
    BY <1>3, <2>1, FS_Subset, FS_CardinalityType
  <2>3. QED  BY <1>5, <2>2 DEF L
<1>9. /\ first \subseteq D /\ Cardinality(first) = K
      /\ \A x \in D, y \in first : <<x, y>> \in Ahead(D, rest, wt) => x \in first
      /\ \A y \in first : rest[y] > 0
  <2>1. K \in Nat /\ K <= Cardinality(D)  BY <1>5, <1>8
  <2>2. first \subseteq D /\ Cardinality(first) = K
        /\ (\A x \in D, y \in first : <<x, y>> \in Ahead(D, rest, wt) => x \in first)
        /\ (K <= Cardinality(Some(D, rest)) => \A y \in first : rest[y] > 0)
    <3>1. Measured(D, rest, wt)  BY <1>7
    <3>2. Ordered(D, rest, wt, p) /\ first = FirstOf(p, K)  BY <1>4
    <3>3. /\ FirstOf(p, K) \subseteq D /\ IsFiniteSet(FirstOf(p, K)) /\ Cardinality(FirstOf(p, K)) = K
          /\ \A x \in D, y \in FirstOf(p, K) : <<x, y>> \in Ahead(D, rest, wt) => x \in FirstOf(p, K)
          /\ K <= Cardinality(Some(D, rest)) => \A y \in FirstOf(p, K) : rest[y] > 0
      BY <2>1, <3>1, <3>2, FirstAreAhead, Zenon
    <3>4. QED  BY <3>2, <3>3
  <2>3. QED  BY <1>5, <2>2, Zenon
<1>10. c \in [D -> Nat]
  <2>1. \A i \in D : floor[i] + (IF i \in first THEN 1 ELSE 0) \in Nat  BY <1>5
  <2>2. QED  BY <1>6, <2>1
<1>11. Cast!Total(c) = n
  <2> DEFINE e == [i \in D |-> IF i \in first THEN 1 ELSE 0]
  <2>1. e \in [D -> Int] /\ \A i \in D : e[i] = IF i \in first THEN 1 ELSE 0  OBVIOUS
  <2>2. \A i \in D : c[i] = floor[i] + e[i]  BY <1>6
  <2> HIDE DEF e
  <2>3. Added(D, floor, e, c)  BY <1>3, <1>5, <1>10, <2>1, <2>2 DEF Added
  <2>4. Cast!Total(e) = K
    <3>1. first \in SUBSET D  BY <1>9
    <3>2. Cast!Total(e) = Cardinality(first)  BY <1>3, <2>1, <3>1, TotalCounts
    <3>3. QED  BY <1>9, <3>2
  <2>5. Cast!Total(c) = Cast!Total(floor) + Cast!Total(e)  BY <2>3, TotalAdds
  <2>6. QED  BY <1>5, <2>4, <2>5 DEF K
<1>12. ASSUME NEW i \in D, NEW j \in D, w[i] > w[j] PROVE c[i] + 1 >= c[j]
  <2>1. wt = w
    <3>1. i \in some  BY <1>2, <1>12
    <3>2. QED  BY <1>1, <3>1
  <2>2. \/ floor[i] > floor[j]
        \/ floor[i] = floor[j] /\ <<i, j>> \in Ahead(D, rest, wt)
    BY <1>1, <1>3, <1>12, <2>1, HeavierIsAhead
  <2>3. /\ c[i] = floor[i] + (IF i \in first THEN 1 ELSE 0)
        /\ c[j] = floor[j] + (IF j \in first THEN 1 ELSE 0)
    BY <1>6
  <2>4. floor[i] \in Nat /\ floor[j] \in Nat  BY <1>5
  <2>5. <<i, j>> \in Ahead(D, rest, wt) /\ j \in first => i \in first  BY <1>9, Zenon
  <2> DEFINE x == floor[i]  y == floor[j]  ahead == <<i, j>> \in Ahead(D, rest, wt)
  <2>6. /\ x > y \/ (x = y /\ ahead)
        /\ (ahead /\ j \in first) => i \in first
        /\ x \in Nat /\ y \in Nat
        /\ c[i] = x + (IF i \in first THEN 1 ELSE 0) /\ c[j] = y + (IF j \in first THEN 1 ELSE 0)
    BY <2>2, <2>3, <2>4, <2>5, Zenon
  <2> HIDE DEF x, y, ahead
  <2>7. CASE i \in first  BY <2>6, <2>7
  <2>8. CASE i \notin first  BY <2>6, <2>8
  <2>9. QED  BY <2>7, <2>8
<1>13. ASSUME some # {}, NEW i \in D, w[i] = 0 PROVE c[i] = 0
  <2>1. wt = w /\ wt[i] = 0  BY <1>1, <1>13
  <2>2. floor[i] = 0 /\ rest[i] = 0
    <3>1. whole \in Nat /\ whole > 0  BY <1>1 DEF Quotas
    <3>2. floor[i] = (0 * n) \div whole /\ rest[i] = (0 * n) % whole  BY <1>1, <2>1 DEF Quotas
    <3>3. 0 * n = 0  OBVIOUS
    <3>4. 0 = (whole * 0) + 0 /\ 0 < whole  BY <3>1
    <3>5. 0 \div whole = 0 /\ 0 % whole = 0  BY <3>1, <3>4, Quotient
    <3>6. QED  BY <3>2, <3>3, <3>5
  <2>3. i \notin first  BY <1>9, <2>2
  <2>4. QED  BY <1>6, <2>2, <2>3
<1> DEFINE Q == Starved(w, c)
<1>14. Q = {i \in (IF some = {} THEN D ELSE some) : c[i] = 0}  BY <1>2 DEF Starved, some
<1> HIDE DEF Q
<1>15. Q \in SUBSET D /\ (\A i \in Q : c[i] = 0) /\ (some # {} => Q \subseteq some)
  BY <1>2, <1>14
<1>16. \A i \in some \ Q : c[i] > 0  BY <1>2, <1>10, <1>14
<1>17. QED
  BY <1>2, <1>10, <1>11, <1>12, <1>13, <1>15, <1>16, Zenon DEF Seating, some, c, Q

(* A seat is taken from the fullest, and there is one that can spare it    *)
(* when there are seats for all.                                           *)
Donors(c) == {j \in DOMAIN c : c[j] > 1}
Fullest(c, d) == \A k \in Donors(c) \ {d} : c[d] > c[k] \/ (c[d] = c[k] /\ d < k)
Moved(c, d, i) == [c EXCEPT ![d] = @ - 1, ![i] = 1]
LEMMA FullestExists ==
  ASSUME NEW m \in Nat, NEW c \in [1..m -> Nat], Donors(c) # {}
  PROVE  \E d \in Donors(c) : Fullest(c, d)
<1> DEFINE S == Donors(c)  N == Cardinality(S)
<1>1. S \in SUBSET (1..m) /\ S # {}  BY DEF Donors
<1>2. IsFiniteSet(S) /\ N \in Nat /\ Measured(S, c, c)
  <2>1. 1 \in Int /\ m \in Int  OBVIOUS
  <2>2. IsFiniteSet(1..m)  BY <2>1, FS_Interval
  <2>3. IsFiniteSet(S)  BY <1>1, <2>2, FS_Subset
  <2> HIDE DEF S
  <2>4. \A x \in S : x \in Nat /\ c[x] \in Nat  BY <1>1
  <2>5. Measured(S, c, c)  BY <2>3, <2>4 DEF Measured
  <2>6. QED  BY <2>3, <2>5, FS_CardinalityType
<1> HIDE DEF S
<1>3. PICK p : Ordered(S, c, c, p)  BY <1>2, AheadOrders
<1> HIDE DEF N
<1>4. /\ p \in [1..N -> S]
      /\ \A i, j \in 1..N : i < j => p[i] # p[j] /\ <<p[i], p[j]>> \in Ahead(S, c, c)
  BY <1>3 DEF Ordered, N
<1>5. \A x \in S : \E i \in 1..N : p[i] = x
  <2>1. /\ p \in [1..Cardinality(S) -> S]
        /\ \A i, j \in 1..Cardinality(S) : i < j => p[i] # p[j]
    BY <1>4 DEF N
  <2>2. QED  BY <1>2, <2>1, OrderIsOnto DEF N
<1>6. 1 \in 1..N
  <2>1. PICK x : x \in S  BY <1>1
  <2>2. PICK i \in 1..N : p[i] = x  BY <1>5, <2>1
  <2>3. QED  BY <1>2
<1> DEFINE d == p[1]
<1>7. d \in S  BY <1>4, <1>6
<1>8. ASSUME NEW k \in S \ {d} PROVE c[d] > c[k] \/ (c[d] = c[k] /\ d < k)
  <2>1. PICK i \in 1..N : p[i] = k  BY <1>5
  <2>2. 1 < i  BY <1>8, <2>1
  <2>3. <<d, k>> \in Ahead(S, c, c)  BY <1>4, <1>6, <2>1, <2>2
  <2>4. k \in S /\ c[d] \in Nat /\ c[k] \in Nat /\ d \in Nat /\ k \in Nat
    <3>1. d \in 1..m /\ k \in 1..m  BY <1>1, <1>7
    <3> HIDE DEF d
    <3>2. QED  BY <1>8, <3>1
  <2> HIDE DEF d
  <2>5. QED  BY <2>3, <2>4 DEF Ahead
<1> HIDE DEF d
<1>9. QED  BY <1>7, <1>8, Zenon DEF Fullest, S

LEMMA TakeSeatIs ==
  ASSUME NEW m \in Nat, NEW c \in [1..m -> Nat], NEW i \in 1..m
  PROVE  \/ Donors(c) = {} /\ Cast!TakeSeat(c, i) = c
         \/ \E d \in Donors(c) :
              Fullest(c, d) /\ Cast!TakeSeat(c, i) = Moved(c, d, i)
<1> DEFINE donors == {j \in DOMAIN c : c[j] > 1}
           Full(j) == \A k \in donors \ {j} : c[j] > c[k] \/ (c[j] = c[k] /\ j < k)
           donor == CHOOSE j \in donors : Full(j)
<1>1. donors = Donors(c) /\ \A j : Full(j) <=> Fullest(c, j)  BY Zenon DEF Donors, Fullest
<1>2. Cast!TakeSeat(c, i) = IF donors = {} THEN c ELSE [c EXCEPT ![donor] = @ - 1, ![i] = 1]
  BY DEF Cast!TakeSeat
<1> HIDE DEF Full, donors
<1>3. donors # {} => donor \in donors /\ Full(donor)
  <2>1. donors # {} => \E j \in donors : Full(j)  BY <1>1, FullestExists
  <2>2. QED  BY <2>1, Zenon
<1> HIDE DEF donor
<1>4. CASE donors = {}
  <2>1. Cast!TakeSeat(c, i) = c  BY <1>2, <1>4, Zenon
  <2>2. QED  BY <1>1, <1>4, <2>1, Zenon
<1>5. CASE donors # {}
  <2>1. Cast!TakeSeat(c, i) = [c EXCEPT ![donor] = @ - 1, ![i] = 1]  BY <1>2, <1>5, Zenon
  <2>2. QED  BY <1>1, <1>3, <1>5, <2>1, Zenon DEF Moved
<1>6. QED  BY <1>4, <1>5

(* A set of numbers up to m is finite, and so is every part of it.         *)
LEMMA NumbersAreFinite ==
  ASSUME NEW m \in Nat, NEW S \in SUBSET (1..m)
  PROVE  IsFiniteSet(1..m) /\ IsFiniteSet(S) /\ Cardinality(S) \in Nat
<1>1. 1 \in Int /\ m \in Int  OBVIOUS
<1>2. IsFiniteSet(1..m)  BY <1>1, FS_Interval
<1>3. QED  BY <1>2, FS_Subset, FS_CardinalityType

LEMMA NobodyCanSpare ==
  ASSUME NEW m \in Nat, NEW w \in [1..m -> Nat], NEW n \in Nat, NEW Q, NEW c, Seating(w, n, Q, c),
         NEW i \in Q, Donors(c) = {}
  PROVE  Cast!Positive(w) # {} => n < Cardinality(Cast!Positive(w))
<1> DEFINE D == 1..m  some == Cast!Positive(w)
           e == [x \in D |-> IF x \in some \ {i} THEN 1 ELSE 0]
<1> SUFFICES ASSUME some # {} PROVE n < Cardinality(some)  OBVIOUS
<1>1. /\ c \in [D -> Nat] /\ Cast!Total(c) = n /\ i \in some /\ c[i] = 0
      /\ \A x \in D : w[x] = 0 => c[x] = 0
  BY DEF Seating
<1>2. some \in SUBSET D /\ \A x \in D : x \in some <=> w[x] > 0  BY DEF Cast!Positive
<1>3. \A x \in D : c[x] <= 1
  <2>1. \A x \in D : c[x] \in Nat /\ ~(c[x] > 1)  BY <1>1 DEF Donors
  <2>2. QED  BY <2>1
<1>4. e \in [D -> Int] /\ \A x \in D : e[x] = IF x \in some \ {i} THEN 1 ELSE 0  OBVIOUS
<1>5. \A x \in D : w[x] \in Nat  OBVIOUS
<1>6. IsFiniteSet(D) /\ IsFiniteSet(some) /\ Cardinality(some) \in Nat  BY <1>2, NumbersAreFinite
<1> HIDE DEF D, some, e
<1>7. ASSUME NEW x \in D PROVE c[x] <= e[x]
  <2>1. c[x] \in Nat /\ w[x] \in Nat  BY <1>1, <1>5
  <2>2. CASE x \in some \ {i}  BY <1>3, <1>4, <2>2
  <2>3. CASE x = i  BY <1>1, <1>4, <2>3
  <2>4. CASE x \notin some
    <3>1. w[x] = 0  BY <1>2, <2>1, <2>4
    <3>2. QED  BY <1>1, <1>4, <2>4, <3>1
  <2>5. QED  BY <2>2, <2>3, <2>4
<1>8. Cast!Total(c) <= Cast!Total(e)
  <2>1. c \in [D -> Int]  BY <1>1
  <2>2. QED  BY <1>4, <1>6, <1>7, <2>1, TotalOrders
<1>9. Cast!Total(e) = Cardinality(some \ {i})
  <2>1. some \ {i} \in SUBSET D  BY <1>2
  <2>2. QED  BY <1>4, <1>6, <2>1, TotalCounts
<1>10. Cardinality(some \ {i}) = Cardinality(some) - 1
  <2>1. Cardinality(some \ {i}) = IF i \in some THEN Cardinality(some) - 1 ELSE Cardinality(some)
    BY <1>6, FS_RemoveElement, Zenon
  <2>2. QED  BY <1>1, <2>1
<1>11. QED  BY <1>1, <1>6, <1>8, <1>9, <1>10 DEF some

MovesOne(c, d, i, g) ==
  \A x \in DOMAIN c : g[x] = IF x = i THEN 1 ELSE IF x = d THEN c[d] - 1 ELSE c[x]
LEMMA SeatMoves ==
  ASSUME NEW m \in Nat, NEW c \in [1..m -> Nat], NEW i \in 1..m, NEW d \in 1..m, c[i] = 0, c[d] > 1
  PROVE  LET g == Moved(c, d, i) IN
         g \in [1..m -> Nat] /\ Cast!Total(g) = Cast!Total(c) /\ MovesOne(c, d, i, g)
<1> DEFINE D == 1..m  g == Moved(c, d, i)
           up == [x \in D |-> IF x \in {i} THEN 1 ELSE 0]
           down == [x \in D |-> IF x \in {d} THEN 0 - 1 ELSE 0]
           both == [x \in D |-> up[x] + down[x]]
<1>1. d # i /\ c[d] - 1 \in Nat  OBVIOUS
<1>2. g \in [D -> Nat]  BY <1>1 DEF Moved
<1>3. \A x \in D : g[x] = IF x = i THEN 1 ELSE IF x = d THEN c[d] - 1 ELSE c[x]  BY <1>1 DEF Moved
<1>4. /\ up \in [D -> Int] /\ \A x \in D : up[x] = IF x \in {i} THEN 1 ELSE 0
      /\ down \in [D -> Int] /\ \A x \in D : down[x] = IF x \in {d} THEN 0 - 1 ELSE 0
  OBVIOUS
<1> HIDE DEF up, down, g
<1>5. both \in [D -> Int] /\ \A x \in D : both[x] = up[x] + down[x]  BY <1>4
<1>6. i \in D /\ d \in D /\ c \in [D -> Int] /\ g \in [D -> Int] /\ \A x \in D : c[x] \in Nat  BY <1>2
<1>7. IsFiniteSet(D)  BY NumbersAreFinite
<1> HIDE DEF both, D
<1>8. \A x \in D : g[x] = c[x] + both[x]
  <2> SUFFICES ASSUME NEW x \in D PROVE g[x] = c[x] + both[x]  OBVIOUS
  <2>1. both[x] = up[x] + down[x] /\ c[x] \in Nat  BY <1>5, <1>6
  <2>2. CASE x = i
    <3>1. up[x] = 1 /\ down[x] = 0  BY <1>1, <1>4, <2>2
    <3>2. g[x] = 1 /\ c[x] = 0  BY <1>3, <2>2
    <3>3. QED  BY <2>1, <3>1, <3>2
  <2>3. CASE x = d
    <3>1. up[x] = 0 /\ down[x] = 0 - 1  BY <1>1, <1>4, <2>3
    <3>2. g[x] = c[x] - 1  BY <1>1, <1>3, <2>3
    <3>3. QED  BY <2>1, <3>1, <3>2
  <2>4. CASE x # i /\ x # d
    <3>1. up[x] = 0 /\ down[x] = 0  BY <1>4, <2>4
    <3>2. g[x] = c[x]  BY <1>3, <2>4
    <3>3. QED  BY <2>1, <3>1, <3>2
  <2>5. QED  BY <2>2, <2>3, <2>4
<1>9. Cast!Total(up) = 1
  <2>1. Uniform(D, {i}, 1, up)  BY <1>4, <1>6, <1>7 DEF Uniform
  <2>2. Cast!Total(up) = Cardinality({i}) * 1  BY <2>1, TotalUniform
  <2>3. Cardinality({i}) = 1  BY FS_Singleton
  <2>4. QED  BY <2>2, <2>3
<1>10. Cast!Total(down) = 0 - 1
  <2>1. Uniform(D, {d}, 0 - 1, down)  BY <1>4, <1>6, <1>7 DEF Uniform
  <2>2. Cast!Total(down) = Cardinality({d}) * (0 - 1)  BY <2>1, TotalUniform
  <2>3. Cardinality({d}) = 1  BY FS_Singleton
  <2>4. QED  BY <2>2, <2>3
<1>11. Cast!Total(both) = Cast!Total(up) + Cast!Total(down)
  <2>1. Added(D, up, down, both)  BY <1>4, <1>5, <1>7 DEF Added
  <2>2. QED  BY <2>1, TotalAdds
<1>12. Cast!Total(g) = Cast!Total(c) + Cast!Total(both)
  <2>1. Added(D, c, both, g)  BY <1>5, <1>6, <1>7, <1>8 DEF Added
  <2>2. QED  BY <2>1, TotalAdds
<1>13. Cast!Total(c) \in Int
  <2>1. \A x \in D : c[x] <= c[x]
    <3> SUFFICES ASSUME NEW x \in D PROVE c[x] <= c[x]  OBVIOUS
    <3>1. c[x] \in Nat  BY <1>6
    <3>2. QED  BY <3>1
  <2>2. QED  BY <1>6, <1>7, <2>1, TotalOrders
<1>14. Cast!Total(g) = Cast!Total(c)  BY <1>9, <1>10, <1>11, <1>12, <1>13
<1>15. DOMAIN c = D  BY <1>6
<1>16. QED  BY <1>2, <1>3, <1>14, <1>15, Zenon DEF D, g, MovesOne

LEMMA SeatTaken ==
  ASSUME NEW m \in Nat, NEW w \in [1..m -> Nat], NEW n \in Nat, NEW Q, NEW c, Seating(w, n, Q, c),
         NEW i \in Q
  PROVE  Seating(w, n, Q \ {i}, Cast!TakeSeat(c, i))
<1> DEFINE D == 1..m  some == Cast!Positive(w)  g == Cast!TakeSeat(c, i)
<1>1. /\ c \in [D -> Nat] /\ Cast!Total(c) = n /\ i \in D /\ c[i] = 0
      /\ \A x, y \in D : w[x] > w[y] => c[x] + 1 >= c[y]
      /\ Q \in SUBSET D /\ \A x \in Q : c[x] = 0
      /\ some # {} => Q \subseteq some /\ \A x \in D : w[x] = 0 => c[x] = 0
      /\ n >= Cardinality(some) => \A x \in some \ Q : c[x] > 0
      /\ DOMAIN w = D /\ \A x \in D : c[x] \in Nat /\ w[x] \in Nat
  BY DEF Seating
<1>2. \/ Donors(c) = {} /\ g = c
      \/ \E d \in Donors(c) : Fullest(c, d) /\ g = Moved(c, d, i)
  <2>1. c \in [1..m -> Nat] /\ i \in 1..m  BY <1>1
  <2>2. QED  BY <2>1, TakeSeatIs, Zenon
<1>3. some \in SUBSET D /\ Cardinality(some) \in Nat
  <2>1. some \in SUBSET D  BY DEF Cast!Positive
  <2>2. QED  BY <2>1, NumbersAreFinite
<1>4. ASSUME Donors(c) = {}, g = c PROVE Seating(w, n, Q \ {i}, g)
  <2>1. some # {} => n < Cardinality(some)  BY <1>4, NobodyCanSpare
  <2>2. n >= Cardinality(some) => \A x \in some \ (Q \ {i}) : c[x] > 0
    <3>1. n >= Cardinality(some) => some = {}  BY <1>3, <2>1
    <3>2. QED  BY <3>1
  <2> HIDE DEF D, some, g
  <2>3. QED  BY <1>1, <1>4, <2>2, Zenon DEF Seating, some
<1>5. ASSUME NEW d \in Donors(c), Fullest(c, d), g = Moved(c, d, i)
      PROVE  Seating(w, n, Q \ {i}, g)
  <2>1. d \in D /\ c[d] > 1 /\ d # i /\ c[d] \in Nat
    <3>1. d \in D /\ c[d] > 1  BY <1>1 DEF Donors
    <3>2. QED  BY <1>1, <3>1
  <2>2. /\ g \in [D -> Nat] /\ Cast!Total(g) = n
        /\ \A x \in D : g[x] = IF x = i THEN 1 ELSE IF x = d THEN c[d] - 1 ELSE c[x]
    <3>1. c \in [1..m -> Nat] /\ i \in 1..m /\ d \in 1..m /\ c[i] = 0 /\ c[d] > 1  BY <1>1, <2>1
    <3> HIDE DEF g
    <3> DEFINE h == Moved(c, d, i)
    <3>2. h \in [1..m -> Nat] /\ Cast!Total(h) = Cast!Total(c) /\ MovesOne(c, d, i, h)
      BY <3>1, SeatMoves, Zenon
    <3>2a. g = h  BY <1>5
    <3>3. DOMAIN c = D  BY <1>1
    <3>4. QED  BY <1>1, <3>2, <3>2a, <3>3, Zenon DEF MovesOne
  <2>3. \A x \in D : c[x] <= c[d]
    <3> SUFFICES ASSUME NEW x \in D PROVE c[x] <= c[d]  OBVIOUS
    <3>1. c[x] \in Nat  BY <1>1
    <3>2. CASE c[x] > 1 /\ x # d
      <4>1. x \in Donors(c) \ {d}  BY <1>1, <3>2 DEF Donors
      <4>2. c[d] > c[x] \/ c[d] = c[x]  BY <1>5, <4>1 DEF Fullest
      <4>3. QED  BY <2>1, <3>1, <4>2
    <3>3. QED  BY <2>1, <3>1, <3>2
  <2> HIDE DEF g, D, some
  <2>4. ASSUME NEW x \in D, NEW y \in D, w[x] > w[y] PROVE g[x] + 1 >= g[y]
    <3>1. c[x] + 1 >= c[y] /\ c[x] \in Nat /\ c[y] \in Nat /\ c[y] <= c[d]  BY <1>1, <2>3, <2>4
    <3>2. g[x] = IF x = i THEN 1 ELSE IF x = d THEN c[d] - 1 ELSE c[x]  BY <2>2
    <3>3. g[y] = IF y = i THEN 1 ELSE IF y = d THEN c[d] - 1 ELSE c[y]  BY <2>2
    <3>4. c[i] = 0  BY <1>1
    <3>5. g[y] <= c[y] \/ (y = i /\ g[y] = 1)  BY <2>1, <3>1, <3>3
    <3>6. g[x] >= c[x] \/ (x = d /\ g[x] = c[d] - 1)  BY <2>1, <3>1, <3>2, <3>4
    <3>7. g[x] \in Nat /\ g[y] \in Nat  BY <2>2
    <3> DEFINE a == c[x]  b == c[y]  e == c[d]  p == g[x]  q == g[y]
    <3>8. /\ a \in Nat /\ b \in Nat /\ e \in Nat /\ p \in Nat /\ q \in Nat
          /\ a + 1 >= b /\ b <= e /\ e > 1
          /\ (q <= b \/ q = 1) /\ (p >= a \/ p = e - 1)
      BY <2>1, <3>1, <3>5, <3>6, <3>7
    <3> HIDE DEF a, b, e, p, q
    <3>9. p + 1 >= q  BY <3>8
    <3>10. QED  BY <3>9 DEF p, q
  <2>5. \A x \in Q \ {i} : g[x] = 0
    <3> SUFFICES ASSUME NEW x \in Q \ {i} PROVE g[x] = 0  OBVIOUS
    <3>1. x \in D /\ c[x] = 0 /\ x # d  BY <1>1, <2>1
    <3>2. QED  BY <2>2, <3>1
  <2>6. ASSUME some # {} PROVE Q \subseteq some /\ \A x \in D : w[x] = 0 => g[x] = 0
    <3>1. Q \subseteq some /\ \A x \in D : w[x] = 0 => c[x] = 0  BY <1>1, <2>6
    <3>2. ASSUME NEW x \in D, w[x] = 0 PROVE g[x] = 0
      <4>1. c[x] = 0 /\ x # d  BY <2>1, <3>1, <3>2
      <4>2. x # i
        <5>1. i \in some  BY <3>1
        <5>2. w[i] > 0  BY <5>1 DEF some, Cast!Positive
        <5>3. QED  BY <3>2, <5>2
      <4>3. QED  BY <2>2, <4>1, <4>2
    <3>3. QED  BY <3>1, <3>2
  <2>7. ASSUME n >= Cardinality(some), NEW x \in some \ (Q \ {i}) PROVE g[x] > 0
    <3>1. x \in D /\ (x = i \/ c[x] > 0)  BY <1>1, <1>3, <2>7
    <3>2. c[x] \in Nat  BY <1>1, <3>1
    <3>3. QED  BY <2>1, <2>2, <3>1, <3>2
  <2>8. Q \ {i} \in SUBSET D /\ (some # {} => Q \ {i} \subseteq some)  BY <1>1
  <2>9. QED
    BY <1>1, <2>2, <2>4, <2>5, <2>6, <2>7, <2>8, Zenon DEF Seating, some
<1>6. QED  BY <1>2, <1>4, <1>5

(* Those without a seat take one in turn: the fold over their order.       *)
Served(c, order) ==
  LET kept == CHOOSE f : f = [s \in SUBSET DOMAIN order |->
        IF s = {} THEN c ELSE Cast!TakeSeat(f[s \ {Cast!Max(s)}], order[Cast!Max(s)])]
  IN kept[DOMAIN order]

LEMMA LastOfThem ==
  ASSUME NEW n \in Nat, NEW s \in SUBSET (1..n), s # {}
  PROVE  Cast!Max(s) \in s /\ \A y \in s : Cast!Max(s) >= y
<1> DEFINE T == {n - y : y \in s}
<1>2. \E x \in s : \A y \in s : x >= y
  <2>1. T \subseteq Nat /\ T # {}
    <3>1. \A y \in s : n - y \in Nat
      <4> SUFFICES ASSUME NEW y \in s PROVE n - y \in Nat  OBVIOUS
      <4>1. y \in 1..n  OBVIOUS
      <4>2. QED  BY <4>1
    <3>2. PICK y : y \in s  OBVIOUS
    <3>3. QED  BY <3>1, <3>2
  <2>2. PICK t \in T : \A u \in T : t <= u
    <3> HIDE DEF T
    <3>1. QED  BY <2>1, LeastNatural
  <2>3. PICK x \in s : t = n - x  OBVIOUS
  <2>4. \A y \in s : n - x <= n - y  BY <2>2, <2>3
  <2>5. x \in 1..n /\ \A y \in s : y \in 1..n  OBVIOUS
  <2>6. QED  BY <2>4, <2>5
<1> DEFINE Top(x) == \A y \in s : x >= y
<1>3. Cast!Max(s) = CHOOSE x \in s : Top(x)  BY DEF Cast!Max
<1>4. \E x \in s : Top(x)  BY <1>2
<1> HIDE DEF Top
<1>5. Cast!Max(s) \in s /\ Top(Cast!Max(s))  BY <1>3, <1>4, Zenon
<1>6. QED  BY <1>5 DEF Top

LEMMA TakeSeatTyped ==
  ASSUME NEW m \in Nat, NEW c \in [1..m -> Nat], NEW i \in 1..m
  PROVE  Cast!TakeSeat(c, i) \in [1..m -> Nat]
<1>1. CASE Cast!TakeSeat(c, i) = c  BY <1>1
<1>2. ASSUME NEW d \in Donors(c), Cast!TakeSeat(c, i) = Moved(c, d, i)
      PROVE  Cast!TakeSeat(c, i) \in [1..m -> Nat]
  <2>1. d \in 1..m /\ c[d] \in Nat /\ c[d] - 1 \in Nat  BY DEF Donors
  <2>2. Moved(c, d, i) \in [1..m -> Nat]  BY <2>1 DEF Moved
  <2>3. QED  BY <1>2, <2>2
<1>3. QED  BY <1>1, <1>2, TakeSeatIs, Zenon

InTurn(Q, K, order) ==
  /\ order \in [1..K -> Q] /\ \A i, j \in 1..K : i < j => order[i] # order[j]
  /\ \A x \in Q : \E i \in 1..K : order[i] = x
LEMMA ServedInTurn ==
  ASSUME NEW m \in Nat, NEW w \in [1..m -> Nat], NEW n \in Nat, NEW Q, NEW c, Seating(w, n, Q, c),
         NEW K \in Nat, NEW order, InTurn(Q, K, order)
  PROVE  Seating(w, n, {}, Served(c, order))
<1> DEFINE D == DOMAIN order  B == [1..m -> Nat]
           pick == [s \in SUBSET D |-> Cast!Max(s)]
           step == [p \in D \X B |-> Cast!TakeSeat(p[2], order[p[1]])]
           Serves(f) == f = [s \in SUBSET D |->
             IF s = {} THEN c ELSE Cast!TakeSeat(f[s \ {Cast!Max(s)}], order[Cast!Max(s)])]
           kept == CHOOSE f : Serves(f)
<1>1. /\ D = 1..K /\ c \in B /\ Q \subseteq 1..m /\ order \in [D -> Q] /\ \A x \in D : order[x] \in 1..m
      /\ \A i, j \in D : i < j => order[i] # order[j]
      /\ \A x \in Q : \E i \in D : order[i] = x
  BY DEF Seating, InTurn
<1>2. IsFiniteSet(D)
  <2>1. IsFiniteSet(1..K)  BY NumbersAreFinite
  <2>2. QED  BY <1>1, <2>1
<1>3. Served(c, order) = kept[D]  BY Zenon DEF Served
<1>4. \A s \in SUBSET D : s # {} => Cast!Max(s) \in s /\ pick[s] = Cast!Max(s)
  <2> HIDE DEF D
  <2>1. QED  BY <1>1, LastOfThem
<1>5. \A x \in D, b \in B : step[<<x, b>>] = Cast!TakeSeat(b, order[x]) /\ step[<<x, b>>] \in B
  <2>1. \A x \in D, b \in B : step[<<x, b>>] = Cast!TakeSeat(b, order[x])  OBVIOUS
  <2> HIDE DEF step, D
  <2>2. \A x \in D, b \in B : Cast!TakeSeat(b, order[x]) \in B  BY <1>1, TakeSeatTyped
  <2>3. QED  BY <2>1, <2>2, Zenon
<1> HIDE DEF pick, step, D, B
<1>6. PICK f \in [SUBSET D -> B] : Folds(f, D, c, pick, step)
  <2>1. Foldable(D, B, c, pick, step)  BY <1>1, <1>4, <1>5 DEF Foldable
  <2>2. QED  BY <1>2, <2>1, FoldsExist
<1>7. Serves(f)
  <2>1. ASSUME NEW s \in SUBSET D
        PROVE  f[s] = IF s = {} THEN c ELSE Cast!TakeSeat(f[s \ {Cast!Max(s)}], order[Cast!Max(s)])
    <3>1. CASE s = {}  BY <1>6, <3>1 DEF Folds
    <3>2. CASE s # {}
      <4>1. f[s] = step[<<pick[s], f[s \ {pick[s]}]>>]  BY <1>6, <3>2 DEF Folds
      <4>2. pick[s] = Cast!Max(s) /\ pick[s] \in D /\ s \ {pick[s]} \in SUBSET D  BY <1>4, <3>2
      <4>3. f[s \ {pick[s]}] \in B  BY <4>2
      <4>4. f[s] = Cast!TakeSeat(f[s \ {pick[s]}], order[pick[s]])  BY <1>5, <4>1, <4>2, <4>3
      <4>5. QED  BY <3>2, <4>2, <4>4
    <3>3. QED  BY <3>1, <3>2
  <2>2. QED  BY <2>1
<1> HIDE DEF Serves
<1>8. Serves(kept)  BY <1>7, Zenon
<1> HIDE DEF kept
<1> DEFINE Left(k) == {order[j] : j \in (k + 1)..K}
           Holds == {k \in 0..K : Seating(w, n, Left(k), kept[1..k])}
<1>9. 0 \in Holds
  <2>1. Left(0) = Q
    <3>1. (0 + 1)..K = D  BY <1>1
    <3>2. Left(0) = {order[j] : j \in D}  BY <3>1
    <3> HIDE DEF Left, D
    <3>3. {order[j] : j \in D} = Q
      <4>1. order \in [D -> Q]  BY <1>1
      <4>2. \A x \in Q : \E j \in D : order[j] = x  BY <1>1
      <4>3. \A x \in Q : x \in {order[j] : j \in D}  BY <4>2
      <4>4. \A x \in {order[j] : j \in D} : x \in Q  BY <4>1
      <4>5. QED  BY <4>3, <4>4
    <3>4. QED  BY <3>2, <3>3
  <2>2. 1..0 = {}  OBVIOUS
  <2>3. {} \in SUBSET D  OBVIOUS
  <2>4. kept[{}] = c  BY <1>8, <2>3 DEF Serves
  <2> HIDE DEF Left
  <2>5. Seating(w, n, Left(0), kept[1..0])  BY <2>1, <2>2, <2>4
  <2>6. QED  BY <2>5
<1>10. ASSUME NEW k \in 1..K, k - 1 \in Holds PROVE k \in Holds
  <2> DEFINE s == 1..k
  <2>1. s \in SUBSET D /\ s # {} /\ k \in s /\ k \in D
    <3>1. s \subseteq 1..K /\ k \in s /\ k \in 1..K  OBVIOUS
    <3> HIDE DEF s, D
    <3>2. QED  BY <1>1, <3>1
  <2>2. Cast!Max(s) = k
    <3>1. Cast!Max(s) \in s /\ Cast!Max(s) >= k
      <4>1. s \in SUBSET (1..K)  OBVIOUS
      <4> HIDE DEF s
      <4>2. QED  BY <2>1, <4>1, LastOfThem
    <3>2. QED  BY <3>1
  <2>3. s \ {k} = 1..(k - 1)  OBVIOUS
  <2>4. kept[s] = Cast!TakeSeat(kept[1..(k - 1)], order[k])
    <3> HIDE DEF s
    <3>1. kept[s] = Cast!TakeSeat(kept[s \ {Cast!Max(s)}], order[Cast!Max(s)])
      BY <1>8, <2>1 DEF Serves
    <3>2. QED  BY <2>2, <2>3, <3>1
  <2>5. Seating(w, n, Left(k - 1), kept[1..(k - 1)])  BY <1>10
  <2>6. order[k] \in Left(k - 1)
    <3>1. k \in ((k - 1) + 1)..K  OBVIOUS
    <3>2. QED  BY <3>1
  <2>7. Left(k - 1) \ {order[k]} = Left(k)
    <3>1. ((k - 1) + 1)..K = {k} \cup ((k + 1)..K)  OBVIOUS
    <3>2. ASSUME NEW j \in (k + 1)..K PROVE order[j] # order[k]
      <4>1. j \in D /\ k < j  BY <1>1
      <4>2. QED  BY <1>1, <2>1, <4>1
    <3>3. QED  BY <3>1, <3>2
  <2> HIDE DEF Left
  <2>8. Seating(w, n, Left(k), kept[s])
    <3>1. Seating(w, n, Left(k - 1) \ {order[k]}, Cast!TakeSeat(kept[1..(k - 1)], order[k]))
      BY <2>5, <2>6, SeatTaken
    <3>2. QED  BY <2>4, <2>7, <3>1
  <2>9. QED  BY <2>8
<1>11. K \in Holds
  <2> HIDE DEF Holds
  <2>1. QED  BY <1>9, <1>10, StaysUpto
<1>12. Left(K) = {}
  <2>1. (K + 1)..K = {}  OBVIOUS
  <2>2. QED  BY <2>1
<1> HIDE DEF Left
<1>13. Seating(w, n, {}, kept[1..K])  BY <1>11, <1>12
<1>14. QED  BY <1>1, <1>3, <1>13

(* What EverySeatFilled says of the seats got: all are filled, nobody of   *)
(* weight is missing, and a heavier one has no two fewer than a lighter.   *)
SeatedTo(w, n, got) ==
  /\ Cast!Total(got) = n
  /\ n >= Cardinality(Cast!Positive(w)) => \A i \in Cast!Positive(w) : got[i] > 0
  /\ \A i, j \in DOMAIN w : w[i] > w[j] => got[i] + 1 >= got[j]
LEMMA RoomsAreFilled ==
  ASSUME NEW m \in Nat, m > 0, NEW w \in [1..m -> Nat], NEW n \in Nat
  PROVE  SeatedTo(w, n, Cast!Apportion(w, n))
<1> DEFINE D == 1..m
           c == Cast!Seated(w, n)
           some == IF Cast!Positive(w) = {} THEN DOMAIN w ELSE Cast!Positive(w)
           Q == {i \in some : c[i] = 0}
           K == Cardinality(Q)
           Places(s) == \A i, j \in 1..Cast!Cardinality(Q) : i < j =>
             s[i] # s[j] /\ (w[s[i]] > w[s[j]] \/ (w[s[i]] = w[s[j]] /\ s[i] < s[j]))
           order == CHOOSE s \in [1..Cast!Cardinality(Q) -> Q] : Places(s)
           zero == [i \in DOMAIN w |-> 0]
<1>1. Cast!Apportion(w, n) = IF n = 0 THEN zero ELSE Served(c, order)
  BY Zenon DEF Cast!Apportion, Cast!Ranked, Cast!FoldLeft, Cast!MapThenFoldSet, Served
<1>2. DOMAIN w = D /\ Cast!Positive(w) \in SUBSET D /\ \A i \in D : w[i] \in Nat  BY DEF Cast!Positive
<1>3. Seating(w, n, Q, c)
  <2>1. Q = Starved(w, c)  BY Zenon DEF Starved
  <2>2. Seating(w, n, Starved(w, c), c)  BY SeatedBegins, Zenon
  <2>3. QED  BY <2>1, <2>2, Zenon
<1>4. Q \in SUBSET D  BY <1>2
<1>5. IsFiniteSet(D) /\ IsFiniteSet(Q) /\ K \in Nat
  <2> HIDE DEF Q
  <2>1. QED  BY <1>4, NumbersAreFinite
<1> HIDE DEF Q, c
<1>6. Cast!Cardinality(Q) = K  BY Zenon DEF Cast!Cardinality, Cardinality
<1>7. Ordered(Q, w, w, order)
  <2>1. PICK p : Ordered(Q, w, w, p)
    <3>1. \A x \in Q : x \in Nat /\ w[x] \in Nat  BY <1>2, <1>4
    <3>2. Measured(Q, w, w)  BY <1>5, <3>1 DEF Measured
    <3>3. QED  BY <3>2, AheadOrders
  <2>2. ASSUME NEW s \in [1..K -> Q] PROVE Ordered(Q, w, w, s) <=> Places(s)
    <3>1. ASSUME NEW i \in 1..K, NEW j \in 1..K
          PROVE  <<s[i], s[j]>> \in Ahead(Q, w, w) <=>
                   w[s[i]] > w[s[j]] \/ (w[s[i]] = w[s[j]] /\ s[i] < s[j])
      <4>1. s[i] \in Q /\ s[j] \in Q  OBVIOUS
      <4>2. w[s[i]] \in Nat /\ w[s[j]] \in Nat  BY <1>2, <1>4, <4>1
      <4>3. QED  BY <4>1, <4>2 DEF Ahead
    <3>2. QED  BY <1>6, <3>1, Zenon DEF Ordered, K
  <2>3. p \in [1..K -> Q]  BY <2>1 DEF Ordered
  <2>4. \E s \in [1..Cast!Cardinality(Q) -> Q] : Places(s)
    <3> HIDE DEF Places
    <3>1. QED  BY <1>6, <2>1, <2>2, <2>3, Zenon
  <2> HIDE DEF Places
  <2>5. order \in [1..Cast!Cardinality(Q) -> Q] /\ Places(order)  BY <2>4, Zenon
  <2> HIDE DEF order
  <2>6. QED  BY <1>6, <2>2, <2>5, Zenon
<1> HIDE DEF order
<1>8. InTurn(Q, K, order)
  <2>1. /\ order \in [1..K -> Q]
        /\ \A i, j \in 1..K : i < j => order[i] # order[j]
    BY <1>7 DEF Ordered
  <2>2. \A x \in Q : \E i \in 1..K : order[i] = x  BY <1>5, <2>1, OrderIsOnto
  <2>3. QED  BY <2>1, <2>2 DEF InTurn
<1> HIDE DEF K
<1>9. Seating(w, n, {}, Served(c, order))  BY <1>3, <1>5, <1>8, ServedInTurn
<1>10. CASE n # 0
  <2>1. Cast!Apportion(w, n) = Served(c, order)  BY <1>1, <1>10, Zenon
  <2>2. \A S : S \ {} = S  OBVIOUS
  <2> HIDE DEF D
  <2>3. QED  BY <1>9, <2>1, <2>2, Zenon DEF Seating, SeatedTo
<1>11. CASE n = 0
  <2>1. zero \in [D -> Int] /\ \A i \in D : zero[i] = 0  BY <1>2
  <2>2. Cast!Apportion(w, n) = zero  BY <1>1, <1>11, Zenon
  <2> HIDE DEF zero, D
  <2>3. Cast!Total(zero) = 0
    <3>1. Uniform(D, {}, 0, zero)  BY <1>5, <2>1 DEF Uniform
    <3>2. Cast!Total(zero) = Cardinality({}) * 0  BY <3>1, TotalUniform
    <3>3. Cardinality({}) = 0  BY FS_EmptySet
    <3>4. QED  BY <3>2, <3>3
  <2>4. 0 >= Cardinality(Cast!Positive(w)) => Cast!Positive(w) = {}
    <3>1. IsFiniteSet(Cast!Positive(w))  BY <1>2, <1>5, FS_Subset
    <3>2. QED  BY <3>1, FS_CardinalityType, FS_EmptySet
  <2>5. \A i, j \in DOMAIN w : w[i] > w[j] => zero[i] + 1 >= zero[j]  BY <1>2, <2>1
  <2>6. QED  BY <1>11, <2>2, <2>3, <2>4, <2>5 DEF SeatedTo
<1>12. QED  BY <1>10, <1>11

-----------------------------------------------------------------------------
(* The weights of a pack after rebalance_adversarial are weights.          *)
LEMMA TotalIsNatural ==
  ASSUME NEW m \in Nat, NEW w \in [1..m -> Nat]
  PROVE  Cast!Total(w) \in Nat
<1> DEFINE D == 1..m  zero == [i \in D |-> 0]
<1>1. IsFiniteSet(D) /\ w \in [D -> Int] /\ zero \in [D -> Int]
      /\ \A i \in D : zero[i] = 0 /\ zero[i] <= w[i]
  BY NumbersAreFinite
<1> HIDE DEF zero, D
<1>2. Cast!Total(w) \in Int /\ Cast!Total(zero) <= Cast!Total(w)  BY <1>1, TotalOrders
<1>3. Cast!Total(zero) = 0
  <2>1. Uniform(D, {}, 0, zero)  BY <1>1 DEF Uniform
  <2>2. Cast!Total(zero) = Cardinality({}) * 0  BY <2>1, TotalUniform
  <2>3. Cardinality({}) = 0  BY FS_EmptySet
  <2>4. QED  BY <2>2, <2>3
<1>4. QED  BY <1>2, <1>3

Weighed(w) == \E m \in Nat : m > 0 /\ w \in [1..m -> Nat]
LEMMA BothAreWeighed ==
  ASSUME NEW m \in Nat, m > 0, NEW k \in Nat, NEW f \in [1..m -> Nat], NEW g \in [1..k -> Nat]
  PROVE  Weighed(f \o g)
<1>1. f \in Seq(Nat) /\ g \in Seq(Nat) /\ Len(f) = m /\ Len(g) = k  OBVIOUS
<1>2. f \o g \in Seq(Nat) /\ Len(f \o g) = m + k  BY <1>1, ConcatProperties
<1>3. f \o g \in [1..(m + k) -> Nat]  BY <1>2, LenProperties
<1>4. m + k \in Nat /\ m + k > 0  OBVIOUS
<1>5. QED  BY <1>3, <1>4 DEF Weighed

LEMMA RebalancedIsWeighed ==
  ASSUME ShareUnits \in Nat, NEW b \in Cast!SomeBuyers, NEW a \in Cast!SomeBuyers,
         NEW share \in 0..(ShareUnits - 1)
  PROVE  Weighed(Cast!Rebalance(b, a, share))
<1>1. PICK m \in 1..2 : b \in [1..m -> 1..3]  BY DEF Cast!SomeBuyers
<1>2. PICK k \in 1..2 : a \in [1..k -> 1..3]  BY DEF Cast!SomeBuyers
<1>3. /\ m \in Nat /\ k \in Nat /\ m > 0 /\ b \in [1..m -> Nat] /\ a \in [1..k -> Nat]
      /\ DOMAIN b = 1..m /\ DOMAIN a = 1..k
  BY <1>1, <1>2
<1> DEFINE tb == Cast!Total(b)  ta == Cast!Total(a)
           b0 == [i \in DOMAIN b |-> b[i] * 10000]
           a0 == [i \in DOMAIN a |-> tb]
           b1 == [i \in DOMAIN b |-> b[i] * ta * (ShareUnits - share)]
           a1 == [i \in DOMAIN a |-> a[i] * tb * share]
<1>4. Cast!Rebalance(b, a, share) =
        IF a = <<>> \/ b = <<>> THEN b \o a ELSE IF share = 0 THEN b0 \o a0 ELSE b1 \o a1
  BY DEF Cast!Rebalance
<1>5. tb \in Nat /\ ta \in Nat  BY <1>3, TotalIsNatural
<1> HIDE DEF tb, ta
<1>6. share \in Nat /\ ShareUnits - share \in Nat  OBVIOUS
<1>7. b0 \in [1..m -> Nat] /\ a0 \in [1..k -> Nat]  BY <1>3, <1>5
<1>8. b1 \in [1..m -> Nat]
  <2>1. ASSUME NEW i \in 1..m PROVE b[i] * ta * (ShareUnits - share) \in Nat
    <3>1. b[i] \in Nat  BY <1>3
    <3> DEFINE d == ShareUnits - share
    <3>2. d \in Nat  BY <1>6
    <3> HIDE DEF d
    <3>3. b[i] * ta * d \in Nat  BY <1>5, <3>1, <3>2
    <3>4. QED  BY <3>3 DEF d
  <2>2. QED  BY <1>3, <2>1
<1>9. a1 \in [1..k -> Nat]
  <2>1. ASSUME NEW i \in 1..k PROVE a[i] * tb * share \in Nat
    <3>1. a[i] \in Nat  BY <1>3
    <3>2. QED  BY <1>5, <1>6, <3>1
  <2>2. QED  BY <1>3, <2>1
<1> HIDE DEF b0, a0, b1, a1
<1>10. Weighed(b \o a) /\ Weighed(b0 \o a0) /\ Weighed(b1 \o a1)
  BY <1>3, <1>7, <1>8, <1>9, BothAreWeighed
<1>11. QED  BY <1>4, <1>10, Zenon

-----------------------------------------------------------------------------
(* The casting steps meet the lemmas above, action by action.              *)
LEMMA CastCounted == \A S : Cast!Cardinality(S) = Cardinality(S)
BY Zenon DEF Cast!Cardinality, Cardinality
(* Everybody who asks for seats, words or opponents gets a fair part:      *)
(* apportion fills every seat and misses nobody of weight when there are   *)
(* seats for all, _fair_share cuts nobody below what anybody got, and the  *)
(* cohort of compile_packs reaches every segment, evenly.  For any number  *)
(* of seats, of archetypes or sources, and any granularity of the share.   *)
THEOREM RoomsAreDealtFairly ==
  ASSUME MostSeats \in Nat, MostParts \in Nat, ShareUnits \in Nat
  PROVE  Cast!Spec => []DealtFairly
<1>1. Cast!Init => DealtFairly
  <2> SUFFICES ASSUME casting = [kind |-> "none"] PROVE DealtFairly  BY DEF Cast!Init
  <2>1. casting.kind = "none"  OBVIOUS
  <2>2. QED
    BY <2>1 DEF DealtFairly, Cast!DealtFairly, Cast!EverySeatFilled, Cast!NoSourceStarved,
       Cast!CohortReachesAll
<1>2. DealtFairly /\ [Cast!Next]_(Cast!castVars) => DealtFairly'
  <2> SUFFICES ASSUME DealtFairly, [Cast!Next]_(Cast!castVars) PROVE DealtFairly'  OBVIOUS
  <2> USE DEF DealtFairly, Cast!DealtFairly, Cast!EverySeatFilled, Cast!NoSourceStarved,
              Cast!CohortReachesAll
  <2>0. ASSUME NEW w \in Cast!Weights PROVE \E m \in Nat : m > 0 /\ w \in [1..m -> Nat]
    <3>1. PICK m \in 1..MostParts : w \in [1..m -> 0..3]  BY <2>0 DEF Cast!Weights
    <3>2. m \in Nat /\ m > 0 /\ w \in [1..m -> Nat]  BY <3>1
    <3>3. QED  BY <3>2
  <2>1. CASE Cast!ShareBudget
    <3>1. PICK w \in Cast!Weights, b \in 0..MostSeats :
            casting' = [kind |-> "share", asked |-> w, total |-> b, got |-> Cast!FairShare(w, b)]
      BY <2>1 DEF Cast!ShareBudget
    <3>2. FairTo(w, b, Cast!FairShare(w, b))
      <4>1. PICK m \in Nat : w \in [1..m -> Nat]  BY <2>0
      <4>2. b \in Nat  OBVIOUS
      <4>3. QED  BY <4>1, <4>2, SharesAreFair
    <3> DEFINE got == Cast!FairShare(w, b)
    <3> HIDE DEF got
    <3>3. casting'.kind = "share" /\ casting'.asked = w /\ casting'.total = b /\ casting'.got = got
      BY <3>1 DEF got
    <3>4. Cast!NoSourceStarved'
      BY <3>2, <3>3, CastCounted, Zenon DEF FairTo, got
    <3>5. QED  BY <3>3, <3>4, Zenon
  <2>2. CASE Cast!SeatSwarm
    <3>1. PICK w \in Cast!Weights, n \in 0..MostSeats :
            casting' = [kind |-> "seat", asked |-> w, total |-> n, got |-> Cast!Apportion(w, n)]
      BY <2>2 DEF Cast!SeatSwarm
    <3>2. SeatedTo(w, n, Cast!Apportion(w, n))
      <4>1. PICK m \in Nat : m > 0 /\ w \in [1..m -> Nat]  BY <2>0
      <4>2. n \in Nat  OBVIOUS
      <4>3. QED  BY <4>1, <4>2, RoomsAreFilled
    <3> DEFINE got == Cast!Apportion(w, n)
    <3> HIDE DEF got
    <3>3. casting'.kind = "seat" /\ casting'.asked = w /\ casting'.total = n /\ casting'.got = got
      BY <3>1 DEF got
    <3>4. Cast!EverySeatFilled'
      BY <3>2, <3>3, CastCounted, Zenon DEF SeatedTo, got
    <3>5. QED  BY <3>3, <3>4, Zenon
  <2>3. CASE Cast!SeatPack
    <3>1. PICK b \in Cast!SomeBuyers, a \in Cast!SomeBuyers, share \in 0..(ShareUnits - 1),
               n \in 1..MostSeats :
            casting' = [kind |-> "pack", asked |-> Cast!Rebalance(b, a, share), total |-> n,
                        got |-> Cast!Apportion(Cast!Rebalance(b, a, share), n),
                        buyers |-> Cast!Len(b), share |-> share]
      BY <2>3 DEF Cast!SeatPack
    <3> DEFINE w == Cast!Rebalance(b, a, share)  got == Cast!Apportion(w, n)
    <3>2. SeatedTo(w, n, got)
      <4>1. Weighed(w)  BY RebalancedIsWeighed
      <4>2. PICK m \in Nat : m > 0 /\ w \in [1..m -> Nat]  BY <4>1 DEF Weighed
      <4>3. n \in Nat  OBVIOUS
      <4> HIDE DEF w
      <4>4. QED  BY <4>2, <4>3, RoomsAreFilled
    <3> HIDE DEF w, got
    <3>3. casting'.kind = "pack" /\ casting'.asked = w /\ casting'.total = n /\ casting'.got = got
      BY <3>1 DEF w, got
    <3>4. Cast!EverySeatFilled'
      BY <3>2, <3>3, CastCounted, Zenon DEF SeatedTo
    <3>5. QED  BY <3>3, <3>4, Zenon
  <2>4. CASE Cast!DealCohort
    <3>1. PICK c \in 1..MostSeats, n \in 1..MostParts :
            casting' = [kind |-> "deal", total |-> c, got |-> Cast!Deal(c, n)]
      BY <2>4 DEF Cast!DealCohort
    <3>2. DealtTo(c, Cast!Deal(c, n))
      <4>1. c \in Nat /\ n \in Nat /\ c > 0 /\ n > 0  OBVIOUS
      <4>2. QED  BY <4>1, DealsReachAll
    <3> DEFINE got == Cast!Deal(c, n)
    <3> HIDE DEF got
    <3>3. casting'.kind = "deal" /\ casting'.total = c /\ casting'.got = got
      BY <3>1 DEF got
    <3>4. Cast!CohortReachesAll'
      <4>1. DealtTo(c, got)  BY <3>2 DEF got
      <4> DEFINE met(x) == Cardinality({s \in DOMAIN got : x \in got[s]})
                 theirs(x) == Cast!Cardinality({s \in DOMAIN got : x \in got[s]})
                 Reached == /\ \A s \in DOMAIN got : got[s] # {}
                            /\ \A x, y \in 1..c : theirs(x) > 0 /\ theirs(x) <= theirs(y) + 1
      <4>2. /\ \A s \in DOMAIN got : got[s] # {}
            /\ \A x, y \in 1..c : met(x) > 0 /\ met(x) <= met(y) + 1
        BY <4>1, Zenon DEF DealtTo
      <4>3. \A x : theirs(x) = met(x)  BY CastCounted, Zenon
      <4> HIDE DEF met
      <4>4. \A x, y \in 1..c : theirs(x) > 0 /\ theirs(x) <= theirs(y) + 1
        <5> HIDE DEF theirs
        <5>1. QED  BY <4>2, <4>3
      <4>5. Reached  BY <4>2, <4>4, Zenon
      <4>6. Reached => Cast!CohortReachesAll'  BY <3>3
      <4>7. QED  BY <4>5, <4>6, Zenon
    <3>5. QED  BY <3>3, <3>4, Zenon
  <2>5. CASE UNCHANGED Cast!castVars  BY <2>5 DEF Cast!castVars
  <2>6. QED  BY <2>1, <2>2, <2>3, <2>4, <2>5 DEF Cast!Next
<1>3. QED  BY <1>1, <1>2, PTL DEF Cast!Spec
=============================================================================
