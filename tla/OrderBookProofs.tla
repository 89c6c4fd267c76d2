-------------------------- MODULE OrderBookProofs --------------------------
(***************************************************************************)
(* Theorems about OrderBook, for books of any length, any prices and       *)
(* amounts, any limits and any width of integers. They rest on lemmas      *)
(* about sums over sets of indices, about the k-th smallest of a set, and  *)
(* about what filterOutliers and aggregateLevels make of one side.         *)
(***************************************************************************)
EXTENDS OrderBook, FiniteSetTheorems, SequenceTheorems, TLAPS

----------------------------------------------------------------------------
(* Sums *)

\* The sum of weights over a set of indices.
Sum(w, I) == SumFunctionOnSet([i \in I |-> w[i]], I)

\* What the fold of the library is defined by: one element after the other, in
\* whatever order CHOOSE takes them.
Drawn(s) == CHOOSE x \in s : TRUE
Folds(g, w, I) ==
    g = [s \in SUBSET I |-> IF s = {} THEN 0 ELSE w[Drawn(s)] + g[s \ {Drawn(s)}]]
Unfolds(g, w, I) == \A s \in I : g[s] = IF s = {} THEN 0 ELSE w[Drawn(s)] + g[s \ {Drawn(s)}]

LEMMA NatInd ==
    ASSUME NEW P \in SUBSET Nat, 0 \in P, \A n \in P : n + 1 \in P
    PROVE  \A n \in Nat : n \in P
<1> SUFFICES ASSUME Nat \ P # {} PROVE FALSE
  OBVIOUS
<1>1. PICK x \in Nat \ P : \A y \in Nat \ P : ~ (<<y, x>> \in OpToRel(<, Nat))
  BY NatLessThanWellFounded, WFMin
<1>2. x - 1 \in Nat /\ x - 1 < x /\ (x - 1) + 1 = x
  OBVIOUS
<1>3. x - 1 \notin P
  BY <1>2
<1>4. <<x - 1, x>> \in OpToRel(<, Nat)
  BY <1>2 DEF OpToRel
<1> QED
  BY <1>1, <1>2, <1>3, <1>4

LEMMA DrawnIn == ASSUME NEW s, s # {} PROVE Drawn(s) \in s
BY DEF Drawn

LEMMA Smaller ==
    ASSUME NEW I, IsFiniteSet(I), NEW s \in SUBSET I, NEW x \in s
    PROVE  /\ IsFiniteSet(s)
           /\ Cardinality(s) \in Nat
           /\ s \ {x} \in SUBSET I
           /\ Cardinality(s \ {x}) \in Nat
           /\ Cardinality(s) = Cardinality(s \ {x}) + 1
<1>1. IsFiniteSet(s) /\ Cardinality(s) \in Nat
  BY FS_Subset, FS_CardinalityType
<1>2. IsFiniteSet(s \ {x}) /\ Cardinality(s \ {x}) = Cardinality(s) - 1
  BY <1>1, FS_RemoveElement
<1>3. Cardinality(s \ {x}) \in Nat
  BY <1>2, FS_CardinalityType
<1> QED
  BY <1>1, <1>2, <1>3

\* The fold has a value.
LEMMA Unfolding ==
    ASSUME NEW I, IsFiniteSet(I), NEW w
    PROVE  \E g : Folds(g, w, I)
<1> DEFINE Upto(n) == {s \in SUBSET I : Cardinality(s) <= n}
           Once(g) == [s \in SUBSET I |-> IF s = {} THEN 0 ELSE w[Drawn(s)] + g[s \ {Drawn(s)}]]
           P == {n \in Nat : \E g : Unfolds(g, w, Upto(n))}
<1>1. 0 \in P
  <2>1. \A s \in Upto(0) : s = {}
    <3> SUFFICES ASSUME NEW s \in Upto(0) PROVE s = {}
      OBVIOUS
    <3>1. IsFiniteSet(s) /\ Cardinality(s) \in Nat /\ Cardinality(s) <= 0
      BY FS_Subset, FS_CardinalityType
    <3> QED
      BY <3>1, FS_EmptySet
  <2> DEFINE z == [s \in SUBSET I |-> 0]
  <2>2. Unfolds(z, w, Upto(0))
    BY <2>1 DEF Unfolds
  <2> HIDE DEF z, Upto
  <2> QED
    BY <2>2
<1>2. \A n \in P : n + 1 \in P
  <2> SUFFICES ASSUME NEW n \in Nat, NEW g, Unfolds(g, w, Upto(n)) PROVE n + 1 \in P
    OBVIOUS
  <2>1. ASSUME NEW s \in Upto(n + 1)
        PROVE  Once(g)[s] = IF s = {} THEN 0 ELSE w[Drawn(s)] + Once(g)[s \ {Drawn(s)}]
    <3>1. CASE s = {}
      BY <3>1
    <3>2. CASE s # {}
      <4> DEFINE r == s \ {Drawn(s)}
      <4>1. Drawn(s) \in s
        BY <3>2, DrawnIn
      <4>2. r \in Upto(n)
        BY <4>1, Smaller
      <4>3. g[r] = Once(g)[r]
        BY <4>2 DEF Unfolds
      <4> QED
        BY <3>2, <4>3
    <3> QED
      BY <3>1, <3>2
  <2>2. Unfolds(Once(g), w, Upto(n + 1))
    BY <2>1 DEF Unfolds
  <2> HIDE DEF Upto, Once
  <2>3. n + 1 \in Nat
    OBVIOUS
  <2> QED
    BY <2>2, <2>3
<1>3. \A n \in Nat : n \in P
  <2> HIDE DEF P
  <2> QED
    BY <1>1, <1>2, NatInd DEF P
<1>4. Cardinality(I) \in Nat
  BY FS_CardinalityType
<1>5. Upto(Cardinality(I)) = SUBSET I
  BY FS_Subset
<1>6. PICK g : Unfolds(g, w, SUBSET I)
  BY <1>3, <1>4, <1>5
<1> DEFINE h == [s \in SUBSET I |-> g[s]]
<1>7. Unfolds(h, w, SUBSET I)
  <2> SUFFICES ASSUME NEW s \in SUBSET I
               PROVE  h[s] = IF s = {} THEN 0 ELSE w[Drawn(s)] + h[s \ {Drawn(s)}]
    BY DEF Unfolds
  <2>1. g[s] = IF s = {} THEN 0 ELSE w[Drawn(s)] + g[s \ {Drawn(s)}]
    BY <1>6 DEF Unfolds
  <2>2. s \ {Drawn(s)} \in SUBSET I
    OBVIOUS
  <2> QED
    BY <2>1, <2>2
<1>8. Folds(h, w, I)
  <2>1. \A s \in SUBSET I : h[s] = IF s = {} THEN 0 ELSE w[Drawn(s)] + h[s \ {Drawn(s)}]
    BY <1>7 DEF Unfolds
  <2>2. h = [s \in SUBSET I |-> h[s]]
    OBVIOUS
  <2> HIDE DEF h
  <2> QED
    BY <2>1, <2>2, Zenon DEF Folds
<1> QED
  BY <1>8

\* The fold is a tally: the order in which elements are drawn does not matter.
LEMMA Unordered ==
    ASSUME NEW I, IsFiniteSet(I), NEW w, \A x \in I : w[x] \in Int, NEW g,
           Unfolds(g, w, SUBSET I)
    PROVE  /\ \A s \in SUBSET I : g[s] \in Int /\ \A x \in s : g[s] = w[x] + g[s \ {x}]
           /\ g[{}] = 0
<1> DEFINE Good(s) == g[s] \in Int /\ \A x \in s : g[s] = w[x] + g[s \ {x}]
           P == {n \in Nat : \A s \in SUBSET I : Cardinality(s) <= n => Good(s)}
<1>0. \A s \in SUBSET I : g[s] = IF s = {} THEN 0 ELSE w[Drawn(s)] + g[s \ {Drawn(s)}]
  BY DEF Unfolds
<1>b. g[{}] = 0
  BY Zenon DEF Unfolds
<1>a. Good({})
  BY <1>b
<1>1. 0 \in P
  <2> SUFFICES ASSUME NEW s \in SUBSET I, Cardinality(s) <= 0
               PROVE  s = {}
    <3> HIDE DEF Good
    <3> QED
      BY <1>a
  <2>1. IsFiniteSet(s) /\ Cardinality(s) \in Nat
    BY FS_Subset, FS_CardinalityType
  <2> QED
    BY <2>1, FS_EmptySet
<1>2. \A n \in P : n + 1 \in P
  <2> SUFFICES ASSUME NEW n \in P, NEW s \in SUBSET I, Cardinality(s) <= n + 1
               PROVE  Good(s)
    <3>1. \A n \in P : n + 1 \in Nat
      OBVIOUS
    <3> HIDE DEF Good
    <3> QED
      BY <3>1
  <2>n. n \in Nat
    OBVIOUS
  <2> DEFINE c == Drawn(s)
  <2>0. \A r \in SUBSET I : Cardinality(r) <= n => Good(r)
    <3> HIDE DEF Good
    <3> QED
      OBVIOUS
  <2> HIDE DEF P
  <2> SUFFICES ASSUME s # {} PROVE Good(s)
    BY <1>a
  <2>1. c \in s /\ c \in I /\ w[c] \in Int
    BY DrawnIn
  <2>2. g[s] = w[c] + g[s \ {c}]
    BY <1>0
  <2> HIDE DEF c
  <2>3. ASSUME NEW x \in s PROVE s \ {x} \in SUBSET I /\ Cardinality(s \ {x}) <= n
    BY <2>3, <2>n, Smaller
  <2>4. \A x \in s : g[s \ {x}] \in Int
    BY <2>0, <2>3
  <2>5. ASSUME NEW x \in s PROVE g[s] = w[x] + g[s \ {x}]
    <3>1. CASE x = c
      BY <3>1, <2>2
    <3>2. CASE x # c
      <4> DEFINE r == (s \ {c}) \ {x}
      <4>0. r = (s \ {x}) \ {c}
        OBVIOUS
      <4>1. g[s \ {c}] = w[x] + g[r]
        BY <2>0, <2>1, <2>3, <3>2
      <4>a. c \in s \ {x} /\ s \ {x} \in SUBSET I /\ Cardinality(s \ {x}) <= n
        BY <2>1, <2>3, <2>5, <3>2
      <4>b. Good(s \ {x})
        BY <4>a, <2>0
      <4>2. g[s \ {x}] = w[c] + g[r]
        BY <4>a, <4>b, <4>0
      <4>3. r \in SUBSET I /\ Cardinality(r) <= n
        <5>1. s \ {c} \in SUBSET I /\ Cardinality(s \ {c}) <= n
          BY <2>1, <2>3
        <5>2. x \in s \ {c}
          BY <3>2
        <5> DEFINE q == s \ {c}
        <5>3. q \ {x} \in SUBSET I /\ Cardinality(q \ {x}) \in Nat
              /\ Cardinality(q) = Cardinality(q \ {x}) + 1
          <6> HIDE DEF q
          <6> QED
            BY <5>1, <5>2, Smaller DEF q
        <5> QED
          BY <5>1, <5>3, <2>n
      <4>4. g[r] \in Int /\ w[x] \in Int
        BY <4>3, <2>0
      <4> HIDE DEF r
      <4> QED
        BY <2>1, <2>2, <4>1, <4>2, <4>4
    <3> QED
      BY <3>1, <3>2
  <2>6. g[s] \in Int
    <3>1. g[s \ {c}] \in Int
      BY <2>1, <2>4
    <3> QED
      BY <3>1, <2>1, <2>2
  <2> QED
    BY <2>5, <2>6
<1>3. \A n \in Nat : n \in P
  <2> HIDE DEF P
  <2> QED
    BY <1>1, <1>2, NatInd DEF P
<1>4. \A s \in SUBSET I : \E n \in Nat : Cardinality(s) <= n
  BY FS_Subset, FS_CardinalityType
<1>5. \A s \in SUBSET I : Good(s)
  <2> HIDE DEF Good
  <2> QED
    BY <1>3, <1>4
<1> QED
  BY <1>5, <1>b

\* The fold only looks at the weights.
LEMMA SameWeights ==
    ASSUME NEW I, IsFiniteSet(I), NEW w, NEW v, \A x \in I : w[x] = v[x],
           NEW g, Unfolds(g, w, SUBSET I), NEW h, Unfolds(h, v, SUBSET I)
    PROVE  \A s \in SUBSET I : g[s] = h[s]
<1> DEFINE P == {n \in Nat : \A s \in SUBSET I : Cardinality(s) <= n => g[s] = h[s]}
<1>0. g[{}] = 0 /\ h[{}] = 0
  BY Zenon DEF Unfolds
<1>1. 0 \in P
  <2> SUFFICES ASSUME NEW s \in SUBSET I, Cardinality(s) <= 0
               PROVE  s = {}
    BY <1>0
  <2>1. IsFiniteSet(s) /\ Cardinality(s) \in Nat
    BY FS_Subset, FS_CardinalityType
  <2> QED
    BY <2>1, FS_EmptySet
<1>2. \A n \in P : n + 1 \in P
  <2> SUFFICES ASSUME NEW n \in P, NEW s \in SUBSET I, Cardinality(s) <= n + 1
               PROVE  g[s] = h[s]
    <3>1. \A n \in P : n + 1 \in Nat
      OBVIOUS
    <3> QED
      BY <3>1
  <2>n. n \in Nat
    OBVIOUS
  <2>0. \A r \in SUBSET I : Cardinality(r) <= n => g[r] = h[r]
    OBVIOUS
  <2> HIDE DEF P
  <2> SUFFICES ASSUME s # {} PROVE g[s] = h[s]
    BY <1>0
  <2> DEFINE c == Drawn(s)
  <2>1. c \in s
    BY DrawnIn
  <2>2. g[s] = w[c] + g[s \ {c}]
    BY Zenon DEF Unfolds
  <2>3. h[s] = v[c] + h[s \ {c}]
    BY Zenon DEF Unfolds
  <2> HIDE DEF c
  <2>4. s \ {c} \in SUBSET I /\ Cardinality(s \ {c}) <= n
    BY <2>1, <2>n, Smaller
  <2> QED
    BY <2>0, <2>1, <2>2, <2>3, <2>4
<1>3. \A n \in Nat : n \in P
  <2> HIDE DEF P
  <2> QED
    BY <1>1, <1>2, NatInd DEF P
<1>4. \A s \in SUBSET I : \E n \in Nat : Cardinality(s) <= n
  BY FS_Subset, FS_CardinalityType
<1> QED
  BY <1>3, <1>4

LEMMA SumFolds ==
    ASSUME NEW I, IsFiniteSet(I), NEW w
    PROVE  \E g : Unfolds(g, w, SUBSET I) /\ Sum(w, I) = g[I]
<1> DEFINE f == [i \in I |-> w[i]]
           g == CHOOSE g : Folds(g, f, I)
<1>1. Sum(w, I) = g[I]
  BY DEF Sum, SumFunctionOnSet, FoldFunctionOnSet, MapThenFoldSet, Folds, Drawn
<1>2. Folds(g, f, I)
  <2> HIDE DEF f
  <2>1. \E h : Folds(h, f, I)
    BY Unfolding
  <2> QED
    BY <2>1, Zenon
<1> HIDE DEF g
<1>3. Unfolds(g, f, SUBSET I)
  <2> SUFFICES ASSUME NEW s \in SUBSET I
               PROVE  g[s] = IF s = {} THEN 0 ELSE f[Drawn(s)] + g[s \ {Drawn(s)}]
    BY Zenon DEF Unfolds
  <2> HIDE DEF f
  <2> QED
    BY <1>2, Zenon DEF Folds
<1>4. Unfolds(g, w, SUBSET I)
  <2> SUFFICES ASSUME NEW s \in SUBSET I
               PROVE  g[s] = IF s = {} THEN 0 ELSE w[Drawn(s)] + g[s \ {Drawn(s)}]
    BY Zenon DEF Unfolds
  <2>1. g[s] = IF s = {} THEN 0 ELSE f[Drawn(s)] + g[s \ {Drawn(s)}]
    BY <1>3, Zenon DEF Unfolds
  <2>2. s # {} => f[Drawn(s)] = w[Drawn(s)]
    BY DrawnIn
  <2> QED
    BY <2>1, <2>2
<1> QED
  BY <1>1, <1>4

\* Adding up, one index at a time.
LEMMA SumStep ==
    ASSUME NEW I, IsFiniteSet(I), NEW w, \A x \in I : w[x] \in Int
    PROVE  /\ Sum(w, I) \in Int
           /\ \A x \in I : Sum(w, I) = w[x] + Sum(w, I \ {x})
           /\ I = {} => Sum(w, I) = 0
<1>1. PICK g : Unfolds(g, w, SUBSET I) /\ Sum(w, I) = g[I]
  BY SumFolds
<1>2. /\ \A s \in SUBSET I : g[s] \in Int /\ \A x \in s : g[s] = w[x] + g[s \ {x}]
      /\ g[{}] = 0
  BY <1>1, Unordered
<1>3. ASSUME NEW x \in I PROVE g[I \ {x}] = Sum(w, I \ {x})
  <2> DEFINE J == I \ {x}
  <2>1. J \in SUBSET I /\ IsFiniteSet(J)
    BY FS_Subset
  <2> HIDE DEF J
  <2>2. PICK h : Unfolds(h, w, SUBSET J) /\ Sum(w, J) = h[J]
    BY <2>1, SumFolds
  <2>3. Unfolds(g, w, SUBSET J)
    <3>1. SUBSET J \subseteq SUBSET I
      BY <2>1
    <3> QED
      BY <1>1, <3>1, Zenon DEF Unfolds
  <2>4. \A s \in SUBSET J : g[s] = h[s]
    BY <2>1, <2>2, <2>3, SameWeights
  <2>5. g[J] = Sum(w, J)
    BY <2>2, <2>4
  <2> QED
    BY <2>5 DEF J
<1> QED
  BY <1>1, <1>2, <1>3

\* Equal weights, equal sums.
LEMMA SumSame ==
    ASSUME NEW I, IsFiniteSet(I), NEW w, NEW v, \A x \in I : w[x] = v[x]
    PROVE  Sum(w, I) = Sum(v, I)
BY DEF Sum

LEMMA SetInd ==
    ASSUME NEW I, IsFiniteSet(I), NEW Q \in SUBSET SUBSET I, {} \in Q,
           \A s \in SUBSET I : \A x \in s : s \ {x} \in Q => s \in Q
    PROVE  \A s \in SUBSET I : s \in Q
<1> DEFINE P == {n \in Nat : \A s \in SUBSET I : Cardinality(s) <= n => s \in Q}
<1>1. 0 \in P
  <2> SUFFICES ASSUME NEW s \in SUBSET I, Cardinality(s) <= 0
               PROVE  s = {}
    OBVIOUS
  <2>1. IsFiniteSet(s) /\ Cardinality(s) \in Nat
    BY FS_Subset, FS_CardinalityType
  <2> QED
    BY <2>1, FS_EmptySet
<1>2. \A n \in P : n + 1 \in P
  <2> SUFFICES ASSUME NEW n \in P, NEW s \in SUBSET I, Cardinality(s) <= n + 1
               PROVE  s \in Q
    <3>1. \A n \in P : n + 1 \in Nat
      OBVIOUS
    <3> QED
      BY <3>1
  <2>n. n \in Nat
    OBVIOUS
  <2>0. \A r \in SUBSET I : Cardinality(r) <= n => r \in Q
    OBVIOUS
  <2> HIDE DEF P
  <2> SUFFICES ASSUME NEW x \in s PROVE s \in Q
    OBVIOUS
  <2>1. s \ {x} \in SUBSET I /\ Cardinality(s \ {x}) <= n
    BY <2>n, Smaller
  <2>2. s \ {x} \in Q
    BY <2>0, <2>1
  <2> QED
    BY <2>2
<1>3. \A n \in Nat : n \in P
  <2> HIDE DEF P
  <2> QED
    BY <1>1, <1>2, NatInd DEF P
<1>4. \A s \in SUBSET I : \E n \in Nat : Cardinality(s) <= n
  BY FS_Subset, FS_CardinalityType
<1> QED
  BY <1>3, <1>4

LEMMA SumNat ==
    ASSUME NEW I, IsFiniteSet(I), NEW w, \A x \in I : w[x] \in Nat
    PROVE  /\ Sum(w, I) \in Nat
           /\ \A x \in I : w[x] <= Sum(w, I)
<1> DEFINE Q == {s \in SUBSET I : Sum(w, s) \in Nat}
<1>0. \A s \in SUBSET I : IsFiniteSet(s)
  BY FS_Subset
<1>1. {} \in Q
  <2>1. Sum(w, {}) = 0
    BY <1>0, SumStep
  <2> QED
    BY <2>1
<1>2. ASSUME NEW s \in SUBSET I, NEW x \in s PROVE Sum(w, s) = w[x] + Sum(w, s \ {x})
  BY <1>0, SumStep
<1>3. ASSUME NEW s \in SUBSET I, NEW x \in s, s \ {x} \in Q PROVE s \in Q
  <2>1. Sum(w, s \ {x}) \in Nat
    BY <1>3
  <2>2. w[x] \in Nat
    OBVIOUS
  <2> QED
    BY <1>2, <2>1, <2>2
<1>4. \A s \in SUBSET I : s \in Q
  <2> HIDE DEF Q
  <2> QED
    BY <1>1, <1>3, SetInd DEF Q
<1>5. ASSUME NEW x \in I PROVE w[x] <= Sum(w, I)
  <2>1. Sum(w, I) = w[x] + Sum(w, I \ {x})
    BY <1>2
  <2>2. I \ {x} \in SUBSET I
    OBVIOUS
  <2>3. Sum(w, I \ {x}) \in Nat /\ w[x] \in Nat
    BY <1>4, <2>2
  <2> QED
    BY <2>1, <2>3
<1> QED
  BY <1>4, <1>5

\* Sums over disjoint sets add up.
LEMMA SumSplit ==
    ASSUME NEW A, IsFiniteSet(A), NEW B, IsFiniteSet(B), A \cap B = {}, NEW w,
           \A x \in A \cup B : w[x] \in Int
    PROVE  Sum(w, A \cup B) = Sum(w, A) + Sum(w, B)
<1> DEFINE Q == {s \in SUBSET B : Sum(w, A \cup s) = Sum(w, A) + Sum(w, s)}
<1>0. \A s \in SUBSET B : IsFiniteSet(s) /\ IsFiniteSet(A \cup s)
  BY FS_Subset, FS_Union
<1>a. Sum(w, A) \in Int
  BY SumStep
<1>1. {} \in Q
  <2>1. Sum(w, {}) = 0
    BY <1>0, SumStep
  <2> QED
    BY <2>1, <1>a
<1>2. ASSUME NEW s \in SUBSET B, NEW x \in s, s \ {x} \in Q PROVE s \in Q
  <2>1. Sum(w, s) = w[x] + Sum(w, s \ {x}) /\ Sum(w, s) \in Int
    BY <1>0, SumStep
  <2>2. Sum(w, A \cup s) = w[x] + Sum(w, (A \cup s) \ {x})
    <3> DEFINE C == A \cup s
    <3>1. IsFiniteSet(C) /\ x \in C /\ \A y \in C : w[y] \in Int
      BY <1>0
    <3> HIDE DEF C
    <3>2. Sum(w, C) = w[x] + Sum(w, C \ {x})
      BY <3>1, SumStep
    <3> QED
      BY <3>2 DEF C
  <2>3. (A \cup s) \ {x} = A \cup (s \ {x})
    OBVIOUS
  <2>4. Sum(w, A \cup (s \ {x})) = Sum(w, A) + Sum(w, s \ {x})
    BY <1>2
  <2>5. Sum(w, s \ {x}) \in Int /\ w[x] \in Int
    <3>1. IsFiniteSet(s \ {x})
      BY <1>0
    <3> QED
      BY <3>1, SumStep
  <2>6. Sum(w, A \cup s) = w[x] + (Sum(w, A) + Sum(w, s \ {x}))
    BY <2>2, <2>3, <2>4
  <2> QED
    BY <1>a, <2>1, <2>5, <2>6
<1>3. \A s \in SUBSET B : s \in Q
  <2> HIDE DEF Q
  <2> QED
    BY <1>1, <1>2, SetInd DEF Q
<1> QED
  BY <1>3

LEMMA SumGrows ==
    ASSUME NEW I, IsFiniteSet(I), NEW w, \A x \in I : w[x] \in Nat, NEW J \in SUBSET I
    PROVE  Sum(w, J) \in Nat /\ Sum(w, I) \in Nat /\ Sum(w, J) <= Sum(w, I)
<1> DEFINE K == I \ J
<1>1. IsFiniteSet(J) /\ IsFiniteSet(K) /\ J \cap K = {} /\ J \cup K = I
  BY FS_Subset
<1>2. \A x \in K : w[x] \in Nat
  OBVIOUS
<1> HIDE DEF K
<1>3. Sum(w, I) = Sum(w, J) + Sum(w, K)
  BY <1>1, SumSplit
<1>4. Sum(w, J) \in Nat /\ Sum(w, K) \in Nat
  BY <1>1, <1>2, SumNat
<1> QED
  BY <1>3, <1>4

\* Averages lie between the bounds of what they are averages of.
LEMMA SumBetween ==
    ASSUME NEW I, IsFiniteSet(I), NEW w, NEW v, NEW lo \in Int, NEW hi \in Int,
           \A x \in I : /\ w[x] \in Int /\ v[x] \in Int
                       /\ lo * w[x] <= v[x] /\ v[x] <= hi * w[x]
    PROVE  lo * Sum(w, I) <= Sum(v, I) /\ Sum(v, I) <= hi * Sum(w, I)
<1> DEFINE Fine(s) == lo * Sum(w, s) <= Sum(v, s) /\ Sum(v, s) <= hi * Sum(w, s)
           Q == {s \in SUBSET I : Fine(s)}
<1>0. \A s \in SUBSET I : IsFiniteSet(s)
  BY FS_Subset
<1>1. {} \in Q
  <2>1. Sum(w, {}) = 0 /\ Sum(v, {}) = 0
    BY <1>0, SumStep
  <2> QED
    BY <2>1
<1>2. ASSUME NEW s \in SUBSET I, NEW x \in s, s \ {x} \in Q PROVE s \in Q
  <2> DEFINE a == Sum(w, s \ {x})
             b == Sum(v, s \ {x})
  <2>1. Sum(w, s) = w[x] + a /\ Sum(v, s) = v[x] + b
    BY <1>0, SumStep
  <2>2. a \in Int /\ b \in Int
    <3>1. IsFiniteSet(s \ {x})
      BY <1>0
    <3> QED
      BY <3>1, SumStep
  <2>3. lo * a <= b /\ b <= hi * a
    BY <1>2
  <2>4. w[x] \in Int /\ v[x] \in Int /\ lo * w[x] <= v[x] /\ v[x] <= hi * w[x]
    OBVIOUS
  <2> HIDE DEF a, b
  <2>5. lo * (w[x] + a) = lo * w[x] + lo * a /\ hi * (w[x] + a) = hi * w[x] + hi * a
    BY <2>2, <2>4
  <2>6. lo * w[x] \in Int /\ lo * a \in Int /\ hi * w[x] \in Int /\ hi * a \in Int
    BY <2>2, <2>4
  <2>7. lo * (w[x] + a) <= v[x] + b /\ v[x] + b <= hi * (w[x] + a)
    BY <2>2, <2>3, <2>4, <2>5, <2>6
  <2> QED
    BY <2>1, <2>7
<1>3. \A s \in SUBSET I : s \in Q
  <2> HIDE DEF Q
  <2> QED
    BY <1>1, <1>2, SetInd DEF Q
<1> QED
  BY <1>3

\* Sums of one set of weights through the eyes of another set of indices.
LEMMA SumOver ==
    ASSUME NEW I, IsFiniteSet(I), NEW f, \A x, y \in I : f[x] = f[y] => x = y,
           NEW w, \A x \in I : w[f[x]] \in Int
    PROVE  Sum([x \in I |-> w[f[x]]], I) = Sum(w, {f[x] : x \in I})
<1> DEFINE v == [x \in I |-> w[f[x]]]
           Image(s) == {f[x] : x \in s}
           Q == {s \in SUBSET I : IsFiniteSet(Image(s)) /\ Sum(v, s) = Sum(w, Image(s))}
<1>0. \A s \in SUBSET I : IsFiniteSet(s)
  BY FS_Subset
<1>1. {} \in Q
  <2>1. Image({}) = {} /\ IsFiniteSet({})
    BY <1>0
  <2>2. Sum(v, {}) = 0 /\ Sum(w, {}) = 0
    BY <2>1, SumStep
  <2> QED
    BY <2>1, <2>2
<1>2. ASSUME NEW s \in SUBSET I, NEW x \in s, s \ {x} \in Q PROVE s \in Q
  <2> DEFINE J == Image(s)
             r == s \ {x}
  <2>1. J = Image(r) \cup {f[x]}
    OBVIOUS
  <2>2. f[x] \notin Image(r) /\ f[x] \in J /\ Image(r) = J \ {f[x]}
    OBVIOUS
  <2>3. IsFiniteSet(Image(r)) /\ Sum(v, r) = Sum(w, Image(r))
    BY <1>2
  <2>4. IsFiniteSet(J)
    <3> HIDE DEF J, Image, r
    <3> QED
      BY <2>1, <2>3, FS_AddElement
  <2>5. \A y \in J : w[y] \in Int
    OBVIOUS
  <2>6. \A y \in s : v[y] \in Int
    OBVIOUS
  <2>7. Sum(w, J) = w[f[x]] + Sum(w, J \ {f[x]})
    <3> HIDE DEF J
    <3> QED
      BY <2>2, <2>4, <2>5, SumStep
  <2>8. Sum(v, s) = v[x] + Sum(v, r)
    <3> HIDE DEF v
    <3> QED
      BY <1>0, <2>6, SumStep
  <2>9. v[x] = w[f[x]]
    OBVIOUS
  <2>10. Sum(v, s) = Sum(w, J)
    <3> HIDE DEF v, J, Image, r
    <3> QED
      BY <2>2, <2>3, <2>7, <2>8, <2>9
  <2> HIDE DEF v
  <2> QED
    BY <2>4, <2>10
<1>3. \A s \in SUBSET I : s \in Q
  <2> HIDE DEF Q
  <2> QED
    BY <1>1, <1>2, SetInd DEF Q
<1> QED
  BY <1>3

\* A sum of sums over disjoint sets is a sum over all of them.
LEMMA SumFlat ==
    ASSUME NEW I, IsFiniteSet(I), NEW K, IsFiniteSet(K), NEW B \in [K -> SUBSET I],
           \A j, k \in K : j # k => B[j] \cap B[k] = {},
           NEW w, \A x \in I : w[x] \in Int
    PROVE  Sum([k \in K |-> Sum(w, B[k])], K) = Sum(w, UNION {B[k] : k \in K})
<1> DEFINE v == [k \in K |-> Sum(w, B[k])]
           All(s) == UNION {B[k] : k \in s}
           Q == {s \in SUBSET K : Sum(v, s) = Sum(w, All(s))}
<1>0. \A s \in SUBSET K : IsFiniteSet(s)
  BY FS_Subset
<1>a. \A s \in SUBSET K : All(s) \in SUBSET I
  OBVIOUS
<1>b. \A J \in SUBSET I : IsFiniteSet(J) /\ Sum(w, J) \in Int
  <2> SUFFICES ASSUME NEW J \in SUBSET I PROVE IsFiniteSet(J) /\ Sum(w, J) \in Int
    OBVIOUS
  <2>1. IsFiniteSet(J) /\ \A x \in J : w[x] \in Int
    BY FS_Subset
  <2> QED
    BY <2>1, SumStep
<1>1. {} \in Q
  <2>1. All({}) = {} /\ IsFiniteSet({})
    BY <1>0
  <2>2. Sum(v, {}) = 0 /\ Sum(w, {}) = 0
    BY <2>1, SumStep
  <2> QED
    BY <2>1, <2>2
<1>2. ASSUME NEW s \in SUBSET K, NEW k \in s, s \ {k} \in Q PROVE s \in Q
  <2> DEFINE r == s \ {k}
             R == All(r)
  <2>1. All(s) = R \cup B[k]
    OBVIOUS
  <2>2. R \cap B[k] = {}
    OBVIOUS
  <2>3. R \in SUBSET I /\ B[k] \in SUBSET I
    BY <1>a
  <2>4. Sum(v, r) = Sum(w, R)
    BY <1>2
  <2>5. \A j \in s : v[j] \in Int
    BY <1>b
  <2>6. v[k] = Sum(w, B[k])
    OBVIOUS
  <2>7. Sum(v, s) = v[k] + Sum(v, r)
    <3> HIDE DEF v
    <3> QED
      BY <1>0, <2>5, SumStep
  <2> HIDE DEF R, v, r
  <2>8. Sum(w, R \cup B[k]) = Sum(w, R) + Sum(w, B[k])
    BY <1>b, <2>2, <2>3, SumSplit
  <2>9. Sum(w, R) \in Int /\ Sum(w, B[k]) \in Int
    BY <1>b, <2>3
  <2>10. Sum(v, s) = Sum(w, R \cup B[k])
    BY <2>4, <2>6, <2>7, <2>8, <2>9
  <2>11. Sum(v, s) = Sum(w, All(s))
    BY <2>1, <2>10
  <2> HIDE DEF All
  <2> QED
    BY <2>11
<1>3. \A s \in SUBSET K : s \in Q
  <2> HIDE DEF Q
  <2> QED
    BY <1>1, <1>2, SetInd DEF Q
<1> QED
  BY <1>3

----------------------------------------------------------------------------
(* The k-th smallest element *)

Below(S, x) == {y \in S : y < x}

LEMMA Ranks ==
    ASSUME NEW S \in SUBSET Int, IsFiniteSet(S)
    PROVE  /\ Cardinality(S) \in Nat
           /\ \A x \in S : Cardinality(Below(S, x)) \in 0..(Cardinality(S) - 1)
           /\ \A x, y \in S : x < y => Cardinality(Below(S, x)) < Cardinality(Below(S, y))
           /\ \A r \in 0..(Cardinality(S) - 1) : \E x \in S : Cardinality(Below(S, x)) = r
<1> DEFINE rank == [x \in S |-> Cardinality(Below(S, x))]
           n == Cardinality(S)
<1>1. n \in Nat
  BY FS_CardinalityType
<1>2. ASSUME NEW x \in S PROVE IsFiniteSet(Below(S, x)) /\ Cardinality(Below(S, x)) \in Nat
  <2>1. Below(S, x) \in SUBSET S
    BY DEF Below
  <2> QED
    BY <2>1, FS_Subset, FS_CardinalityType
<1>3. ASSUME NEW x \in S, NEW T \in SUBSET S, x \in T, Below(S, x) \subseteq T
      PROVE  Cardinality(Below(S, x)) < Cardinality(T)
  <2>1. x \notin Below(S, x)
    BY DEF Below
  <2>2. Below(S, x) \cup {x} \in SUBSET T
    BY <1>3
  <2>3. IsFiniteSet(T) /\ Cardinality(T) \in Nat
    BY FS_Subset, FS_CardinalityType
  <2>4. Cardinality(Below(S, x) \cup {x}) = Cardinality(Below(S, x)) + 1
    BY <1>2, <2>1, FS_AddElement
  <2>5. Cardinality(Below(S, x) \cup {x}) <= Cardinality(T)
    BY <2>2, <2>3, FS_Subset
  <2> QED
    BY <1>2, <2>3, <2>4, <2>5
<1>4. ASSUME NEW x \in S PROVE Cardinality(Below(S, x)) \in 0..(n - 1)
  <2>1. Cardinality(Below(S, x)) < n
    BY <1>3 DEF Below
  <2> HIDE DEF n
  <2> QED
    BY <1>1, <1>2, <2>1
<1>5. ASSUME NEW x \in S, NEW y \in S, x < y
      PROVE  Cardinality(Below(S, x)) < Cardinality(Below(S, y))
  <2>1. Below(S, y) \in SUBSET S /\ x \in Below(S, y) /\ Below(S, x) \subseteq Below(S, y)
    <3>1. ASSUME NEW z \in S, z < x PROVE z < y
      <4>1. z \in Int /\ x \in Int /\ y \in Int
        OBVIOUS
      <4> QED
        BY <1>5, <3>1, <4>1
    <3> QED
      BY <1>5, <3>1 DEF Below
  <2> QED
    BY <1>3, <2>1
<1>6. rank \in [S -> 0..(n - 1)]
  BY <1>4
<1>7. \A x, y \in S : rank[x] = rank[y] => x = y
  <2> SUFFICES ASSUME NEW x \in S, NEW y \in S, x # y
               PROVE  rank[x] # rank[y]
    OBVIOUS
  <2>1. x < y \/ y < x
    OBVIOUS
  <2> QED
    BY <1>2, <1>5, <2>1
<1>8. rank \in Injection(S, 0..(n - 1))
  <2> HIDE DEF rank, n
  <2> QED
    BY <1>6, <1>7 DEF Injection, IsInjective
<1>9. IsFiniteSet(0..(n - 1)) /\ Cardinality(0..(n - 1)) = n
  <2> HIDE DEF n
  <2>1. n - 1 \in Int /\ 0 \in Int
    BY <1>1
  <2>2. IsFiniteSet(0..(n - 1))
        /\ Cardinality(0..(n - 1)) = IF 0 > n - 1 THEN 0 ELSE (n - 1) - 0 + 1
    BY <2>1, FS_Interval
  <2> QED
    BY <1>1, <2>2
<1>10. rank \in Surjection(S, 0..(n - 1))
  <2> HIDE DEF rank
  <2> QED
    BY <1>8, <1>9, FS_Injection
<1>11. \A r \in 0..(n - 1) : \E x \in S : rank[x] = r
  <2> HIDE DEF rank, n
  <2> QED
    BY <1>10 DEF Surjection
<1> QED
  BY <1>1, <1>4, <1>5, <1>11

LEMMA NthIs ==
    ASSUME NEW S \in SUBSET Int, IsFiniteSet(S)
    PROVE  /\ Cardinality(S) \in Nat
           /\ \A k \in 1..Cardinality(S) :
                 Nth(S, k) \in S /\ Cardinality(Below(S, Nth(S, k))) = k - 1
           /\ \A j, k \in 1..Cardinality(S) : j < k => Nth(S, j) < Nth(S, k)
           /\ \A x \in S : \E k \in 1..Cardinality(S) : x = Nth(S, k)
<1> DEFINE n == Cardinality(S)
           R(x) == Cardinality(Below(S, x))
<1>1. /\ n \in Nat
      /\ \A x \in S : R(x) \in 0..(n - 1)
      /\ \A x, y \in S : x < y => R(x) < R(y)
      /\ \A r \in 0..(n - 1) : \E x \in S : R(x) = r
  BY Ranks
<1> HIDE DEF n
<1>2. \A k \in 1..n : k - 1 \in 0..(n - 1) /\ k \in Int
  BY <1>1
<1>3. \A k : Nth(S, k) = CHOOSE x \in S : R(x) = k - 1
  BY DEF Nth, Below
<1>4. ASSUME NEW k \in 1..n PROVE Nth(S, k) \in S /\ R(Nth(S, k)) = k - 1
  <2>1. \E x \in S : R(x) = k - 1
    BY <1>1, <1>2
  <2> HIDE DEF R
  <2> QED
    BY <1>3, <2>1
<1> HIDE DEF R
<1>5. ASSUME NEW j \in 1..n, NEW k \in 1..n, j < k PROVE Nth(S, j) < Nth(S, k)
  <2>1. Nth(S, j) \in S /\ Nth(S, k) \in S /\ R(Nth(S, j)) = j - 1 /\ R(Nth(S, k)) = k - 1
    BY <1>4
  <2>2. Nth(S, j) \in Int /\ Nth(S, k) \in Int
    BY <2>1
  <2>3. CASE Nth(S, k) = Nth(S, j)
    <3>1. j - 1 = k - 1
      BY <2>1, <2>3
    <3> QED
      BY <3>1, <1>1, <1>5
  <2>4. CASE Nth(S, k) < Nth(S, j)
    <3>1. R(Nth(S, k)) < R(Nth(S, j))
      BY <1>1, <2>1, <2>4
    <3>2. k - 1 < j - 1
      BY <2>1, <3>1
    <3> QED
      BY <3>2, <1>1, <1>5
  <2> QED
    BY <2>2, <2>3, <2>4
<1>6. ASSUME NEW x \in S PROVE \E k \in 1..n : x = Nth(S, k)
  <2> DEFINE k == R(x) + 1
  <2>1. k \in 1..n /\ k - 1 = R(x)
    BY <1>1
  <2>2. Nth(S, k) \in S /\ R(Nth(S, k)) = R(x)
    BY <1>4, <2>1
  <2>3. x \in Int /\ Nth(S, k) \in Int
    BY <2>2
  <2>4. R(x) \in Int
    BY <1>1
  <2> DEFINE y == Nth(S, k)
  <2>5. y \in S /\ R(y) = R(x) /\ ~ (R(x) < R(y)) /\ ~ (R(y) < R(x))
    BY <2>2, <2>4
  <2> HIDE DEF y
  <2>6. ~ (x < y) /\ ~ (y < x)
    BY <1>1, <2>5
  <2> QED
    BY <2>1, <2>3, <2>6 DEF y
<1> QED
  BY <1>1, <1>4, <1>5, <1>6 DEF n, R

----------------------------------------------------------------------------
(* Integers *)

LEMMA Quotient ==
    ASSUME NEW a \in Int, NEW d \in Nat \ {0}
    PROVE  /\ a \div d \in Int
           /\ d * (a \div d) <= a
           /\ a < d * (a \div d) + d
OBVIOUS

LEMMA QuotientIs ==
    ASSUME NEW a \in Int, NEW d \in Nat \ {0}, NEW q \in Int, d * q <= a, a < d * q + d
    PROVE  a \div d = q
<1> DEFINE p == a \div d
<1>1. p \in Int /\ d * p <= a /\ a < d * p + d
  BY Quotient
<1> HIDE DEF p
<1>2. d * p < d * q + d /\ d * q < d * p + d
  BY <1>1
<1>3. ASSUME p >= q + 1 PROVE FALSE
  <2>1. d * p >= d * (q + 1) /\ d * (q + 1) = d * q + d
    BY <1>1, <1>3
  <2> QED
    BY <1>1, <1>2, <2>1
<1>4. ASSUME q >= p + 1 PROVE FALSE
  <2>1. d * q >= d * (p + 1) /\ d * (p + 1) = d * p + d
    BY <1>1, <1>4
  <2> QED
    BY <1>1, <1>2, <2>1
<1> QED
  BY <1>1, <1>3, <1>4 DEF p

\* Division keeps bounds.
LEMMA QuotientBetween ==
    ASSUME NEW a \in Int, NEW d \in Nat \ {0}, NEW lo \in Int, NEW hi \in Int,
           lo * d <= a, a <= hi * d
    PROVE  lo <= a \div d /\ a \div d <= hi
<1> DEFINE p == a \div d
<1>1. p \in Int /\ d * p <= a /\ a < d * p + d
  BY Quotient
<1> HIDE DEF p
<1>2. ASSUME lo >= p + 1 PROVE FALSE
  <2>1. d * lo >= d * (p + 1) /\ d * (p + 1) = d * p + d /\ d * lo = lo * d
    BY <1>1, <1>2
  <2> QED
    BY <1>1, <2>1
<1>3. ASSUME p >= hi + 1 PROVE FALSE
  <2>1. d * p >= d * (hi + 1) /\ d * (hi + 1) = d * hi + d /\ d * hi = hi * d
    BY <1>1, <1>3
  <2> QED
    BY <1>1, <2>1
<1> QED
  BY <1>1, <1>2, <1>3 DEF p

LEMMA QuotientNat ==
    ASSUME NEW a \in Nat, NEW d \in Nat \ {0}
    PROVE  a \div d \in Nat /\ a \div d <= a /\ a <= a * d
<1>1. 0 * d <= a /\ a <= a * d
  OBVIOUS
<1> QED
  BY <1>1, QuotientBetween, Quotient

\* What fits int64 stays as it is.
LEMMA WrapFits ==
    ASSUME NEW x \in Int, -MaxInt <= x, x <= MaxInt
    PROVE  Wrap(x) = x
<1> DEFINE m == MaxInt + 1
<1>1. m \in Nat \ {0} /\ x + m \in Int /\ 0 <= x + m /\ x + m < 2 * m /\ x + MaxInt + 1 = x + m
  BY LevelsAssumption
<1> HIDE DEF m
<1>2. (x + m) % (2 * m) = x + m
  BY <1>1
<1>3. Wrap(x) = ((x + m) % (2 * m)) - m
  BY <1>1 DEF Wrap, m
<1> QED
  BY <1>1, <1>2, <1>3

\* What is wrapped is an int64.
LEMMA WrapInt == ASSUME NEW x \in Int PROVE Wrap(x) \in Int64
<1> DEFINE d == 2 * (MaxInt + 1)
           y == x + MaxInt + 1
<1>1. d \in Nat \ {0} /\ y \in Int
  BY LevelsAssumption
<1> HIDE DEF d, y
<1>2. y % d \in 0..(d - 1)
  BY <1>1
<1>3. Wrap(x) = (y % d) - (MaxInt + 1)
  BY DEF Wrap, d, y
<1>4. d - 1 - (MaxInt + 1) = MaxInt
  BY LevelsAssumption DEF d
<1> QED
  BY <1>1, <1>2, <1>3, <1>4, LevelsAssumption DEF Int64

\* An int64 is an integer, and a level is a level that has been merged.
LEMMA Integral ==
    /\ Int64 \subseteq Int
    /\ Level \subseteq Merged
    /\ 1..MaxInt \subseteq Nat \ {0}
<1>1. MaxInt \in Nat
  BY LevelsAssumption
<1>2. Int64 \subseteq Int /\ 1..MaxInt \subseteq Int64 /\ 1..MaxInt \subseteq Nat \ {0}
  BY <1>1 DEF Int64
<1> QED
  BY <1>2 DEF Level, Merged

----------------------------------------------------------------------------
(* One side of the book, and filterOutliers *)

\* What the database answers: levels by price, every order with an amount.
Side(levels) ==
    /\ levels \in Seq(Level)
    /\ Ascending(levels)
    /\ \A i \in DOMAIN levels : levels[i].orders <= levels[i].amount

LEMMA LevelIs ==
    ASSUME NEW levels \in Seq(Level)
    PROVE  /\ Len(levels) \in Nat
           /\ DOMAIN levels = 1..Len(levels)
           /\ IsFiniteSet(DOMAIN levels)
           /\ \A i \in 1..Len(levels) : /\ levels[i].price \in Nat
                                        /\ levels[i].amount \in Nat \ {0}
                                        /\ levels[i].orders \in Nat \ {0}
<1>1. Len(levels) \in Nat /\ DOMAIN levels = 1..Len(levels)
      /\ \A i \in 1..Len(levels) : levels[i] \in Level
  BY LenProperties, ElementOfSeq
<1>2. IsFiniteSet(1..Len(levels))
  BY <1>1, FS_Interval
<1> QED
  BY <1>1, <1>2, Integral DEF Level

\* The weights that are added up.
Amounts(levels) == [i \in DOMAIN levels |-> levels[i].amount]
Counts(levels) == [i \in DOMAIN levels |-> levels[i].orders]
Values(levels) == [i \in DOMAIN levels |-> levels[i].price * levels[i].amount]

LEMMA SumsAre ==
    ASSUME NEW levels, NEW I \in SUBSET DOMAIN levels
    PROVE  /\ Total(levels, I) = Sum(Amounts(levels), I)
           /\ Orders(levels, I) = Sum(Counts(levels), I)
           /\ Value(levels, I) = Sum(Values(levels), I)
<1>1. /\ [i \in I |-> levels[i].amount] = [i \in I |-> Amounts(levels)[i]]
      /\ [i \in I |-> levels[i].orders] = [i \in I |-> Counts(levels)[i]]
      /\ [i \in I |-> levels[i].price * levels[i].amount] = [i \in I |-> Values(levels)[i]]
  BY DEF Amounts, Counts, Values
<1> QED
  BY <1>1, Zenon DEF Total, Orders, Value, Sum

LEMMA WeightsNat ==
    ASSUME NEW levels \in Seq(Level), NEW i \in DOMAIN levels
    PROVE  /\ Amounts(levels)[i] = levels[i].amount /\ Amounts(levels)[i] \in Nat \ {0}
           /\ Counts(levels)[i] = levels[i].orders /\ Counts(levels)[i] \in Nat \ {0}
           /\ Values(levels)[i] = levels[i].price * levels[i].amount /\ Values(levels)[i] \in Nat
<1>1. levels[i].price \in Nat /\ levels[i].amount \in Nat \ {0} /\ levels[i].orders \in Nat \ {0}
  BY LevelIs
<1>2. levels[i].price * levels[i].amount \in Nat
  BY <1>1
<1> QED
  BY <1>1, <1>2 DEF Amounts, Counts, Values

\* Sums over a part of a side are sums of natural numbers.
LEMMA SumsNat ==
    ASSUME NEW levels \in Seq(Level), NEW I \in SUBSET DOMAIN levels
    PROVE  /\ IsFiniteSet(I)
           /\ Total(levels, I) \in Nat /\ Orders(levels, I) \in Nat /\ Value(levels, I) \in Nat
           /\ Total(levels, I) <= Total(levels, DOMAIN levels)
           /\ I # {} => Total(levels, I) > 0
<1>1. IsFiniteSet(DOMAIN levels) /\ IsFiniteSet(I)
  BY LevelIs, FS_Subset
<1>2. \A i \in DOMAIN levels : Amounts(levels)[i] \in Nat \ {0} /\ Counts(levels)[i] \in Nat
                                /\ Values(levels)[i] \in Nat
  BY WeightsNat
<1>3. Sum(Amounts(levels), I) \in Nat
      /\ Sum(Amounts(levels), I) <= Sum(Amounts(levels), DOMAIN levels)
  BY <1>1, <1>2, SumGrows
<1>4. Sum(Counts(levels), I) \in Nat /\ Sum(Values(levels), I) \in Nat
  <2>1. \A i \in I : Counts(levels)[i] \in Nat /\ Values(levels)[i] \in Nat
    BY <1>2
  <2> QED
    BY <1>1, <2>1, SumNat
<1>5. ASSUME NEW i \in I PROVE Sum(Amounts(levels), I) > 0
  <2>1. \A j \in I : Amounts(levels)[j] \in Nat
    BY <1>2
  <2>2. Amounts(levels)[i] <= Sum(Amounts(levels), I)
    BY <1>1, <2>1, SumNat
  <2>3. Amounts(levels)[i] \in Nat \ {0}
    BY <1>2
  <2> QED
    BY <1>3, <2>2, <2>3
<1> QED
  BY <1>1, <1>3, <1>4, <1>5, SumsAre

LEMMA MinIs ==
    ASSUME NEW S \in SUBSET Nat, S # {}
    PROVE  Min(S) \in S /\ \A x \in S : Min(S) <= x
<1>1. PICK x \in S : \A y \in S : ~ (<<y, x>> \in OpToRel(<, Nat))
  BY NatLessThanWellFounded, WFMin
<1>2. \A y \in S : x <= y
  <2> SUFFICES ASSUME NEW y \in S PROVE x <= y
    OBVIOUS
  <2>1. x \in Nat /\ y \in Nat
    OBVIOUS
  <2>2. ~ (y < x)
    BY <1>1, <2>1 DEF OpToRel
  <2> QED
    BY <2>1, <2>2
<1> QED
  BY <1>2 DEF Min

\* The median is the price of some level.
LEMMA MedianIs ==
    ASSUME NEW levels \in Seq(Level), levels # <<>>
    PROVE  \E i \in DOMAIN levels : Median(levels) = levels[i].price
<1> DEFINE total == Wrap(Total(levels, DOMAIN levels))
           crossing == {i \in DOMAIN levels : Wrap(Total(levels, 1..i)) >= total \div 2}
           n == Len(levels)
<1>1. n \in Nat \ {0} /\ DOMAIN levels = 1..n
  BY LevelIs, EmptySeq
<1>2. ASSUME crossing # {} PROVE Min(crossing) \in DOMAIN levels
  <2>1. crossing \in SUBSET Nat
    BY <1>1
  <2> QED
    BY <1>2, <2>1, MinIs
<1>3. n \div 2 + 1 \in 1..n
  <2> HIDE DEF n
  <2> QED
    BY <1>1
<1>4. Median(levels) = IF total > 0 /\ crossing # {} THEN levels[Min(crossing)].price
                       ELSE levels[n \div 2 + 1].price
  BY DEF Median
<1> HIDE DEF total, crossing, n
<1> QED
  BY <1>1, <1>2, <1>3, <1>4

Kept(levels) == {i \in DOMAIN levels : Plausible(levels[i].price, Median(levels))}

\* The median is plausible itself: the filter leaves something.
LEMMA KeptSome ==
    ASSUME NEW levels \in Seq(Level), levels # <<>>
    PROVE  Kept(levels) # {}
<1>1. PICK i \in DOMAIN levels : Median(levels) = levels[i].price
  BY MedianIs
<1>2. levels[i].price \in Nat
  BY LevelIs
<1>3. Plausible(levels[i].price, levels[i].price)
  <2> DEFINE p == levels[i].price
  <2>1. p \in Nat /\ OutlierFactor \in Nat \ {0}
    BY <1>2, LevelsAssumption
  <2> HIDE DEF p
  <2>2. p \div OutlierFactor <= p /\ p <= p * OutlierFactor /\ p \div OutlierFactor \in Nat
    BY <2>1, QuotientNat
  <2>3. Plausible(p, p)
    BY <2>1, <2>2 DEF Plausible
  <2> QED
    BY <2>3 DEF p
<1> QED
  BY <1>1, <1>3 DEF Kept

\* The filter keeps levels in their order and adds nothing.
LEMMA FilterSide ==
    ASSUME NEW raw, Side(raw)
    PROVE  LET clean == FilterOutliers(raw)
           IN  /\ Side(clean)
               /\ raw # <<>> => clean # <<>>
               /\ Total(clean, DOMAIN clean) <= Total(raw, DOMAIN raw)
<1> DEFINE clean == FilterOutliers(raw)
           S == Kept(raw)
           m == Cardinality(S)
           n == Len(raw)
<1> SUFFICES ASSUME clean # raw
             PROVE  /\ Side(clean)
                    /\ raw # <<>> => clean # <<>>
                    /\ Total(clean, DOMAIN clean) <= Total(raw, DOMAIN raw)
  <2>1. Total(raw, DOMAIN raw) \in Nat
    BY SumsNat DEF Side
  <2> HIDE DEF clean
  <2> QED
    BY <2>1 DEF clean
<1>1. raw \in Seq(Level) /\ n \in Nat /\ DOMAIN raw = 1..n
      /\ \A i \in 1..n : raw[i] \in Level /\ raw[i].price \in Nat
  BY LevelIs, ElementOfSeq DEF Side
<1>2. clean = [k \in 1..m |-> raw[Nth(S, k)]]
  BY DEF FilterOutliers, Kept
<1>3. S \in SUBSET (1..n) /\ S \in SUBSET Int /\ IsFiniteSet(S)
  <2>1. S \in SUBSET (1..n) /\ S \in SUBSET Int
    BY <1>1 DEF Kept
  <2>2. IsFiniteSet(1..n)
    BY <1>1, FS_Interval
  <2> QED
    BY <2>1, <2>2, FS_Subset
<1> HIDE DEF S, n, clean
<1>4. /\ m \in Nat
      /\ \A k \in 1..m : Nth(S, k) \in S
      /\ \A j, k \in 1..m : j < k => Nth(S, j) < Nth(S, k)
  BY <1>3, NthIs
<1> HIDE DEF m
<1>5. \A k \in 1..m : Nth(S, k) \in 1..n
  BY <1>3, <1>4
<1>6. DOMAIN clean = 1..m /\ \A k \in 1..m : clean[k] = raw[Nth(S, k)]
  BY <1>2
<1>7. clean \in Seq(Level)
  <2>1. clean \in [1..m -> Level]
    BY <1>1, <1>2, <1>5
  <2> QED
    BY <1>4, <2>1, SeqDef
<1>8. Ascending(clean)
  <2> SUFFICES ASSUME NEW i \in 1..m, NEW j \in 1..m, i < j
               PROVE  clean[i].price < clean[j].price
    BY <1>6 DEF Ascending
  <2>1. Nth(S, i) < Nth(S, j) /\ Nth(S, i) \in 1..n /\ Nth(S, j) \in 1..n
    BY <1>4, <1>5
  <2>2. raw[Nth(S, i)].price < raw[Nth(S, j)].price
    BY <1>1, <2>1 DEF Side, Ascending
  <2> QED
    BY <1>6, <2>2
<1>9. \A k \in DOMAIN clean : clean[k].orders <= clean[k].amount
  <2>1. \A i \in 1..n : raw[i].orders <= raw[i].amount
    BY <1>1 DEF Side
  <2> QED
    BY <1>5, <1>6, <2>1
<1>10. raw # <<>> => clean # <<>>
  <2> SUFFICES ASSUME raw # <<>> PROVE clean # <<>>
    OBVIOUS
  <2>1. S # {}
    BY <1>1, KeptSome DEF S
  <2>2. m # 0
    BY <1>3, <2>1, FS_EmptySet DEF m
  <2>3. 1 \in DOMAIN clean
    BY <1>4, <1>6, <2>2
  <2> QED
    BY <2>3
<1>11. Total(clean, DOMAIN clean) <= Total(raw, DOMAIN raw)
  <2> DEFINE f == [k \in 1..m |-> Nth(S, k)]
             w == Amounts(raw)
             Image == {f[k] : k \in 1..m}
  <2>1. IsFiniteSet(1..m)
    BY <1>4, FS_Interval
  <2>2. \A j, k \in 1..m : f[j] = f[k] => j = k
    <3> SUFFICES ASSUME NEW j \in 1..m, NEW k \in 1..m, j # k PROVE Nth(S, j) # Nth(S, k)
      OBVIOUS
    <3>1. j < k \/ k < j
      OBVIOUS
    <3>2. Nth(S, j) \in Int /\ Nth(S, k) \in Int
      BY <1>5
    <3> QED
      BY <1>4, <3>1, <3>2
  <2>3. \A i \in 1..n : w[i] \in Nat /\ w[i] = raw[i].amount
    BY <1>1, WeightsNat
  <2>4. \A k \in 1..m : f[k] \in 1..n
    BY <1>5
  <2>5. \A k \in 1..m : w[f[k]] \in Int
    BY <2>3, <2>4
  <2>6. Amounts(clean) = [k \in 1..m |-> w[f[k]]]
    <3>1. Amounts(clean) = [k \in 1..m |-> clean[k].amount]
      BY <1>6 DEF Amounts
    <3>2. \A k \in 1..m : clean[k].amount = w[f[k]]
      BY <1>6, <2>3, <2>4
    <3> HIDE DEF w, f
    <3> QED
      BY <3>1, <3>2
  <2>7. Image \in SUBSET (1..n)
    BY <2>4
  <2> HIDE DEF w, f
  <2>8. Sum(Amounts(clean), 1..m) = Sum(w, Image)
    <3>1. Sum([k \in 1..m |-> w[f[k]]], 1..m) = Sum(w, Image)
      <4> DEFINE I == 1..m
      <4>1. IsFiniteSet(I) /\ (\A j, k \in I : f[j] = f[k] => j = k)
            /\ \A k \in I : w[f[k]] \in Int
        BY <2>1, <2>2, <2>5
      <4> HIDE DEF I
      <4>2. Sum([k \in I |-> w[f[k]]], I) = Sum(w, {f[k] : k \in I})
        BY <4>1, SumOver
      <4> QED
        BY <4>2 DEF I
    <3> QED
      BY <2>6, <3>1
  <2>9. Sum(w, Image) <= Sum(w, 1..n)
    <3> HIDE DEF Image
    <3>1. IsFiniteSet(1..n)
      BY <1>1, FS_Interval
    <3> QED
      BY <2>3, <2>7, <3>1, SumGrows
  <2> QED
    BY <1>1, <1>6, <2>8, <2>9, SumsAre DEF w
<1> QED
  BY <1>7, <1>8, <1>9, <1>10, <1>11 DEF Side

----------------------------------------------------------------------------
(* Buckets *)

\* A side that has to be merged.
Long(levels, l) == Side(levels) /\ l \in Nat \ {0} /\ Len(levels) > l

LEMMA SideIs ==
    ASSUME NEW levels, Side(levels)
    PROVE  /\ levels \in Seq(Level)
           /\ Len(levels) \in Nat
           /\ DOMAIN levels = 1..Len(levels)
           /\ \A i \in 1..Len(levels) : levels[i].price \in Nat
           /\ \A i, j \in 1..Len(levels) : i < j => levels[i].price < levels[j].price
<1>1. levels \in Seq(Level) /\ Ascending(levels)
  BY DEF Side
<1>2. Len(levels) \in Nat /\ DOMAIN levels = 1..Len(levels)
      /\ \A i \in 1..Len(levels) : levels[i].price \in Nat
  BY <1>1, LevelIs
<1> QED
  BY <1>1, <1>2 DEF Ascending

\* Prices are integers, so that they ascend by one at least.
LEMMA PriceGap ==
    ASSUME NEW levels, Side(levels)
    PROVE  \A i \in 1..Len(levels) : levels[i].price >= levels[1].price + (i - 1)
<1> DEFINE n == Len(levels)
           P == {k \in Nat : k + 1 \in 1..n => levels[k + 1].price >= levels[1].price + k}
<1>1. n \in Nat /\ (\A i \in 1..n : levels[i].price \in Nat)
      /\ \A i, j \in 1..n : i < j => levels[i].price < levels[j].price
  BY SideIs
<1> HIDE DEF n
<1>2. 0 \in P
  BY <1>1
<1>3. ASSUME NEW k \in P PROVE k + 1 \in P
  <2>1. k \in Nat /\ (k + 1 \in 1..n => levels[k + 1].price >= levels[1].price + k)
    OBVIOUS
  <2>2. ASSUME (k + 1) + 1 \in 1..n
        PROVE  levels[(k + 1) + 1].price >= levels[1].price + (k + 1)
    <3>1. k + 1 \in 1..n /\ 1 \in 1..n /\ k + 1 < (k + 1) + 1
      BY <1>1, <2>1, <2>2
    <3>2. levels[k + 1].price < levels[(k + 1) + 1].price
      BY <1>1, <2>2, <3>1
    <3>3. levels[k + 1].price \in Nat /\ levels[(k + 1) + 1].price \in Nat /\ levels[1].price \in Nat
      BY <1>1, <2>2, <3>1
    <3> QED
      BY <2>1, <3>1, <3>2, <3>3
  <2> QED
    BY <2>1, <2>2
<1>4. \A k \in Nat : k \in P
  <2> HIDE DEF P
  <2> QED
    BY <1>2, <1>3, NatInd DEF P
<1> SUFFICES ASSUME NEW i \in 1..n PROVE levels[i].price >= levels[1].price + (i - 1)
  BY DEF n
<1>5. i - 1 \in Nat /\ (i - 1) + 1 = i
  BY <1>1
<1> QED
  BY <1>4, <1>5

\* A bucket is at least one wide.
LEMMA TickIs ==
    ASSUME NEW levels, NEW l, Long(levels, l)
    PROVE  TickSize(levels, l) \in Nat \ {0}
<1> DEFINE n == Len(levels)
           d == levels[n].price - levels[1].price
<1>1. n \in Nat /\ l \in Nat \ {0} /\ l < n
      /\ levels[n].price \in Nat /\ levels[1].price \in Nat
      /\ levels[n].price >= levels[1].price + (n - 1)
  BY SideIs, PriceGap DEF Long
<1>2. d \in Nat /\ l <= d
  <2> HIDE DEF n
  <2> QED
    BY <1>1
<1>3. TickSize(levels, l) = d \div l
  BY DEF TickSize
<1> HIDE DEF d
<1> DEFINE q == d \div l
<1>4. q \in Int /\ d < l * q + l
  BY <1>1, <1>2, Quotient
<1> HIDE DEF q
<1>5. ASSUME q <= 0 PROVE FALSE
  <2>1. l * q <= 0 /\ l * q \in Int
    BY <1>1, <1>4, <1>5
  <2> QED
    BY <1>1, <1>2, <1>4, <2>1
<1> QED
  BY <1>3, <1>4, <1>5 DEF q

LEMMA BucketOfIs ==
    ASSUME NEW levels, NEW l, Long(levels, l)
    PROVE  LET t == TickSize(levels, l)
               b(i) == BucketOf(levels, l, i)
           IN  /\ \A i \in 1..Len(levels) :
                     /\ b(i) \in Nat
                     /\ levels[1].price + b(i) * t <= levels[i].price
                     /\ levels[i].price < levels[1].price + b(i) * t + t
               /\ \A i, j \in 1..Len(levels) : i <= j => b(i) <= b(j)
               /\ b(1) = 0
               /\ \A i \in 1..Len(levels) : b(i) <= 2 * l - 1
<1> DEFINE t == TickSize(levels, l)
           n == Len(levels)
           p(i) == levels[i].price
           d(i) == p(i) - p(1)
           b(i) == BucketOf(levels, l, i)
<1>1. n \in Nat /\ l \in Nat \ {0} /\ l < n /\ 1 \in 1..n /\ n \in 1..n
      /\ (\A i \in 1..n : p(i) \in Nat)
      /\ (\A i, j \in 1..n : i < j => p(i) < p(j))
  BY SideIs DEF Long
<1>2. t \in Nat \ {0}
  BY TickIs
<1>3. \A i : b(i) = d(i) \div t
  BY DEF BucketOf
<1> HIDE DEF n, t, b, p
<1>4. ASSUME NEW i \in 1..n, NEW j \in 1..n, i <= j PROVE p(i) <= p(j)
  BY <1>1, <1>4
<1>5. \A i \in 1..n : d(i) \in Nat
  <2> SUFFICES ASSUME NEW i \in 1..n PROVE d(i) \in Nat
    OBVIOUS
  <2>1. p(1) <= p(i) /\ p(1) \in Nat /\ p(i) \in Nat
    BY <1>1, <1>4
  <2> QED
    BY <2>1
<1>6. ASSUME NEW i \in 1..n
      PROVE  b(i) \in Nat /\ t * b(i) <= d(i) /\ d(i) < t * b(i) + t
  <2>1. d(i) \in Nat
    BY <1>5
  <2> HIDE DEF d
  <2>2. d(i) \div t \in Nat
    BY <1>2, <2>1, QuotientNat
  <2> QED
    BY <1>2, <1>3, <2>1, <2>2, Quotient
<1>7. ASSUME NEW i \in 1..n
      PROVE  p(1) + b(i) * t <= p(i) /\ p(i) < p(1) + b(i) * t + t
  <2>1. p(1) \in Nat /\ p(i) \in Nat /\ b(i) \in Nat
    BY <1>1, <1>6
  <2>2. t * b(i) = b(i) * t /\ t * b(i) \in Nat
    BY <1>2, <2>1
  <2>3. t * b(i) <= p(i) - p(1) /\ p(i) - p(1) < t * b(i) + t
    BY <1>6
  <2> QED
    BY <1>2, <2>1, <2>2, <2>3
<1>8. ASSUME NEW i \in 1..n, NEW j \in 1..n, i <= j PROVE b(i) <= b(j)
  <2>1. d(i) <= d(j)
    BY <1>1, <1>4, <1>8
  <2>2. d(i) \in Nat /\ d(j) \in Nat /\ b(i) \in Nat /\ b(j) \in Nat
    BY <1>5, <1>6
  <2>3. t * b(i) < t * b(j) + t
    <3>1. t * b(i) <= d(i) /\ d(j) < t * b(j) + t
      BY <1>6
    <3>2. t * b(i) \in Nat /\ t * b(j) \in Nat
      BY <1>2, <2>2
    <3> HIDE DEF d
    <3> QED
      BY <1>2, <2>1, <2>2, <3>1, <3>2
  <2> DEFINE x == b(i)
             y == b(j)
  <2>4. x \in Nat /\ y \in Nat /\ t * x < t * y + t
    BY <2>2, <2>3
  <2> HIDE DEF x, y
  <2>5. ASSUME x >= y + 1 PROVE FALSE
    <3>1. t * x >= t * (y + 1) /\ t * (y + 1) = t * y + t
      BY <1>2, <2>4, <2>5
    <3> QED
      BY <1>2, <2>4, <3>1
  <2> QED
    BY <2>4, <2>5 DEF x, y
<1>9. b(1) = 0
  <2>1. d(1) = 0
    BY <1>1
  <2> QED
    BY <1>2, <1>3, <2>1
<1>10. b(n) <= 2 * l - 1
  <2> DEFINE D == d(n)
  <2>1. D \in Nat /\ t = D \div l
    BY <1>1, <1>5 DEF t, TickSize, n, p
  <2>2. b(n) = D \div t
    BY <1>3
  <2> HIDE DEF D
  <2>3. l * t <= D /\ D < l * t + l /\ l * t \in Nat
    BY <1>1, <1>2, <2>1, Quotient
  <2>4. l <= l * t
    BY <1>1, <1>2
  <2>5. D < 2 * (l * t) /\ D < (2 * l) * t /\ (2 * l) * t \in Nat
    BY <1>1, <1>2, <2>1, <2>3, <2>4
  <2> DEFINE q == D \div t
  <2>6. q \in Nat /\ t * q <= D
    BY <1>2, <2>1, Quotient, QuotientNat
  <2> HIDE DEF q
  <2>7. ASSUME q >= 2 * l PROVE FALSE
    <3>1. t * q >= t * (2 * l) /\ t * (2 * l) = (2 * l) * t
      BY <1>1, <1>2, <2>6, <2>7
    <3> QED
      BY <1>1, <1>2, <2>1, <2>5, <2>6, <3>1
  <2> QED
    BY <1>1, <2>2, <2>6, <2>7 DEF q
<1>11. ASSUME NEW i \in 1..n PROVE b(i) <= 2 * l - 1
  <2>1. b(i) <= b(n)
    BY <1>1, <1>8
  <2>2. b(i) \in Nat /\ b(n) \in Nat
    BY <1>1, <1>6
  <2> QED
    BY <1>1, <1>10, <2>1, <2>2
<1> QED
  BY <1>6, <1>7, <1>8, <1>9, <1>11 DEF n, t, b, p

\* The buckets by number: how many there are, the level that opens each, the last level
\* of each, and its levels.
Buckets(levels, l) == Cardinality(Openers(levels, l))
First(levels, l, k) == Nth(Openers(levels, l), k)
Last(levels, l, k) ==
    IF k < Buckets(levels, l) THEN First(levels, l, k + 1) - 1 ELSE Len(levels)
Members(levels, l, k) ==
    {j \in DOMAIN levels : BucketOf(levels, l, j) = BucketOf(levels, l, First(levels, l, k))}

\* Buckets follow each other without a gap, and there are at most twice as many as wanted.
LEMMA BucketsAre ==
    ASSUME NEW levels, NEW l, Long(levels, l)
    PROVE  LET m == Buckets(levels, l)
               n == Len(levels)
               b(i) == BucketOf(levels, l, i)
               first(k) == First(levels, l, k)
           IN  /\ m \in 1..(2 * l)
               /\ \A k \in 1..m : first(k) \in 1..n
               /\ \A j, k \in 1..m : j < k => first(j) < first(k) /\ b(first(j)) < b(first(k))
               /\ \A i \in 1..n : \E k \in 1..m : b(i) = b(first(k))
               /\ first(1) = 1
               /\ \A k \in 1..m, i \in 1..n : i < first(k) => b(i) < b(first(k))
<1> DEFINE m == Buckets(levels, l)
           n == Len(levels)
           S == Openers(levels, l)
           b(i) == BucketOf(levels, l, i)
           first(k) == First(levels, l, k)
<1>1. n \in Nat /\ l \in Nat \ {0} /\ l < n /\ 1 \in 1..n /\ DOMAIN levels = 1..n
  BY SideIs DEF Long
<1>2. /\ \A i \in 1..n : b(i) \in Nat /\ b(i) <= 2 * l - 1
      /\ \A i, j \in 1..n : i <= j => b(i) <= b(j)
  BY BucketOfIs
<1>3. S = {i \in 1..n : \A j \in 1..(i - 1) : b(j) # b(i)}
  BY <1>1 DEF Openers
<1> HIDE DEF n, b
<1>4. S \in SUBSET (1..n) /\ S \in SUBSET Int /\ IsFiniteSet(S)
  <2>1. S \in SUBSET (1..n)
    BY <1>3
  <2>2. IsFiniteSet(1..n)
    BY <1>1, FS_Interval
  <2> HIDE DEF S
  <2>3. S \in SUBSET Int
    BY <2>1
  <2> QED
    BY <2>1, <2>2, <2>3, FS_Subset
<1> HIDE DEF S
<1>5. /\ m \in Nat
      /\ \A k \in 1..m : first(k) \in S
      /\ \A j, k \in 1..m : j < k => first(j) < first(k)
      /\ \A x \in S : \E k \in 1..m : x = first(k)
  BY <1>4, NthIs DEF Buckets, First, S
<1> HIDE DEF m, first
<1>6. \A k \in 1..m : first(k) \in 1..n
  BY <1>4, <1>5
<1>7. ASSUME NEW k \in 1..m, NEW i \in 1..n, i < first(k) PROVE b(i) < b(first(k))
  <2> DEFINE f == first(k)
  <2>1. f \in S /\ f \in 1..n
    BY <1>5, <1>6
  <2> HIDE DEF f
  <2>2. i < f
    BY <1>7 DEF f
  <2>3. i \in 1..(f - 1)
    BY <1>1, <2>1, <2>2
  <2>4. b(i) # b(f)
    BY <1>3, <2>1, <2>3
  <2>5. b(i) <= b(f) /\ b(i) \in Nat /\ b(f) \in Nat
    BY <1>1, <1>2, <2>1, <2>2
  <2> QED
    BY <2>4, <2>5 DEF f
<1>8. ASSUME NEW j \in 1..m, NEW k \in 1..m, j < k
      PROVE  first(j) < first(k) /\ b(first(j)) < b(first(k))
  BY <1>5, <1>6, <1>7, <1>8
<1>9. ASSUME NEW i \in 1..n PROVE \E k \in 1..m : b(i) = b(first(k))
  <2> DEFINE Q == {j \in 1..n : b(j) = b(i)}
  <2>1. Q \in SUBSET Nat /\ Q # {}
    BY <1>1
  <2> DEFINE o == Min(Q)
  <2>2. o \in Q /\ \A x \in Q : o <= x
    <3> HIDE DEF Q
    <3> QED
      BY <2>1, MinIs
  <2> HIDE DEF o
  <2>3. o \in 1..n /\ b(o) = b(i)
    BY <2>2
  <2>4. \A j \in 1..(o - 1) : b(j) # b(o)
    <3> SUFFICES ASSUME NEW j \in 1..(o - 1), b(j) = b(o) PROVE FALSE
      OBVIOUS
    <3>1. j \in 1..n /\ j < o /\ j \in Int /\ o \in Int
      BY <1>1, <2>3
    <3>2. j \in Q
      BY <2>3, <3>1
    <3> QED
      BY <2>2, <3>1, <3>2
  <2>5. o \in S
    BY <1>3, <2>3, <2>4
  <2>6. PICK k \in 1..m : o = first(k)
    BY <1>5, <2>5
  <2> QED
    BY <2>3, <2>6
<1>10. m >= 1 /\ first(1) = 1
  <2>1. 1 \in S
    BY <1>1, <1>3
  <2>2. PICK k \in 1..m : 1 = first(k)
    BY <1>5, <2>1
  <2>3. m >= 1 /\ 1 \in 1..m /\ k \in Int /\ k >= 1
    BY <1>5, <2>2
  <2>4. ASSUME k # 1 PROVE FALSE
    <3>1. first(1) < first(k)
      BY <1>5, <2>3, <2>4
    <3>2. first(1) \in 1..n
      BY <1>6, <2>3
    <3> QED
      BY <1>1, <2>2, <3>1, <3>2
  <2> QED
    BY <2>2, <2>3, <2>4
<1>11. m <= 2 * l
  <2> DEFINE f == [k \in 1..m |-> b(first(k))]
             T == 0..(2 * l - 1)
  <2>1. f \in [1..m -> T]
    <3> SUFFICES ASSUME NEW k \in 1..m PROVE b(first(k)) \in T
      OBVIOUS
    <3>1. b(first(k)) \in Nat /\ b(first(k)) <= 2 * l - 1
      BY <1>2, <1>6
    <3> QED
      BY <1>1, <3>1
  <2>2. \A j, k \in 1..m : f[j] = f[k] => j = k
    <3> SUFFICES ASSUME NEW j \in 1..m, NEW k \in 1..m, j # k PROVE b(first(j)) # b(first(k))
      OBVIOUS
    <3>1. j < k \/ k < j
      OBVIOUS
    <3>2. b(first(j)) \in Nat /\ b(first(k)) \in Nat
      BY <1>2, <1>6
    <3> QED
      BY <1>8, <3>1, <3>2
  <2>3. f \in Injection(1..m, T)
    <3> HIDE DEF f, T
    <3> QED
      BY <2>1, <2>2 DEF Injection, IsInjective
  <2>4. IsFiniteSet(T) /\ Cardinality(T) = 2 * l
    <3> DEFINE h == 2 * l - 1
    <3>1. h \in Nat /\ h + 1 = 2 * l /\ 0 \in Int /\ h \in Int
      BY <1>1
    <3> HIDE DEF h
    <3>2. IsFiniteSet(0..h) /\ Cardinality(0..h) = IF 0 > h THEN 0 ELSE h - 0 + 1
      BY <3>1, FS_Interval
    <3>3. Cardinality(0..h) = h + 1
      BY <3>1, <3>2
    <3> QED
      BY <3>1, <3>2, <3>3 DEF h
  <2>5. Cardinality(1..m) <= Cardinality(T)
    <3> HIDE DEF f, T
    <3> QED
      BY <2>3, <2>4, FS_Injection
  <2>6. Cardinality(1..m) = m
    <3>1. 1 \in Int /\ m \in Int
      BY <1>5
    <3>2. Cardinality(1..m) = IF 1 > m THEN 0 ELSE m - 1 + 1
      BY <3>1, FS_Interval
    <3> QED
      BY <1>5, <1>10, <3>2
  <2> HIDE DEF T
  <2> QED
    BY <2>4, <2>5, <2>6
<1>12. m \in 1..(2 * l)
  BY <1>1, <1>5, <1>10, <1>11
<1> QED
  BY <1>6, <1>7, <1>8, <1>9, <1>10, <1>12 DEF m, n, b, first

LEMMA MaxIs ==
    ASSUME NEW n \in Nat, NEW S \in SUBSET (1..n), S # {}
    PROVE  Max(S) \in S /\ \A x \in S : x <= Max(S)
<1> DEFINE T == {n - x : x \in S}
           m == Min(T)
<1>0. \A x \in S : x \in 1..n
  OBVIOUS
<1>1. T \in SUBSET Nat /\ T # {}
  <2>1. \A x \in S : n - x \in Nat
    BY <1>0
  <2> QED
    BY <2>1
<1>2. m \in T /\ \A y \in T : m <= y
  <2> HIDE DEF T
  <2> QED
    BY <1>1, MinIs
<1> HIDE DEF m
<1>3. PICK x \in S : m = n - x
  BY <1>2
<1>4. \A y \in S : x >= y
  <2> SUFFICES ASSUME NEW y \in S PROVE x >= y
    OBVIOUS
  <2>1. m <= n - y
    BY <1>2
  <2>2. x \in Int /\ y \in Int
    OBVIOUS
  <2> QED
    BY <1>3, <2>1, <2>2
<1>5. Max(S) \in S /\ \A y \in S : Max(S) >= y
  BY <1>4 DEF Max
<1>6. Max(S) \in Int /\ \A y \in S : y \in Int
  <2>1. Max(S) \in 1..n
    BY <1>0, <1>5
  <2> QED
    BY <2>1, <1>0
<1> QED
  BY <1>5, <1>6

\* The levels of a bucket, and those of the first or the last buckets.
LEMMA MembersAre ==
    ASSUME NEW levels, NEW l, Long(levels, l)
    PROVE  LET m == Buckets(levels, l)
               n == Len(levels)
               members(k) == Members(levels, l, k)
               first(k) == First(levels, l, k)
               last(k) == Last(levels, l, k)
           IN  /\ \A k \in 1..m : members(k) \in SUBSET (1..n) /\ first(k) \in members(k)
               /\ \A j, k \in 1..m : j # k => members(j) \cap members(k) = {}
               /\ \A k \in 1..m : last(k) \in 1..n /\ UNION {members(j) : j \in 1..k} = 1..last(k)
               /\ \A k \in 1..m : UNION {members(j) : j \in k..m} = first(k)..n
               /\ last(m) = n
<1> DEFINE m == Buckets(levels, l)
           n == Len(levels)
           b(i) == BucketOf(levels, l, i)
           members(k) == Members(levels, l, k)
           first(k) == First(levels, l, k)
           last(k) == Last(levels, l, k)
<1>1. n \in Nat /\ DOMAIN levels = 1..n /\ l \in Nat \ {0}
  BY SideIs DEF Long
<1>2. /\ m \in 1..(2 * l)
      /\ \A k \in 1..m : first(k) \in 1..n
      /\ \A j, k \in 1..m : j < k => first(j) < first(k) /\ b(first(j)) < b(first(k))
      /\ \A i \in 1..n : \E k \in 1..m : b(i) = b(first(k))
      /\ first(1) = 1
      /\ \A k \in 1..m, i \in 1..n : i < first(k) => b(i) < b(first(k))
  BY BucketsAre
<1>a. m \in Nat /\ 1 <= m
  BY <1>1, <1>2
<1>3. /\ \A i \in 1..n : b(i) \in Nat
      /\ \A i, j \in 1..n : i <= j => b(i) <= b(j)
  BY BucketOfIs
<1>4. \A k : members(k) = {j \in 1..n : b(j) = b(first(k))}
  BY <1>1 DEF Members
<1>5. \A k : last(k) = IF k < m THEN first(k + 1) - 1 ELSE n
  BY DEF Last
<1> HIDE DEF m, n, b, members, first, last
<1>6. \A k \in 1..m : members(k) \in SUBSET (1..n) /\ first(k) \in members(k)
  BY <1>2, <1>4
<1>7. ASSUME NEW j \in 1..m, NEW k \in 1..m, j # k PROVE members(j) \cap members(k) = {}
  <2>1. b(first(j)) # b(first(k))
    <3>1. j < k \/ k < j
      BY <1>7
    <3>2. b(first(j)) \in Nat /\ b(first(k)) \in Nat
      BY <1>2, <1>3
    <3> QED
      BY <1>2, <3>1, <3>2
  <2> QED
    BY <1>4, <2>1
\* The bucket of a level, seen from the level that opens a bucket.
<1>8. ASSUME NEW j \in 1..m, NEW k \in 1..m, NEW i \in members(j)
      PROVE  i \in 1..n /\ (first(k) <= i <=> k <= j)
  <2>1. i \in 1..n /\ b(i) = b(first(j))
    BY <1>4
  <2>2. first(k) \in 1..n /\ first(j) \in 1..n
    BY <1>2
  <2>3. b(i) \in Nat /\ b(first(k)) \in Nat /\ i \in Int /\ first(k) \in Int
    BY <1>3, <2>1, <2>2
  <2>4. ASSUME first(k) <= i, j < k PROVE FALSE
    <3>1. b(first(k)) <= b(i) /\ b(first(j)) < b(first(k))
      BY <1>2, <1>3, <2>1, <2>2, <2>4
    <3> QED
      BY <2>1, <2>3, <3>1
  <2>5. ASSUME i < first(k), k <= j PROVE FALSE
    <3>1. b(i) < b(first(k))
      BY <1>2, <2>1, <2>5
    <3>2. b(first(k)) <= b(first(j))
      <4>1. CASE k = j
        BY <4>1, <2>1, <2>3
      <4>2. CASE k < j
        <5>1. b(first(k)) < b(first(j))
          BY <1>2, <4>2
        <5> QED
          BY <5>1, <2>1, <2>3
      <4> QED
        BY <2>5, <4>1, <4>2
    <3> QED
      BY <2>1, <2>3, <3>1, <3>2
  <2> QED
    BY <2>1, <2>3, <2>4, <2>5
<1>9. \A i \in 1..n : \E j \in 1..m : i \in members(j)
  BY <1>2, <1>4
<1>10. ASSUME NEW k \in 1..m PROVE UNION {members(j) : j \in k..m} = first(k)..n
  <2>1. ASSUME NEW j \in k..m, NEW i \in members(j) PROVE i \in first(k)..n
    <3>1. j \in 1..m /\ k <= j
      BY <1>a
    <3>2. i \in 1..n /\ first(k) <= i
      BY <1>8, <3>1
    <3>3. first(k) \in Int
      BY <1>2
    <3> QED
      BY <1>1, <3>2, <3>3
  <2>2. ASSUME NEW i \in first(k)..n PROVE \E j \in k..m : i \in members(j)
    <3>1. i \in 1..n /\ first(k) <= i
      BY <1>1, <1>2
    <3>2. PICK j \in 1..m : i \in members(j)
      BY <1>9, <3>1
    <3>3. k <= j
      BY <1>8, <3>1, <3>2
    <3> QED
      BY <3>2, <3>3
  <2> QED
    BY <2>1, <2>2
<1>11. last(m) = n
  BY <1>5, <1>a
<1>12. ASSUME NEW k \in 1..m
       PROVE  last(k) \in 1..n /\ UNION {members(j) : j \in 1..k} = 1..last(k)
  <2>1. CASE k = m
    <3>1. last(k) = n /\ n \in 1..n
      <4>1. first(1) \in 1..n
        BY <1>2, <1>a
      <4> QED
        BY <1>1, <1>11, <2>1, <4>1
    <3>2. UNION {members(j) : j \in 1..m} = first(1)..n
      BY <1>10, <1>a
    <3> QED
      BY <1>2, <2>1, <3>1, <3>2
  <2>2. CASE k < m
    <3>1. k + 1 \in 1..m /\ 1 \in 1..m /\ 1 < k + 1
      BY <1>a, <2>2
    <3> DEFINE f == first(k + 1)
    <3>2. f \in 1..n /\ first(1) < f /\ first(1) = 1
      BY <1>2, <3>1
    <3>3. last(k) = f - 1
      BY <1>5, <2>2
    <3> HIDE DEF f
    <3>4. last(k) \in 1..n
      BY <1>1, <3>2, <3>3
    <3>5. ASSUME NEW j \in 1..k, NEW i \in members(j) PROVE i \in 1..last(k)
      <4>1. j \in 1..m /\ ~ (k + 1 <= j)
        BY <1>a, <2>2
      <4>2. i \in 1..n /\ ~ (f <= i)
        BY <1>8, <3>1, <4>1 DEF f
      <4> QED
        BY <1>1, <3>2, <3>3, <4>2
    <3>6. ASSUME NEW i \in 1..last(k) PROVE \E j \in 1..k : i \in members(j)
      <4>1. i \in 1..n /\ ~ (f <= i)
        BY <1>1, <3>2, <3>3, <3>4
      <4>2. PICK j \in 1..m : i \in members(j)
        BY <1>9, <4>1
      <4>3. ~ (k + 1 <= j)
        BY <1>8, <3>1, <4>1, <4>2 DEF f
      <4>4. j \in 1..k
        BY <1>a, <4>3
      <4> QED
        BY <4>2, <4>4
    <3> QED
      BY <3>4, <3>5, <3>6
  <2> QED
    BY <1>a, <2>1, <2>2
<1> QED
  BY <1>6, <1>7, <1>10, <1>11, <1>12 DEF m, n, members, first, last

\* No sum over the side wraps.
Small(levels) == Total(levels, DOMAIN levels) <= MaxInt

\* Sums over the levels of one bucket.
LEMMA BucketSums ==
    ASSUME NEW levels, NEW l, Long(levels, l), NEW k \in 1..Buckets(levels, l)
    PROVE  LET I == Members(levels, l, k)
           IN  /\ I \in SUBSET DOMAIN levels
               /\ Total(levels, I) \in Nat \ {0}
               /\ Value(levels, I) \in Nat
               /\ Orders(levels, I) \in Nat
               /\ Orders(levels, I) <= Total(levels, I)
               /\ Total(levels, I) <= Total(levels, DOMAIN levels)
               /\ Total(levels, DOMAIN levels) \in Nat
<1> DEFINE I == Members(levels, l, k)
           w == Amounts(levels)
           v == Counts(levels)
<1>1. levels \in Seq(Level) /\ DOMAIN levels = 1..Len(levels)
  BY SideIs DEF Long
<1>2. I \in SUBSET DOMAIN levels /\ I # {}
  <2>1. I \in SUBSET (1..Len(levels)) /\ First(levels, l, k) \in I
    BY MembersAre
  <2> QED
    BY <1>1, <2>1
<1> HIDE DEF I
<1>3. /\ IsFiniteSet(I)
      /\ Total(levels, I) \in Nat /\ Orders(levels, I) \in Nat /\ Value(levels, I) \in Nat
      /\ Total(levels, I) <= Total(levels, DOMAIN levels)
      /\ Total(levels, I) > 0
  BY <1>1, <1>2, SumsNat
<1>4. Total(levels, DOMAIN levels) \in Nat
  BY <1>1, SumsNat
<1>5. \A i \in I : /\ w[i] \in Int /\ v[i] \in Int
                 /\ 0 * w[i] <= v[i] /\ v[i] <= 1 * w[i]
  <2> SUFFICES ASSUME NEW i \in I
               PROVE  /\ w[i] \in Int /\ v[i] \in Int
                      /\ 0 * w[i] <= v[i] /\ v[i] <= 1 * w[i]
    OBVIOUS
  <2>1. i \in DOMAIN levels /\ levels[i].orders <= levels[i].amount
    BY <1>2 DEF Long, Side
  <2>2. w[i] \in Nat /\ v[i] \in Nat /\ w[i] = levels[i].amount /\ v[i] = levels[i].orders
    BY <1>1, <2>1, WeightsNat
  <2>3. v[i] <= w[i]
    BY <2>1, <2>2
  <2> HIDE DEF v, w
  <2> QED
    BY <2>2, <2>3
<1>6. Total(levels, I) = Sum(w, I) /\ Orders(levels, I) = Sum(v, I)
  BY <1>2, SumsAre
<1> HIDE DEF v, w
<1>7. Sum(v, I) <= 1 * Sum(w, I)
  BY <1>3, <1>5, SumBetween
<1>8. Orders(levels, I) <= Total(levels, I)
  BY <1>3, <1>6, <1>7
<1> QED
  BY <1>2, <1>3, <1>4, <1>8 DEF I

\* A bucket whose sums do not wrap holds what its levels hold, at a price between the
\* prices of its levels, which times the amount misses the value by less than the amount.
LEMMA BucketIs ==
    ASSUME NEW levels, NEW l, Long(levels, l), Small(levels), NEW k \in 1..Buckets(levels, l)
    PROVE  LET I == Members(levels, l, k)
               merged == Bucket(levels, l, I)
               amount == Total(levels, I)
           IN  /\ merged.amount = amount
               /\ merged.orders = Orders(levels, I)
               /\ merged.price \in Nat
               /\ merged.price * amount <= Value(levels, I)
               /\ Value(levels, I) < merged.price * amount + amount
               /\ \A lo, hi \in Int :
                     (\A i \in I : lo <= levels[i].price /\ levels[i].price <= hi)
                     => lo <= merged.price /\ merged.price <= hi
<1> DEFINE I == Members(levels, l, k)
           a == Total(levels, I)
           v == Value(levels, I)
           o == Orders(levels, I)
           p == v \div a
           merged == Bucket(levels, l, I)
<1>1. /\ I \in SUBSET DOMAIN levels /\ a \in Nat \ {0} /\ v \in Nat /\ o \in Nat
      /\ o <= a /\ a <= MaxInt
  <2>1. /\ I \in SUBSET DOMAIN levels /\ a \in Nat \ {0} /\ v \in Nat /\ o \in Nat
        /\ o <= a /\ a <= Total(levels, DOMAIN levels) /\ Total(levels, DOMAIN levels) \in Nat
    BY BucketSums
  <2> DEFINE T == Total(levels, DOMAIN levels)
  <2>2. a <= T /\ T \in Nat /\ T <= MaxInt /\ a \in Nat
    BY <2>1 DEF Small
  <2> HIDE DEF a, T
  <2>3. a <= MaxInt
    BY <2>2, LevelsAssumption
  <2> QED
    BY <2>1, <2>3
<1>2. levels \in Seq(Level)
  BY SideIs DEF Long
<1>3. merged = [price |-> IF Wrap(a) > 0 THEN v \div Wrap(a)
                          ELSE Middle(levels, l, BucketOf(levels, l, Max(I))),
                amount |-> Wrap(a), orders |-> Wrap(o)]
  BY DEF Bucket
<1> HIDE DEF I, a, v, o, merged
<1>4. Wrap(a) = a /\ Wrap(o) = o
  <2>1. a \in Int /\ o \in Int /\ -MaxInt <= a /\ a <= MaxInt /\ -MaxInt <= o /\ o <= MaxInt
    BY <1>1, LevelsAssumption
  <2> QED
    BY <2>1, WrapFits
<1>5. merged.amount = a /\ merged.orders = o /\ merged.price = p
  BY <1>1, <1>3, <1>4
<1>6. p \in Nat
  BY <1>1, QuotientNat
<1>7. p * a <= v /\ v < p * a + a
  <2>1. a * p <= v /\ v < a * p + a
    BY <1>1, Quotient
  <2> HIDE DEF p
  <2>2. a * p = p * a
    BY <1>1, <1>6
  <2> QED
    BY <2>1, <2>2
<1>8. ASSUME NEW lo \in Int, NEW hi \in Int,
             \A i \in I : lo <= levels[i].price /\ levels[i].price <= hi
      PROVE  lo <= p /\ p <= hi
  <2> DEFINE aw == Amounts(levels)
             vw == Values(levels)
  <2>1. \A i \in I : /\ aw[i] \in Int /\ vw[i] \in Int
                   /\ lo * aw[i] <= vw[i] /\ vw[i] <= hi * aw[i]
    <3> SUFFICES ASSUME NEW i \in I
                 PROVE  /\ aw[i] \in Int /\ vw[i] \in Int
                        /\ lo * aw[i] <= vw[i] /\ vw[i] <= hi * aw[i]
      OBVIOUS
    <3> DEFINE x == levels[i].price
               y == levels[i].amount
    <3>1. aw[i] = y /\ y \in Nat \ {0} /\ vw[i] = x * y /\ vw[i] \in Nat
      BY <1>1, <1>2, WeightsNat
    <3>2. x \in Nat /\ lo <= x /\ x <= hi
      BY <1>1, <1>2, <1>8, LevelIs
    <3> HIDE DEF x, y, aw, vw
    <3>3. lo * y <= x * y /\ x * y <= hi * y
      BY <3>1, <3>2
    <3> QED
      BY <3>1, <3>3
  <2>2. a = Sum(aw, I) /\ v = Sum(vw, I)
    BY <1>1, SumsAre DEF a, v
  <2>3. IsFiniteSet(I)
    BY <1>1, <1>2, SumsNat
  <2> HIDE DEF aw, vw
  <2>4. lo * a <= v /\ v <= hi * a
    BY <2>1, <2>2, <2>3, SumBetween
  <2> QED
    BY <1>1, <2>4, QuotientBetween
<1> HIDE DEF p
<1> QED
  BY <1>5, <1>6, <1>7, <1>8 DEF I, a, v, o, merged

\* Whatever wraps, a bucket is a level.
LEMMA BucketType ==
    ASSUME NEW levels, NEW l, Long(levels, l), NEW k \in 1..Buckets(levels, l)
    PROVE  Bucket(levels, l, Members(levels, l, k)) \in Merged
<1> DEFINE I == Members(levels, l, k)
           a == Wrap(Total(levels, I))
           o == Wrap(Orders(levels, I))
           v == Value(levels, I)
           t == TickSize(levels, l)
           x == BucketOf(levels, l, Max(I))
           mid == Middle(levels, l, x)
<1>1. a \in Int64 /\ o \in Int64 /\ v \in Nat
  <2>1. Total(levels, I) \in Int /\ Orders(levels, I) \in Int /\ v \in Nat
    BY BucketSums
  <2> QED
    BY <2>1, WrapInt
<1>2. x \in Nat
  <2>1. I \in SUBSET (1..Len(levels)) /\ I # {} /\ Len(levels) \in Nat
    BY MembersAre, SideIs DEF Long
  <2> HIDE DEF I
  <2>2. Max(I) \in I
    BY <2>1, MaxIs
  <2>3. Max(I) \in 1..Len(levels)
    BY <2>1, <2>2
  <2> QED
    BY <2>3, BucketOfIs
<1>3. mid \in Nat
  <2>1. t \in Nat \ {0}
    BY TickIs
  <2>2. levels[1].price \in Nat
    <3>1. 1 \in 1..Len(levels)
      BY SideIs DEF Long
    <3> QED
      BY <3>1, SideIs DEF Long
  <2>3. mid = levels[1].price + x * t + t \div 2
    BY DEF Middle
  <2> HIDE DEF x, t, mid
  <2>4. t \div 2 \in Nat /\ x * t \in Nat
    BY <1>2, <2>1
  <2> QED
    BY <2>2, <2>3, <2>4
<1>4. Bucket(levels, l, I) = [price |-> IF a > 0 THEN v \div a ELSE mid, amount |-> a, orders |-> o]
  BY DEF Bucket
<1> HIDE DEF I, a, o, v, mid
<1>5. a > 0 => v \div a \in Nat
  <2>1. a > 0 => a \in Nat \ {0}
    BY <1>1, Integral
  <2> QED
    BY <1>1, <2>1, QuotientNat
<1> QED
  BY <1>1, <1>3, <1>4, <1>5 DEF I, Merged

----------------------------------------------------------------------------
(* aggregateLevels *)

\* The prices of a bucket's levels, and hence its own, lie in the bucket.
LEMMA BucketRange ==
    ASSUME NEW levels, NEW l, Long(levels, l), NEW k \in 1..Buckets(levels, l)
    PROVE  LET t == TickSize(levels, l)
               lo == levels[1].price + BucketOf(levels, l, First(levels, l, k)) * t
           IN  /\ lo \in Int /\ t \in Nat \ {0}
               /\ \A i \in Members(levels, l, k) :
                     lo <= levels[i].price /\ levels[i].price <= lo + t - 1
<1> DEFINE t == TickSize(levels, l)
           b(i) == BucketOf(levels, l, i)
           f == First(levels, l, k)
           p(i) == levels[i].price
           n == Len(levels)
           lo == p(1) + b(f) * t
<1>1. n \in Nat /\ 1 \in 1..n /\ DOMAIN levels = 1..n /\ \A i \in 1..n : p(i) \in Nat
  BY SideIs DEF Long
<1>2. t \in Nat \ {0}
  BY TickIs
<1>3. f \in 1..n
  BY BucketsAre
<1>4. \A i \in 1..n : /\ b(i) \in Nat
                      /\ p(1) + b(i) * t <= p(i)
                      /\ p(i) < p(1) + b(i) * t + t
  BY BucketOfIs
<1>5. Members(levels, l, k) = {j \in 1..n : b(j) = b(f)}
  BY <1>1 DEF Members
<1> HIDE DEF n, b, p, t, f
<1>6. lo \in Int
  <2>1. b(f) \in Nat /\ p(1) \in Nat
    BY <1>1, <1>3, <1>4
  <2> QED
    BY <1>2, <2>1
<1>7. ASSUME NEW i \in 1..n, b(i) = b(f) PROVE lo <= p(i) /\ p(i) <= lo + t - 1
  <2>1. lo <= p(i) /\ p(i) < lo + t /\ p(i) \in Nat
    BY <1>1, <1>4, <1>7
  <2> HIDE DEF lo
  <2> QED
    BY <1>2, <1>6, <2>1
<1> QED
  BY <1>2, <1>5, <1>6, <1>7 DEF p, b, t, f

LEMMA AggregateIs ==
    ASSUME NEW levels, Side(levels), NEW l \in Nat \ {0}
    PROVE  LET out == AggregateLevels(levels, l)
               m == Buckets(levels, l)
           IN  /\ out \in Seq(Merged)
               /\ Len(out) <= 2 * l
               /\ levels # <<>> => out # <<>>
               /\ ~ Long(levels, l) => out = levels
               /\ Long(levels, l) =>
                     /\ Len(out) = m /\ DOMAIN out = 1..m
                     /\ \A k \in 1..m : out[k] = Bucket(levels, l, Members(levels, l, k))
<1> DEFINE out == AggregateLevels(levels, l)
           m == Buckets(levels, l)
<1>1. levels \in Seq(Level) /\ Len(levels) \in Nat /\ DOMAIN levels = 1..Len(levels)
  BY SideIs
<1>2. CASE ~ Long(levels, l)
  <2>1. Len(levels) <= l
    BY <1>1, <1>2 DEF Long
  <2>2. out = levels
    BY <2>1 DEF AggregateLevels
  <2>3. Level \subseteq Merged
    BY Integral
  <2>4. levels \in Seq(Merged)
    BY <1>1, <2>3, SeqMonotonic
  <2> HIDE DEF out
  <2>5. Len(levels) <= 2 * l
    BY <1>1, <2>1
  <2> QED
    BY <1>2, <2>2, <2>4, <2>5 DEF out
<1>3. CASE Long(levels, l)
  <2> DEFINE S == Openers(levels, l)
             merged(k) == Bucket(levels, l, Members(levels, l, k))
  <2>1. TickSize(levels, l) # 0 /\ ~ (Len(levels) <= l \/ l <= 0)
    <3>1. TickSize(levels, l) \in Nat \ {0}
      BY <1>3, TickIs
    <3> QED
      BY <1>1, <1>3, <3>1 DEF Long
  <2>2. out = Merge(levels, l)
    BY <2>1 DEF AggregateLevels
  <2>3. out = [k \in 1..m |-> merged(k)]
    BY <2>2 DEF Merge, Buckets, Members, First
  <2>4. m \in 1..(2 * l)
    BY <1>3, BucketsAre
  <2>5. \A k \in 1..m : merged(k) \in Merged
    BY <1>3, BucketType
  <2> HIDE DEF m, merged, out
  <2>6. out \in [1..m -> Merged] /\ m \in Nat /\ 1 \in 1..m
    BY <2>3, <2>4, <2>5
  <2>7. out \in Seq(Merged)
    BY <2>6, SeqDef
  <2>8. Len(out) = m /\ DOMAIN out = 1..m
    <3>1. DOMAIN out = 1..m /\ DOMAIN out = 1..Len(out) /\ Len(out) \in Nat
      BY <2>6, <2>7, LenProperties
    <3> QED
      BY <2>6, <3>1
  <2>9. out # <<>>
    BY <2>6, <2>8
  <2>10. Len(out) <= 2 * l
    BY <2>4, <2>8
  <2> QED
    BY <1>3, <2>3, <2>7, <2>8, <2>9, <2>10 DEF m, out, merged
<1> QED
  BY <1>2, <1>3

\* Buckets are in the order of their prices.
LEMMA AggregateAscends ==
    ASSUME NEW levels, Side(levels), Small(levels), NEW l \in Nat \ {0}
    PROVE  Ascending(AggregateLevels(levels, l))
<1> DEFINE out == AggregateLevels(levels, l)
           m == Buckets(levels, l)
<1>1. CASE ~ Long(levels, l)
  BY <1>1, AggregateIs DEF Side
<1>2. CASE Long(levels, l)
  <2> DEFINE t == TickSize(levels, l)
             b(k) == BucketOf(levels, l, First(levels, l, k))
             base == levels[1].price
             lo(k) == base + b(k) * t
  <2>1. DOMAIN out = 1..m /\ \A k \in 1..m : out[k] = Bucket(levels, l, Members(levels, l, k))
    BY <1>2, AggregateIs
  <2>2. \A k \in 1..m : /\ lo(k) \in Int /\ t \in Nat \ {0}
                        /\ \A i \in Members(levels, l, k) :
                              lo(k) <= levels[i].price /\ levels[i].price <= lo(k) + t - 1
    BY <1>2, BucketRange
  <2>3. ASSUME NEW k \in 1..m
        PROVE  out[k].price \in Nat /\ lo(k) <= out[k].price /\ out[k].price <= lo(k) + t - 1
    <3> DEFINE h == lo(k) + t - 1
               g == lo(k)
    <3>1. g \in Int /\ h \in Int
      <4>1. lo(k) \in Int /\ t \in Nat \ {0}
        BY <2>2
      <4> HIDE DEF lo, t
      <4> QED
        BY <4>1
    <3>2. \A i \in Members(levels, l, k) : g <= levels[i].price /\ levels[i].price <= h
      BY <2>2
    <3> HIDE DEF h, g
    <3>3. out[k].price \in Nat /\ g <= out[k].price /\ out[k].price <= h
      BY <1>2, <2>1, <3>1, <3>2, BucketIs
    <3> QED
      BY <3>3 DEF h, g
  <2>4. ASSUME NEW j \in 1..m, NEW k \in 1..m, j < k PROVE lo(j) + t <= lo(k)
    <3>1. b(j) < b(k)
      BY <1>2, <2>4, BucketsAre
    <3>2. b(j) \in Nat /\ b(k) \in Nat
      <4>1. First(levels, l, j) \in 1..Len(levels) /\ First(levels, l, k) \in 1..Len(levels)
        BY <1>2, BucketsAre
      <4> QED
        BY <1>2, <4>1, BucketOfIs
    <3>3. base \in Nat /\ t \in Nat \ {0}
      <4>1. 1 \in 1..Len(levels)
        BY <1>2, SideIs DEF Long
      <4> QED
        BY <2>2, <4>1, SideIs
    <3> DEFINE x == b(j)
               y == b(k)
    <3>4. x \in Nat /\ y \in Nat /\ x + 1 <= y
      BY <3>1, <3>2
    <3> HIDE DEF x, y, b, t, base
    <3>5. (x + 1) * t <= y * t /\ (x + 1) * t = x * t + t /\ x * t \in Nat /\ y * t \in Nat
      BY <3>3, <3>4
    <3>6. base + x * t + t <= base + y * t
      BY <3>3, <3>5
    <3> QED
      BY <3>6 DEF x, y
  <2> HIDE DEF out, m
  <2> SUFFICES ASSUME NEW j \in 1..m, NEW k \in 1..m, j < k
               PROVE  out[j].price < out[k].price
    BY <2>1 DEF Ascending, out
  <2>5. lo(j) + t <= lo(k) /\ out[j].price <= lo(j) + t - 1 /\ lo(k) <= out[k].price
    BY <2>3, <2>4
  <2>6. lo(j) \in Int /\ lo(k) \in Int /\ t \in Int /\ out[j].price \in Int /\ out[k].price \in Int
    BY <2>2, <2>3
  <2> HIDE DEF lo, t
  <2> QED
    BY <2>5, <2>6
<1> QED
  BY <1>1, <1>2

\* The best level of either end: within a bucket of the best level there was, and no
\* further out.
LEMMA EndsAre ==
    ASSUME NEW levels, Side(levels), Small(levels), NEW l \in Nat \ {0}, levels # <<>>
    PROVE  LET out == AggregateLevels(levels, l)
               t == TickSize(levels, l)
               bottom == levels[1].price
               top == levels[Len(levels)].price
               low == out[1].price
               high == out[Len(out)].price
           IN  /\ out # <<>>
               /\ bottom \in Nat /\ top \in Nat /\ low \in Nat /\ high \in Nat
               /\ bottom <= low /\ high <= top
               /\ low = bottom \/ (Len(levels) > l /\ low - bottom < t /\ bottom - low < t)
               /\ high = top \/ (Len(levels) > l /\ high - top < t /\ top - high < t)
<1> DEFINE out == AggregateLevels(levels, l)
           t == TickSize(levels, l)
           n == Len(levels)
           m == Buckets(levels, l)
           bottom == levels[1].price
           top == levels[n].price
           low == out[1].price
           high == out[Len(out)].price
           lo(k) == bottom + BucketOf(levels, l, First(levels, l, k)) * t
<1>1. n \in Nat /\ 1 \in 1..n /\ n \in 1..n /\ bottom \in Nat /\ top \in Nat
      /\ \A i, j \in 1..n : i < j => levels[i].price < levels[j].price
      /\ \A k \in 1..n : levels[k].price \in Nat
  <2>1. n \in Nat \ {0}
    BY SideIs, EmptySeq
  <2>2. 1 \in 1..n /\ n \in 1..n
    BY <2>1
  <2> QED
    BY <2>1, <2>2, SideIs
<1>2. out # <<>>
  BY AggregateIs
<1>3. CASE ~ Long(levels, l)
  <2>1. out = levels
    BY <1>3, AggregateIs
  <2> QED
    BY <1>1, <1>2, <2>1
<1>4. CASE Long(levels, l)
  <2>1. Len(out) = m /\ \A k \in 1..m : out[k] = Bucket(levels, l, Members(levels, l, k))
    BY <1>4, AggregateIs
  <2>2. 1 \in 1..m /\ m \in 1..m /\ First(levels, l, 1) = 1
    <3>1. m \in 1..(2 * l) /\ First(levels, l, 1) = 1
      BY <1>4, BucketsAre
    <3> HIDE DEF m
    <3> QED
      BY <3>1
  <2>3. \A k \in 1..m : /\ lo(k) \in Int /\ t \in Nat \ {0}
                        /\ \A i \in Members(levels, l, k) :
                              lo(k) <= levels[i].price /\ levels[i].price <= lo(k) + t - 1
    BY <1>4, BucketRange
  <2>4. ASSUME NEW k \in 1..m, NEW g \in Int, NEW h \in Int,
               \A i \in Members(levels, l, k) : g <= levels[i].price /\ levels[i].price <= h
        PROVE  out[k].price \in Nat /\ g <= out[k].price /\ out[k].price <= h
    <3> HIDE DEF out, m
    <3> QED
      BY <1>4, <2>1, <2>4, BucketIs DEF out, m
  <2>5. lo(1) = bottom /\ t \in Nat \ {0}
    <3>1. BucketOf(levels, l, 1) = 0
      BY <1>4, BucketOfIs
    <3>2. t \in Nat \ {0}
      BY <2>2, <2>3
    <3> HIDE DEF t, bottom
    <3> QED
      BY <1>1, <2>2, <3>1, <3>2
  <2>6. low \in Nat /\ bottom <= low /\ low <= bottom + t - 1
    <3> DEFINE h == bottom + t - 1
    <3>1. h \in Int /\ bottom \in Int
      BY <1>1, <2>5
    <3>2. \A i \in Members(levels, l, 1) : bottom <= levels[i].price /\ levels[i].price <= h
      BY <2>2, <2>3, <2>5
    <3> HIDE DEF h, bottom, out, m
    <3>3. out[1].price \in Nat /\ bottom <= out[1].price /\ out[1].price <= h
      BY <2>2, <2>4, <3>1, <3>2
    <3> QED
      BY <3>3 DEF h
  <2>7. n \in Members(levels, l, m)
    <3>1. UNION {Members(levels, l, j) : j \in m..m} = First(levels, l, m)..n
          /\ First(levels, l, m) \in 1..n
      BY <1>4, <2>2, MembersAre, BucketsAre
    <3>2. n \in First(levels, l, m)..n
      BY <1>1, <3>1
    <3>3. m..m = {m}
      BY <2>2
    <3> QED
      BY <3>1, <3>2, <3>3
  <2>8. high \in Nat /\ lo(m) <= high /\ high <= top
    <3> DEFINE g == lo(m)
    <3>1. g \in Int /\ top \in Int
      BY <1>1, <2>2, <2>3
    <3>2. ASSUME NEW i \in Members(levels, l, m)
          PROVE  g <= levels[i].price /\ levels[i].price <= top
      <4>1. i \in 1..n
        BY <1>4, <2>2, MembersAre
      <4>2. levels[i].price <= top
        <5>1. i = n \/ i < n
          BY <1>1, <4>1
        <5>2. levels[i].price \in Nat
          BY <1>1, <4>1
        <5>3. CASE i < n
          <6>1. levels[i].price < levels[n].price
            BY <1>1, <4>1, <5>3
          <6> QED
            BY <1>1, <5>2, <6>1
        <5> QED
          BY <5>1, <5>2, <5>3
      <4> QED
        BY <2>2, <2>3, <3>2, <4>2
    <3> HIDE DEF g, top, out, m
    <3>3. out[m].price \in Nat /\ g <= out[m].price /\ out[m].price <= top
      BY <2>2, <2>4, <3>1, <3>2
    <3> QED
      BY <2>1, <3>3 DEF g
  <2>9. lo(m) \in Int /\ top <= lo(m) + t - 1
    BY <2>2, <2>3, <2>7
  <2>10. n > l
    BY <1>4 DEF Long
  <2> HIDE DEF out, t, n, m, bottom, top, low, high, lo
  <2>11. low - bottom < t /\ bottom - low < t
    BY <1>1, <2>5, <2>6
  <2>12. high - top < t /\ top - high < t
    BY <1>1, <2>5, <2>8, <2>9
  <2> QED
    BY <1>1, <1>2, <2>6, <2>8, <2>10, <2>11, <2>12 DEF out, t, n, bottom, top, low, high
<1> QED
  BY <1>3, <1>4

----------------------------------------------------------------------------
(* Running sums *)

\* Weights that are less apart than another weight have sums that are.
LEMMA SumNear ==
    ASSUME NEW I, IsFiniteSet(I), I # {}, NEW u, NEW v, NEW a,
           \A x \in I : /\ u[x] \in Int /\ v[x] \in Int /\ a[x] \in Int
                        /\ u[x] <= v[x] /\ v[x] < u[x] + a[x]
    PROVE  Sum(u, I) <= Sum(v, I) /\ Sum(v, I) < Sum(u, I) + Sum(a, I)
<1> DEFINE Near(s) == /\ Sum(u, s) <= Sum(v, s)
                      /\ Sum(v, s) <= Sum(u, s) + Sum(a, s)
                      /\ s # {} => Sum(v, s) < Sum(u, s) + Sum(a, s)
           Q == {s \in SUBSET I : Near(s)}
<1>0. \A s \in SUBSET I : IsFiniteSet(s)
  BY FS_Subset
<1>1. {} \in Q
  <2>1. Sum(u, {}) = 0 /\ Sum(v, {}) = 0 /\ Sum(a, {}) = 0
    BY <1>0, SumStep
  <2> QED
    BY <2>1
<1>2. ASSUME NEW s \in SUBSET I, NEW x \in s, s \ {x} \in Q PROVE s \in Q
  <2> DEFINE r == s \ {x}
  <2>1. Sum(u, s) = u[x] + Sum(u, r) /\ Sum(v, s) = v[x] + Sum(v, r)
        /\ Sum(a, s) = a[x] + Sum(a, r)
    BY <1>0, SumStep
  <2>2. Sum(u, r) \in Int /\ Sum(v, r) \in Int /\ Sum(a, r) \in Int
    <3>1. IsFiniteSet(r)
      BY <1>0
    <3> QED
      BY <3>1, SumStep
  <2>3. Sum(u, r) <= Sum(v, r) /\ Sum(v, r) <= Sum(u, r) + Sum(a, r)
    BY <1>2
  <2>4. /\ u[x] \in Int /\ v[x] \in Int /\ a[x] \in Int
        /\ u[x] <= v[x] /\ v[x] < u[x] + a[x]
    OBVIOUS
  <2> HIDE DEF r
  <2>5. Near(s)
    BY <2>1, <2>2, <2>3, <2>4
  <2> HIDE DEF Near
  <2> QED
    BY <2>5
<1>3. \A s \in SUBSET I : s \in Q
  <2> HIDE DEF Q
  <2> QED
    BY <1>1, <1>2, SetInd DEF Q
<1> QED
  BY <1>3

\* What is shown over J is what the levels of I hold.
Faithful(out, J, levels, I) ==
    /\ Total(out, J) = Total(levels, I)
    /\ Total(out, J) \in 1..MaxInt
    /\ Value(levels, I) - Value(out, J) \in 0..(Total(out, J) - 1)

LEMMA BucketsFaithful ==
    ASSUME NEW levels, NEW l, Long(levels, l), Small(levels),
           NEW J \in SUBSET (1..Buckets(levels, l)), J # {}
    PROVE  LET out == AggregateLevels(levels, l)
               I == UNION {Members(levels, l, j) : j \in J}
           IN  /\ Faithful(out, J, levels, I)
               /\ Orders(out, J) = Orders(levels, I)
<1> DEFINE out == AggregateLevels(levels, l)
           m == Buckets(levels, l)
           n == Len(levels)
           B == [j \in J |-> Members(levels, l, j)]
           I == UNION {Members(levels, l, j) : j \in J}
           D == DOMAIN levels
<1>1. /\ levels \in Seq(Level) /\ n \in Nat /\ D = 1..n /\ l \in Nat \ {0} /\ Side(levels)
      /\ IsFiniteSet(D)
  BY SideIs, LevelIs DEF Long
<1>2. DOMAIN out = 1..m /\ \A k \in 1..m : out[k] = Bucket(levels, l, Members(levels, l, k))
  BY <1>1, AggregateIs
<1>3. /\ \A k \in 1..m : Members(levels, l, k) \in SUBSET D
      /\ \A j, k \in 1..m : j # k => Members(levels, l, j) \cap Members(levels, l, k) = {}
  BY <1>1, MembersAre
<1>4. IsFiniteSet(J)
  <2>1. m \in 1..(2 * l)
    BY BucketsAre
  <2> HIDE DEF m
  <2>2. m \in Int /\ 1 \in Int
    BY <1>1, <2>1
  <2>3. IsFiniteSet(1..m)
    BY <2>2, FS_Interval
  <2> QED
    BY <2>3, FS_Subset DEF m
<1>5. /\ B \in [J -> SUBSET D] /\ I \in SUBSET D
      /\ \A j, k \in J : j # k => B[j] \cap B[k] = {}
      /\ I = UNION {B[j] : j \in J}
      /\ \A j \in J : B[j] = Members(levels, l, j)
  BY <1>3
<1>6. ASSUME NEW w, \A i \in D : w[i] \in Int
      PROVE  Sum([j \in J |-> Sum(w, B[j])], J) = Sum(w, I)
  <2>1. IsFiniteSet(D) /\ B \in [J -> SUBSET D] /\ \A j, k \in J : j # k => B[j] \cap B[k] = {}
    BY <1>1, <1>5
  <2> HIDE DEF B, I, D
  <2>2. Sum([j \in J |-> Sum(w, B[j])], J) = Sum(w, UNION {B[j] : j \in J})
    BY <1>4, <1>6, <2>1, SumFlat
  <2> QED
    BY <1>5, <2>2
<1> HIDE DEF B, I
<1>7. \A i \in D : Amounts(levels)[i] \in Int /\ Counts(levels)[i] \in Int /\ Values(levels)[i] \in Int
  BY <1>1, WeightsNat
<1> DEFINE a == [j \in J |-> Sum(Amounts(levels), B[j])]
           c == [j \in J |-> Sum(Counts(levels), B[j])]
           v == [j \in J |-> Sum(Values(levels), B[j])]
           u == Values(out)
<1>8. Sum(a, J) = Total(levels, I) /\ Sum(c, J) = Orders(levels, I) /\ Sum(v, J) = Value(levels, I)
  BY <1>5, <1>6, <1>7, SumsAre
<1>9. ASSUME NEW j \in J
      PROVE  /\ Amounts(out)[j] = a[j] /\ Counts(out)[j] = c[j]
             /\ u[j] \in Int /\ v[j] \in Int /\ a[j] \in Int
             /\ u[j] <= v[j] /\ v[j] < u[j] + a[j]
  <2> DEFINE K == Members(levels, l, j)
             k == Bucket(levels, l, K)
             p == k.price
             x == Total(levels, K)
  <2>1. /\ k.amount = x
        /\ k.orders = Orders(levels, K)
        /\ p \in Nat
        /\ p * x <= Value(levels, K)
        /\ Value(levels, K) < p * x + x
    BY BucketIs
  <2>2. x \in Nat /\ Value(levels, K) \in Nat
    BY BucketSums
  <2>3. out[j] = k /\ j \in DOMAIN out
    BY <1>2
  <2>4. a[j] = x /\ c[j] = Orders(levels, K) /\ v[j] = Value(levels, K)
    BY <1>5, SumsAre
  <2>5. Amounts(out)[j] = k.amount /\ Counts(out)[j] = k.orders /\ u[j] = p * k.amount
    BY <2>3 DEF Amounts, Counts, Values
  <2>6. p * x \in Int
    BY <2>1, <2>2
  <2> HIDE DEF a, c, v, u, p, k, x
  <2> QED
    BY <2>1, <2>2, <2>4, <2>5, <2>6
<1> HIDE DEF a, c, v, u, out, m, D
<1>10. Total(out, J) = Sum(a, J) /\ Orders(out, J) = Sum(c, J) /\ Value(out, J) = Sum(u, J)
  <2>1. Total(out, J) = Sum(Amounts(out), J) /\ Orders(out, J) = Sum(Counts(out), J)
        /\ Value(out, J) = Sum(Values(out), J)
    BY <1>2, SumsAre DEF m
  <2>2. Sum(Amounts(out), J) = Sum(a, J) /\ Sum(Counts(out), J) = Sum(c, J)
    BY <1>4, <1>9, SumSame
  <2> QED
    BY <2>1, <2>2 DEF u
<1>11. Sum(u, J) <= Sum(v, J) /\ Sum(v, J) < Sum(u, J) + Sum(a, J)
  BY <1>4, <1>9, SumNear
<1>12. Sum(u, J) \in Int /\ Sum(v, J) \in Int /\ Sum(a, J) \in Int
  BY <1>4, <1>9, SumStep
<1>13. Total(levels, I) \in 1..MaxInt
  <2>1. Total(levels, I) \in Nat /\ Total(levels, I) <= Total(levels, D) /\ Total(levels, D) \in Nat
    BY <1>1, <1>5, SumsNat DEF D
  <2>2. Total(levels, I) > 0
    BY <1>8, <1>11, <1>12
  <2>3. Total(levels, D) <= MaxInt
    BY DEF Small, D
  <2> QED
    BY <2>1, <2>2, <2>3, LevelsAssumption
<1>14. Value(levels, I) - Value(out, J) \in 0..(Total(out, J) - 1)
  BY <1>8, <1>10, <1>11, <1>12
<1> QED
  BY <1>8, <1>10, <1>13, <1>14 DEF Faithful, out, I

\* Levels that are not merged are shown as they are.
LEMMA SelfFaithful ==
    ASSUME NEW levels, Side(levels), Small(levels), NEW I \in SUBSET DOMAIN levels, I # {}
    PROVE  Faithful(levels, I, levels, I)
<1> DEFINE x == Total(levels, I)
           t == Total(levels, DOMAIN levels)
           v == Value(levels, I)
<1>1. levels \in Seq(Level)
  BY SideIs
<1>2. x \in Nat /\ x > 0 /\ x <= t /\ v \in Nat
  BY <1>1, SumsNat
<1>3. t \in Nat /\ t <= MaxInt
  BY <1>1, SumsNat DEF Small
<1>4. Faithful(levels, I, levels, I) <=> x \in 1..MaxInt /\ v - v \in 0..(x - 1)
  BY DEF Faithful
<1> HIDE DEF x, t, v
<1> QED
  BY <1>2, <1>3, <1>4, LevelsAssumption

\* The first levels shown hold what a number of first levels held, and so do the last.
LEMMA EndsFaithful ==
    ASSUME NEW levels, Side(levels), Small(levels), NEW l \in Nat \ {0},
           NEW i \in 1..Len(AggregateLevels(levels, l))
    PROVE  LET out == AggregateLevels(levels, l)
               m == Len(out)
               n == Len(levels)
           IN  /\ \E k \in 1..n : Faithful(out, 1..i, levels, 1..k) /\ (i = m => k = n)
               /\ \E k \in 1..n : /\ Faithful(out, (m - i + 1)..m, levels, (n - k + 1)..n)
                                  /\ i = m => k = n
               /\ Orders(out, 1..m) = Orders(levels, 1..n)
<1> DEFINE out == AggregateLevels(levels, l)
           m == Len(out)
           n == Len(levels)
<1>1. levels \in Seq(Level) /\ n \in Nat /\ DOMAIN levels = 1..n
  BY SideIs
<1>2. m \in Nat
  BY AggregateIs, LenProperties
<1>3. CASE ~ Long(levels, l)
  <2>1. out = levels /\ m = n
    BY <1>3, AggregateIs
  <2> HIDE DEF out, m
  <2>2. i \in 1..n
    BY <2>1 DEF out, m
  <2> HIDE DEF n
  <2>3. 1..i \in SUBSET (1..n) /\ 1 \in 1..i
    BY <1>1, <2>2
  <2>4. (n - i + 1)..n \in SUBSET (1..n) /\ n \in (n - i + 1)..n
    BY <1>1, <2>2
  <2>5. Faithful(levels, 1..i, levels, 1..i)
    <3> DEFINE I == 1..i
    <3>1. I \in SUBSET DOMAIN levels /\ I # {}
      BY <1>1, <2>3
    <3> HIDE DEF I
    <3> QED
      BY <3>1, SelfFaithful DEF I
  <2>6. Faithful(levels, (n - i + 1)..n, levels, (n - i + 1)..n)
    <3> DEFINE I == (n - i + 1)..n
    <3>1. I \in SUBSET DOMAIN levels /\ I # {}
      BY <1>1, <2>4
    <3> HIDE DEF I
    <3> QED
      BY <3>1, SelfFaithful DEF I
  <2> QED
    BY <2>1, <2>2, <2>5, <2>6 DEF n, m, out
<1>4. CASE Long(levels, l)
  <2> DEFINE b == Buckets(levels, l)
             members(j) == Members(levels, l, j)
             first(k) == First(levels, l, k)
             last(k) == Last(levels, l, k)
  <2>1. m = b
    BY <1>4, AggregateIs
  <2>2. /\ \A k \in 1..b : last(k) \in 1..n /\ UNION {members(j) : j \in 1..k} = 1..last(k)
        /\ \A k \in 1..b : UNION {members(j) : j \in k..b} = first(k)..n
        /\ last(b) = n
    BY <1>4, MembersAre
  <2>3. /\ \A k \in 1..b : first(k) \in 1..n
        /\ first(1) = 1
    BY <1>4, BucketsAre
  <2>4. ASSUME NEW J \in SUBSET (1..b), J # {}
        PROVE  /\ Faithful(out, J, levels, UNION {members(j) : j \in J})
               /\ Orders(out, J) = Orders(levels, UNION {members(j) : j \in J})
    BY <1>4, <2>4, BucketsFaithful
  <2>5. i \in 1..b
    BY <2>1
  <2> HIDE DEF out, b, members, first, last, n, m
  <2>b. b \in Nat /\ i \in Int /\ b \in 1..b /\ 1 \in 1..b
    BY <1>2, <2>1, <2>5
  <2>6. Faithful(out, 1..i, levels, 1..last(i)) /\ last(i) \in 1..n
    <3> DEFINE J == 1..i
    <3>1. J \in SUBSET (1..b) /\ J # {}
      BY <2>5, <2>b
    <3>2. UNION {members(j) : j \in J} = 1..last(i)
      BY <2>2, <2>5
    <3> HIDE DEF J
    <3>3. Faithful(out, J, levels, UNION {members(j) : j \in J})
      BY <2>4, <3>1
    <3> QED
      BY <2>2, <2>5, <3>2, <3>3 DEF J
  <2> DEFINE s == b - i + 1
             k == n - first(s) + 1
  <2>7. s \in 1..b /\ (i = b => s = 1)
    BY <2>5, <2>b
  <2>8. first(s) \in 1..n
    BY <2>3, <2>7
  <2>9. k \in 1..n /\ n - k + 1 = first(s)
    <3> DEFINE f == first(s)
    <3>1. f \in 1..n
      BY <2>8
    <3> HIDE DEF f
    <3>2. n - f + 1 \in 1..n /\ n - (n - f + 1) + 1 = f
      BY <1>1, <3>1
    <3> QED
      BY <3>2 DEF f
  <2>10. i = b => k = n
    BY <1>1, <2>3, <2>7
  <2>11. Faithful(out, s..b, levels, first(s)..n)
    <3> DEFINE J == s..b
    <3>1. J \in SUBSET (1..b) /\ J # {}
      <4>1. b \in J
        BY <2>7, <2>b
      <4>2. J \in SUBSET (1..b)
        BY <2>7, <2>b
      <4> QED
        BY <4>1, <4>2
    <3>2. UNION {members(j) : j \in J} = first(s)..n
      BY <2>2, <2>7
    <3> HIDE DEF J
    <3>3. Faithful(out, J, levels, UNION {members(j) : j \in J})
      BY <2>4, <3>1
    <3> QED
      BY <3>2, <3>3 DEF J
  <2>12. Orders(out, 1..b) = Orders(levels, 1..n)
    <3> DEFINE J == 1..b
    <3>1. J \in SUBSET (1..b) /\ J # {}
      BY <2>b
    <3>2. UNION {members(j) : j \in J} = 1..n
      BY <2>2, <2>b
    <3> HIDE DEF J
    <3>3. Orders(out, J) = Orders(levels, UNION {members(j) : j \in J})
      BY <2>4, <3>1
    <3> QED
      BY <3>2, <3>3 DEF J
  <2>13. \E q \in 1..n : Faithful(out, 1..i, levels, 1..q) /\ (i = m => q = n)
    BY <2>1, <2>2, <2>6
  <2>14. \E q \in 1..n : /\ Faithful(out, (m - i + 1)..m, levels, (n - q + 1)..n)
                         /\ i = m => q = n
    <3>1. Faithful(out, (m - i + 1)..m, levels, (n - k + 1)..n)
      BY <2>1, <2>9, <2>11
    <3> HIDE DEF k
    <3> QED
      BY <2>1, <2>9, <2>10, <3>1
  <2> QED
    BY <2>1, <2>12, <2>13, <2>14 DEF n, m, out
<1> QED
  BY <1>3, <1>4

\* The bids turned round.
Reversed(side) == [i \in DOMAIN side |-> side[Len(side) - i + 1]]

LEMMA ReversedIs ==
    ASSUME NEW side \in Seq(Merged)
    PROVE  LET m == Len(side)
               rev == Reversed(side)
           IN  /\ rev \in Seq(Merged)
               /\ Len(rev) = m /\ DOMAIN rev = 1..m /\ DOMAIN side = 1..m /\ m \in Nat
               /\ \A i \in 1..m : m - i + 1 \in 1..m /\ rev[i] = side[m - i + 1]
               /\ side # <<>> => rev # <<>>
<1> DEFINE m == Len(side)
           rev == Reversed(side)
<1>1. m \in Nat /\ DOMAIN side = 1..m /\ \A i \in 1..m : side[i] \in Merged
  BY LenProperties, ElementOfSeq
<1>2. rev = [i \in 1..m |-> side[m - i + 1]]
  BY <1>1 DEF Reversed
<1> HIDE DEF m, rev
<1>3. \A i \in 1..m : m - i + 1 \in 1..m
  BY <1>1
<1>4. rev \in [1..m -> Merged]
  BY <1>1, <1>2, <1>3
<1>5. rev \in Seq(Merged)
  BY <1>1, <1>4, SeqDef
<1>6. Len(rev) = m /\ DOMAIN rev = 1..m
  <2>1. DOMAIN rev = 1..m /\ DOMAIN rev = 1..Len(rev) /\ Len(rev) \in Nat
    BY <1>4, <1>5, LenProperties
  <2> QED
    BY <1>1, <2>1
<1>7. \A i \in 1..m : m - i + 1 \in 1..m /\ rev[i] = side[m - i + 1]
  BY <1>2, <1>3
<1>8. side # <<>> => rev # <<>>
  <2>1. side # <<>> => m # 0
    BY EmptySeq DEF m
  <2>2. rev = <<>> => Len(rev) = 0
    BY EmptySeq
  <2> QED
    BY <1>6, <2>1, <2>2
<1> QED
  BY <1>1, <1>5, <1>6, <1>7, <1>8 DEF m, rev

LEMMA ReversedSums ==
    ASSUME NEW side \in Seq(Merged), NEW i \in 1..Len(side)
    PROVE  LET m == Len(side)
               rev == Reversed(side)
               J == (m - i + 1)..m
           IN  /\ Total(rev, 1..i) = Total(side, J)
               /\ Value(rev, 1..i) = Value(side, J)
               /\ Orders(rev, 1..i) = Orders(side, J)
<1> DEFINE m == Len(side)
           rev == Reversed(side)
           I == 1..i
           J == (m - i + 1)..m
           f == [x \in I |-> m - x + 1]
<1>1. /\ m \in Nat /\ DOMAIN rev = 1..m /\ DOMAIN side = 1..m
      /\ \A x \in 1..m : m - x + 1 \in 1..m /\ rev[x] = side[m - x + 1]
  BY ReversedIs
<1>2. \A x \in 1..m : side[x].price \in Nat /\ side[x].amount \in Int /\ side[x].orders \in Int
  <2>1. \A x \in 1..m : side[x] \in Merged
    BY ElementOfSeq
  <2> QED
    BY <2>1, Integral DEF Merged
<1>i. i \in 1..m
  OBVIOUS
<1> HIDE DEF m, rev
<1>3. I \in SUBSET (1..m) /\ J \in SUBSET (1..m) /\ IsFiniteSet(I)
  <2>1. IsFiniteSet(I)
    BY <1>i, FS_Interval
  <2> QED
    BY <1>1, <1>i, <2>1
<1>4. \A x, y \in I : f[x] = f[y] => x = y
  BY <1>1
<1>5. {f[x] : x \in I} = J
  <2>1. ASSUME NEW x \in I PROVE f[x] \in J
    BY <1>1, <1>i
  <2>2. ASSUME NEW y \in J PROVE m - y + 1 \in I /\ f[m - y + 1] = y
    BY <1>1, <1>i
  <2> HIDE DEF f, I, J
  <2> QED
    BY <2>1, <2>2
<1>6. \A x \in I : f[x] = m - x + 1 /\ f[x] \in 1..m /\ x \in 1..m
  BY <1>1, <1>3
<1> HIDE DEF f, I, J
<1>7. ASSUME NEW w, NEW v, \A x \in 1..m : w[x] \in Int, \A x \in I : v[x] = w[f[x]]
      PROVE  Sum(v, I) = Sum(w, J)
  <2>1. \A x \in I : w[f[x]] \in Int
    BY <1>6, <1>7
  <2>2. Sum([x \in I |-> w[f[x]]], I) = Sum(w, {f[x] : x \in I})
    BY <1>3, <1>4, <2>1, SumOver
  <2> DEFINE g == [x \in I |-> w[f[x]]]
  <2>3. \A x \in I : v[x] = g[x]
    BY <1>7
  <2> HIDE DEF g
  <2>4. Sum(v, I) = Sum(g, I)
    BY <1>3, <2>3, SumSame
  <2> QED
    BY <1>5, <2>2, <2>4 DEF g
<1>8. ASSUME NEW x \in 1..m
      PROVE  /\ Amounts(side)[x] \in Int /\ Amounts(side)[x] = side[x].amount
             /\ Counts(side)[x] \in Int /\ Counts(side)[x] = side[x].orders
             /\ Values(side)[x] \in Int /\ Values(side)[x] = side[x].price * side[x].amount
  BY <1>1, <1>2 DEF Amounts, Counts, Values
<1>9. ASSUME NEW x \in I
      PROVE  /\ Amounts(rev)[x] = Amounts(side)[f[x]]
             /\ Counts(rev)[x] = Counts(side)[f[x]]
             /\ Values(rev)[x] = Values(side)[f[x]]
  <2>1. rev[x] = side[f[x]] /\ x \in DOMAIN rev /\ f[x] \in DOMAIN side
    BY <1>1, <1>6
  <2> QED
    BY <2>1 DEF Amounts, Counts, Values
<1>10. /\ Sum(Amounts(rev), I) = Sum(Amounts(side), J)
       /\ Sum(Counts(rev), I) = Sum(Counts(side), J)
       /\ Sum(Values(rev), I) = Sum(Values(side), J)
  BY <1>7, <1>8, <1>9
<1>11. /\ Total(rev, I) = Sum(Amounts(rev), I) /\ Orders(rev, I) = Sum(Counts(rev), I)
       /\ Value(rev, I) = Sum(Values(rev), I)
       /\ Total(side, J) = Sum(Amounts(side), J) /\ Orders(side, J) = Sum(Counts(side), J)
       /\ Value(side, J) = Sum(Values(side), J)
  BY <1>1, <1>3, SumsAre
<1> QED
  BY <1>10, <1>11 DEF m, rev, I, J

----------------------------------------------------------------------------
(* The handler *)

\* What becomes of a side.
Shaped(raw) == AggregateLevels(FilterOutliers(raw), limit)

\* At each step, how far both sides have come.
Progress ==
    /\ Side(rawAsks) /\ Side(rawBids)
    /\ pc \in {"asks", "bids", "filter", "aggregate", "reverse", "sums"} \/ Responded
          => limit \in 1..MaxLimit
    /\ pc \in {"bids", "filter"} => asks = rawAsks
    /\ pc = "filter" => bids = rawBids
    /\ pc = "aggregate" => asks = FilterOutliers(rawAsks) /\ bids = FilterOutliers(rawBids)
    /\ pc \in {"reverse", "sums"} \/ Responded => asks = Shaped(rawAsks)
    /\ pc = "reverse" => bids = Shaped(rawBids)
    /\ pc = "sums" \/ Responded => bids = Reversed(Shaped(rawBids))
    /\ Responded =>
          /\ askSums = Sums(asks) /\ bidSums = Sums(bids)
          /\ spread = IF asks # <<>> /\ bids # <<>> THEN {asks[1].price - bids[1].price} ELSE {}

BInv == TypeOK /\ Progress

LEMMA NoSide == Side(<<>>) /\ <<>> \in Seq(Merged)
<1>1. <<>> \in Seq(Level) /\ <<>> \in Seq(Merged) /\ Len(<<>>) = 0
  BY EmptySeq
<1>2. DOMAIN <<>> = {}
  OBVIOUS
<1> QED
  BY <1>1, <1>2 DEF Side, Ascending

LEMMA SideMerged == ASSUME NEW levels, Side(levels) PROVE levels \in Seq(Merged)
<1>1. Level \subseteq Merged
  BY Integral
<1> QED
  BY <1>1, SeqMonotonic DEF Side

LEMMA BookSide == ASSUME NEW levels \in Books PROVE Side(levels)
BY BookAssumption DEF Side

LEMMA InitBInv == Init => BInv
<1> SUFFICES ASSUME Init PROVE BInv
  OBVIOUS
<1>1. TypeOK
  BY NoSide, EmptySeq, BookAssumption DEF Init, TypeOK, Side
<1>2. Progress
  BY NoSide DEF Init, Progress, Responded
<1> QED
  BY <1>1, <1>2 DEF BInv

\* The running sums: an int64 amount, and an integer value.
LEMMA SumsType ==
    ASSUME NEW side \in Seq(Merged)
    PROVE  Sums(side) \in Seq([amount : Int64, value : Int])
<1> DEFINE m == Len(side)
<1>1. m \in Nat /\ DOMAIN side = 1..m /\ \A i \in 1..m : side[i] \in Merged
  BY LenProperties, ElementOfSeq
<1>2. \A i \in 1..m : Amounts(side)[i] \in Int /\ Values(side)[i] \in Int
  <2>1. ASSUME NEW i \in 1..m PROVE side[i].amount \in Int /\ side[i].price \in Nat
    BY <1>1, Integral DEF Merged
  <2>2. ASSUME NEW i \in 1..m
        PROVE  Amounts(side)[i] = side[i].amount
               /\ Values(side)[i] = side[i].price * side[i].amount
    BY <1>1 DEF Amounts, Values
  <2> QED
    BY <2>1, <2>2
<1>3. ASSUME NEW i \in 1..m PROVE Total(side, 1..i) \in Int /\ Value(side, 1..i) \in Int
  <2> DEFINE I == 1..i
  <2>1. i \in 1..m
    OBVIOUS
  <2> HIDE DEF m
  <2>2. IsFiniteSet(I) /\ I \in SUBSET DOMAIN side
    BY <1>1, <2>1, FS_Interval
  <2>3. \A x \in I : Amounts(side)[x] \in Int /\ Values(side)[x] \in Int
    BY <1>1, <1>2, <2>2
  <2> HIDE DEF I
  <2>4. Sum(Amounts(side), I) \in Int /\ Sum(Values(side), I) \in Int
    BY <2>2, <2>3, SumStep
  <2>5. Total(side, I) \in Int /\ Value(side, I) \in Int
    BY <2>2, <2>4, SumsAre
  <2> QED
    BY <2>5 DEF I
<1>4. ASSUME NEW i \in 1..m
      PROVE  [amount |-> Wrap(Total(side, 1..i)), value |-> Value(side, 1..i)]
                \in [amount : Int64, value : Int]
  <2>1. Wrap(Total(side, 1..i)) \in Int64
    BY <1>3, WrapInt
  <2> QED
    BY <1>3, <2>1
<1>5. Sums(side) \in [1..m -> [amount : Int64, value : Int]]
  BY <1>1, <1>4 DEF Sums
<1>6. Sums(side) \in UNION {[1..n -> [amount : Int64, value : Int]] : n \in Nat}
  <2> HIDE DEF m
  <2> QED
    BY <1>1, <1>5, Zenon
<1> QED
  BY <1>6, SeqDef, Zenon

LEMMA ShapedIs ==
    ASSUME NEW raw, Side(raw), limit \in 1..MaxLimit
    PROVE  Shaped(raw) \in Seq(Merged) /\ Reversed(Shaped(raw)) \in Seq(Merged)
<1>1. Side(FilterOutliers(raw))
  BY FilterSide
<1>2. limit \in Nat \ {0}
  BY BookAssumption
<1>3. Shaped(raw) \in Seq(Merged)
  BY <1>1, <1>2, AggregateIs DEF Shaped
<1> QED
  BY <1>3, ReversedIs

LEMMA NextBInv == BInv /\ [Next]_vars => BInv'
<1> SUFFICES ASSUME TypeOK, Progress, [Next]_vars PROVE TypeOK' /\ Progress'
  BY DEF BInv
<1>1. CASE Refuse
  <2>1. Progress'
    BY <1>1 DEF Refuse, Progress, Responded, Shaped, Sums
  <2> QED
    BY <1>1, <2>1 DEF Refuse, TypeOK
<1>2. ASSUME NEW l \in Limits, Accept(l) PROVE TypeOK' /\ Progress'
  <2>1. limit' \in 1..MaxLimit
    BY <1>2, BookAssumption DEF Accept
  <2>2. Progress'
    BY <1>2, <2>1 DEF Accept, Progress, Responded, Shaped
  <2>3. limit' \in 0..MaxLimit
    BY <2>1, BookAssumption
  <2> QED
    BY <1>2, <2>2, <2>3 DEF Accept, TypeOK
<1>3. ASSUME NEW levels \in Books, GetAsks(levels) PROVE TypeOK' /\ Progress'
  <2>1. Side(levels) /\ levels \in Seq(Merged)
    BY BookSide, SideMerged
  <2>2. Progress'
    BY <1>3, <2>1 DEF GetAsks, Progress, Responded, Shaped
  <2> QED
    BY <1>3, <2>1, <2>2 DEF GetAsks, TypeOK, Side
<1>4. ASSUME NEW levels \in Books, GetBids(levels) PROVE TypeOK' /\ Progress'
  <2>1. Side(levels) /\ levels \in Seq(Merged)
    BY BookSide, SideMerged
  <2>2. Progress'
    BY <1>4, <2>1 DEF GetBids, Progress, Responded, Shaped
  <2> QED
    BY <1>4, <2>1, <2>2 DEF GetBids, TypeOK, Side
<1>5. CASE CacheFails
  <2>1. Progress'
    BY <1>5 DEF CacheFails, Progress, Responded, Shaped
  <2> QED
    BY <1>5, <2>1 DEF CacheFails, TypeOK
<1>6. CASE Filter
  <2>1. asks' = FilterOutliers(rawAsks) /\ bids' = FilterOutliers(rawBids)
    BY <1>6 DEF Filter, Progress
  <2>2. asks' \in Seq(Merged) /\ bids' \in Seq(Merged)
    <3>1. Side(FilterOutliers(rawAsks)) /\ Side(FilterOutliers(rawBids))
      BY FilterSide DEF Progress
    <3> QED
      BY <2>1, <3>1, SideMerged
  <2>3. Progress'
    BY <1>6, <2>1 DEF Filter, Progress, Responded, Shaped
  <2> QED
    BY <1>6, <2>2, <2>3 DEF Filter, TypeOK
<1>7. CASE Aggregate
  <2>1. asks' = Shaped(rawAsks) /\ bids' = Shaped(rawBids) /\ limit \in 1..MaxLimit
    BY <1>7 DEF Aggregate, Progress, Shaped
  <2>2. asks' \in Seq(Merged) /\ bids' \in Seq(Merged)
    BY <2>1, ShapedIs DEF Progress
  <2>3. Progress'
    BY <1>7, <2>1 DEF Aggregate, Progress, Responded, Shaped
  <2> QED
    BY <1>7, <2>2, <2>3 DEF Aggregate, TypeOK
<1>8. CASE ReverseBids
  <2>1. bids' = Reversed(Shaped(rawBids)) /\ limit \in 1..MaxLimit
    BY <1>8 DEF ReverseBids, Progress, Reversed
  <2>2. bids' \in Seq(Merged)
    BY <2>1, ShapedIs DEF Progress
  <2>3. Progress'
    BY <1>8, <2>1 DEF ReverseBids, Progress, Responded, Shaped
  <2> QED
    BY <1>8, <2>2, <2>3 DEF ReverseBids, TypeOK
<1>9. CASE Respond
  <2>1. /\ rawAsks' = rawAsks /\ rawBids' = rawBids /\ limit' = limit
        /\ asks' = asks /\ bids' = bids /\ pc' = "responded" /\ status' = 200
        /\ askSums' = Sums(asks)' /\ bidSums' = Sums(bids)'
        /\ spread' = IF asks # <<>> /\ bids # <<>> THEN {asks[1].price - bids[1].price} ELSE {}
    BY <1>9 DEF Respond, Sums
  <2>2. limit \in 1..MaxLimit /\ asks = Shaped(rawAsks) /\ bids = Reversed(Shaped(rawBids))
    BY <1>9 DEF Respond, Progress
  <2>3. Shaped(rawAsks)' = Shaped(rawAsks) /\ Shaped(rawBids)' = Shaped(rawBids)
    BY <2>1 DEF Shaped
  <2>4. Progress'
    BY <2>1, <2>2, <2>3 DEF Progress, Responded
  <2>5. /\ askSums' \in Seq([amount : Int64, value : Int])
        /\ bidSums' \in Seq([amount : Int64, value : Int])
    <3>1. asks \in Seq(Merged) /\ bids \in Seq(Merged)
      BY DEF TypeOK
    <3>2. askSums' = Sums(asks) /\ bidSums' = Sums(bids)
      BY <1>9 DEF Respond
    <3> QED
      BY <3>1, <3>2, SumsType
  <2> QED
    BY <2>1, <2>4, <2>5 DEF TypeOK
<1>10. CASE UNCHANGED vars
  <2>1. TypeOK'
    BY <1>10 DEF vars, TypeOK
  <2>2. Progress'
    BY <1>10 DEF vars, Progress, Responded, Shaped
  <2> QED
    BY <2>1, <2>2
<1> QED
  BY <1>1, <1>2, <1>3, <1>4, <1>5, <1>6, <1>7, <1>8, <1>9, <1>10 DEF Next

\* Both sides are at every step what the handler has made of the database's levels so far.
THEOREM BookInvariance == Spec => []BInv
<1>1. Init => BInv
  BY InitBInv
<1>2. BInv /\ [Next]_vars => BInv'
  BY NextBInv
<1> QED
  BY <1>1, <1>2, PTL DEF Spec

\* Every variable of the handler keeps its type: merged levels are levels again, whatever
\* sums wrap on the way.
THEOREM TypeCorrect == Spec => []TypeOK
<1>1. BInv => TypeOK
  BY DEF BInv
<1> QED
  BY <1>1, BookInvariance, PTL

\* A side of a response, and what the filter has left of it.
LEMMA ResponseIs ==
    ASSUME BInv, Responded
    PROVE  /\ limit \in Nat \ {0}
           /\ Side(FilterOutliers(rawAsks)) /\ Side(FilterOutliers(rawBids))
           /\ asks = Shaped(rawAsks) /\ bids = Reversed(Shaped(rawBids))
           /\ Shaped(rawAsks) \in Seq(Merged) /\ Shaped(rawBids) \in Seq(Merged)
           /\ Fits => Small(FilterOutliers(rawAsks)) /\ Small(FilterOutliers(rawBids))
<1>1. Side(rawAsks) /\ Side(rawBids) /\ limit \in 1..MaxLimit
      /\ asks = Shaped(rawAsks) /\ bids = Reversed(Shaped(rawBids))
  BY DEF BInv, Progress
<1>2. limit \in Nat \ {0}
  BY <1>1, BookAssumption
<1>3. ASSUME NEW raw, Side(raw)
      PROVE  /\ Side(FilterOutliers(raw))
             /\ Total(raw, DOMAIN raw) <= MaxInt => Small(FilterOutliers(raw))
  <2> DEFINE clean == FilterOutliers(raw)
  <2>1. Side(clean) /\ Total(clean, DOMAIN clean) <= Total(raw, DOMAIN raw)
    BY <1>3, FilterSide
  <2>2. clean \in Seq(Level) /\ raw \in Seq(Level)
    BY <1>3, <2>1 DEF Side
  <2> DEFINE x == Total(clean, DOMAIN clean)
             y == Total(raw, DOMAIN raw)
  <2>3. x \in Nat /\ y \in Nat
    BY <2>2, SumsNat
  <2>4. x <= y
    BY <2>1
  <2> HIDE DEF x, y
  <2>5. y <= MaxInt => x <= MaxInt
    BY <2>3, <2>4, LevelsAssumption
  <2> QED
    BY <2>1, <2>5 DEF x, y, Small
<1> QED
  BY <1>1, <1>2, <1>3, ShapedIs DEF Fits

\* At most twice as many levels as asked for: buckets are as wide as the range of prices
\* over the limit, rounded down, and prices are integers.
THEOREM NeverTwice == Spec => []AtMostTwiceLimit
<1>1. ASSUME BInv, Responded PROVE Len(asks) <= 2 * limit /\ Len(bids) <= 2 * limit
  <2>1. Len(Shaped(rawAsks)) <= 2 * limit /\ Len(Shaped(rawBids)) <= 2 * limit
    BY <1>1, ResponseIs, AggregateIs DEF Shaped
  <2>2. Len(bids) = Len(Shaped(rawBids)) /\ asks = Shaped(rawAsks)
    BY <1>1, ResponseIs, ReversedIs
  <2> QED
    BY <2>1, <2>2
<1>2. BInv => AtMostTwiceLimit
  BY <1>1 DEF AtMostTwiceLimit
<1> QED
  BY <1>2, BookInvariance, PTL

\* The best price comes first on both sides and none comes twice: buckets are disjoint
\* ranges of prices, an average lies in the range, and buckets come by their prices.
THEOREM Best == Spec => []BestFirst
<1>1. ASSUME BInv, Responded, Fits
      PROVE  Ascending(asks) /\ \A i, j \in DOMAIN bids : i < j => bids[i].price > bids[j].price
  <2> DEFINE side == Shaped(rawBids)
             m == Len(side)
  <2>1. Ascending(asks) /\ Ascending(side)
    BY <1>1, ResponseIs, AggregateAscends DEF Shaped
  <2>2. bids = Reversed(side) /\ side \in Seq(Merged)
    BY <1>1, ResponseIs
  <2> HIDE DEF side
  <2>3. /\ DOMAIN bids = 1..m /\ DOMAIN side = 1..m /\ m \in Nat
        /\ \A i \in 1..m : m - i + 1 \in 1..m /\ bids[i] = side[m - i + 1]
    BY <2>2, ReversedIs
  <2> HIDE DEF m
  <2>4. ASSUME NEW i \in 1..m, NEW j \in 1..m, i < j PROVE bids[i].price > bids[j].price
    <3> DEFINE x == m - i + 1
               y == m - j + 1
    <3>1. x \in 1..m /\ y \in 1..m /\ y < x
      BY <2>3, <2>4
    <3>2. bids[i] = side[x] /\ bids[j] = side[y]
      BY <2>3
    <3> HIDE DEF x, y
    <3>3. side[y].price < side[x].price
      BY <2>1, <2>3, <3>1 DEF Ascending
    <3>4. side[x].price \in Nat /\ side[y].price \in Nat
      <4>1. side[x] \in Merged /\ side[y] \in Merged
        BY <2>2, <2>3, <3>1, ElementOfSeq DEF m
      <4> QED
        BY <4>1 DEF Merged
    <3> QED
      BY <3>2, <3>3, <3>4
  <2> QED
    BY <2>1, <2>3, <2>4
<1>2. BInv => BestFirst
  BY <1>1 DEF BestFirst
<1> QED
  BY <1>2, BookInvariance, PTL

\* The top of the book is honest: no side with orders is shown empty, the first level is
\* no better than the best plausible order and misses it by less than a bucket, and the
\* spread is not understated.
THEOREM Top == Spec => []TopOfBook
<1>1. ASSUME BInv, Responded, Fits PROVE TopOfBook
  <2> DEFINE a == FilterOutliers(rawAsks)
             b == FilterOutliers(rawBids)
             side == Shaped(rawBids)
             ta == TickSize(a, limit)
             tb == TickSize(b, limit)
  <2>1. /\ limit \in Nat \ {0} /\ Side(a) /\ Side(b) /\ Small(a) /\ Small(b)
        /\ asks = AggregateLevels(a, limit) /\ side = AggregateLevels(b, limit)
        /\ bids = Reversed(side) /\ side \in Seq(Merged) /\ asks \in Seq(Merged)
    BY <1>1, ResponseIs DEF Shaped
  <2>2. (rawAsks # <<>> => a # <<>>) /\ (rawBids # <<>> => b # <<>>)
    BY <1>1, FilterSide DEF BInv, Progress
  <2>3. spread = IF asks # <<>> /\ bids # <<>> THEN {asks[1].price - bids[1].price} ELSE {}
    BY <1>1 DEF BInv, Progress
  <2> HIDE DEF a, b, side
  <2>4. a # <<>> => /\ asks # <<>>
                    /\ a[1].price \in Nat /\ asks[1].price \in Nat
                    /\ a[1].price <= asks[1].price
                    /\ \/ asks[1].price = a[1].price
                       \/ /\ Len(a) > limit
                          /\ asks[1].price - a[1].price < ta
                          /\ a[1].price - asks[1].price < ta
    BY <2>1, EndsAre
  <2>5. b # <<>> => /\ side # <<>>
                    /\ b[Len(b)].price \in Nat /\ side[Len(side)].price \in Nat
                    /\ side[Len(side)].price <= b[Len(b)].price
                    /\ \/ side[Len(side)].price = b[Len(b)].price
                       \/ /\ Len(b) > limit
                          /\ side[Len(side)].price - b[Len(b)].price < tb
                          /\ b[Len(b)].price - side[Len(side)].price < tb
    BY <2>1, EndsAre
  <2>6. side # <<>> => bids # <<>> /\ bids[1].price = side[Len(side)].price
    <3> SUFFICES ASSUME side # <<>>
                 PROVE  bids # <<>> /\ bids[1].price = side[Len(side)].price
      OBVIOUS
    <3> DEFINE m == Len(side)
    <3>1. m \in Nat \ {0}
      BY <2>1, EmptySeq
    <3>2. bids # <<>> /\ \A i \in 1..m : bids[i] = side[m - i + 1]
      BY <2>1, ReversedIs
    <3> HIDE DEF m
    <3>3. 1 \in 1..m /\ m - 1 + 1 = m
      BY <3>1
    <3> QED
      BY <3>2, <3>3 DEF m
  <2>7. (asks # <<>> => a # <<>>) /\ (bids # <<>> => b # <<>>)
    <3>1. Len(<<>>) = 0 /\ 0 <= limit
      BY <2>1, EmptySeq
    <3>2. AggregateLevels(<<>>, limit) = <<>>
      BY <3>1 DEF AggregateLevels
    <3>3. Reversed(<<>>) = <<>>
      BY DEF Reversed
    <3> QED
      BY <2>1, <3>2, <3>3
  <2> HIDE DEF ta, tb
  <2>8. ASSUME rawAsks # <<>>
        PROVE  /\ asks # <<>> /\ asks[1].price >= a[1].price
               /\ \/ asks[1].price = a[1].price
                  \/ /\ Len(a) > limit
                     /\ asks[1].price - a[1].price < ta
                     /\ a[1].price - asks[1].price < ta
    BY <2>2, <2>4, <2>8
  <2>9. ASSUME rawBids # <<>>
        PROVE  /\ bids # <<>> /\ bids[1].price <= b[Len(b)].price
               /\ \/ bids[1].price = b[Len(b)].price
                  \/ /\ Len(b) > limit
                     /\ bids[1].price - b[Len(b)].price < tb
                     /\ b[Len(b)].price - bids[1].price < tb
    BY <2>2, <2>5, <2>6, <2>9
  <2>10. ASSUME NEW s \in spread PROVE s >= a[1].price - b[Len(b)].price
    <3>1. asks # <<>> /\ bids # <<>> /\ s = asks[1].price - bids[1].price
      BY <2>3
    <3>2. a # <<>> /\ b # <<>>
      BY <2>7, <3>1
    <3> DEFINE x == asks[1].price
               y == bids[1].price
               x0 == a[1].price
               y0 == b[Len(b)].price
    <3>3. x \in Nat /\ y \in Nat /\ x0 \in Nat /\ y0 \in Nat /\ x0 <= x /\ y <= y0 /\ s = x - y
      BY <2>4, <2>5, <2>6, <3>1, <3>2
    <3> HIDE DEF x, y, x0, y0
    <3>4. s >= x0 - y0
      BY <3>3
    <3> QED
      BY <3>4 DEF x0, y0
  <2> QED
    BY <2>8, <2>9, <2>10 DEF TopOfBook, a, b, ta, tb
<1>2. BInv => TopOfBook
  BY <1>1 DEF TopOfBook
<1> QED
  BY <1>2, BookInvariance, PTL

\* The running sums are honest: what is shown down to a level is what a number of the
\* best plausible levels hold, to the unit in amount, and in value less by under one for
\* each unit; at the last level nothing is missing, and every order is counted once.
THEOREM Honest == Spec => []CumulativeHonest
<1> DEFINE clean(side) == FilterOutliers(IF side = "asks" THEN rawAsks ELSE rawBids)
           out(side) == IF side = "asks" THEN asks ELSE bids
           sums(side) == IF side = "asks" THEN askSums ELSE bidSums
           best(side, k) == IF side = "asks" THEN 1..k
                            ELSE (Len(clean(side)) - k + 1)..Len(clean(side))
           honest(side, i, k) ==
               /\ sums(side)[i].amount = Total(clean(side), best(side, k))
               /\ Value(clean(side), best(side, k)) - sums(side)[i].value
                     \in 0..(sums(side)[i].amount - 1)
           SideHonest(side) ==
               /\ \A i \in DOMAIN out(side) : \E k \in DOMAIN clean(side) :
                     honest(side, i, k) /\ (i = Len(out(side)) => k = Len(clean(side)))
               /\ Orders(out(side), DOMAIN out(side)) = Orders(clean(side), DOMAIN clean(side))
<1>1. ASSUME BInv, Responded, Fits PROVE SideHonest("asks")
  <2> DEFINE a == FilterOutliers(rawAsks)
             n == Len(a)
             m == Len(asks)
  <2>1. /\ limit \in Nat \ {0} /\ Side(a) /\ Small(a)
        /\ asks = AggregateLevels(a, limit) /\ asks \in Seq(Merged)
    BY <1>1, ResponseIs DEF Shaped
  <2>2. askSums = Sums(asks)
    BY <1>1 DEF BInv, Progress
  <2> HIDE DEF a
  <2>3. DOMAIN a = 1..n /\ DOMAIN asks = 1..m /\ m \in Nat /\ n \in Nat
    BY <2>1, SideIs, LenProperties
  <2>4. ASSUME NEW i \in 1..m
        PROVE  \E k \in 1..n : /\ askSums[i].amount = Total(a, 1..k)
                               /\ Value(a, 1..k) - askSums[i].value \in 0..(askSums[i].amount - 1)
                               /\ i = m => k = n
    <3>1. PICK k \in 1..n : Faithful(asks, 1..i, a, 1..k) /\ (i = m => k = n)
      BY <2>1, EndsFaithful
    <3>2. askSums[i].amount = Wrap(Total(asks, 1..i)) /\ askSums[i].value = Value(asks, 1..i)
      BY <2>2, <2>3 DEF Sums
    <3>3. /\ Total(asks, 1..i) = Total(a, 1..k) /\ Total(asks, 1..i) \in 1..MaxInt
          /\ Value(a, 1..k) - Value(asks, 1..i) \in 0..(Total(asks, 1..i) - 1)
      BY <3>1 DEF Faithful
    <3>4. Wrap(Total(asks, 1..i)) = Total(asks, 1..i)
      <4> DEFINE x == Total(asks, 1..i)
      <4>1. x \in 1..MaxInt
        BY <3>3
      <4> HIDE DEF x
      <4>2. x \in Int /\ -MaxInt <= x /\ x <= MaxInt
        BY <4>1, LevelsAssumption
      <4>3. Wrap(x) = x
        BY <4>2, WrapFits
      <4> QED
        BY <4>3 DEF x
    <3> QED
      BY <3>1, <3>2, <3>3, <3>4
  <2>5. Orders(asks, 1..m) = Orders(a, 1..n)
    <3>1. CASE m = 0
      <4>1. n = 0
        <5>1. asks = <<>>
          BY <2>1, <3>1, EmptySeq
        <5>2. a = <<>>
          BY <2>1, <5>1, AggregateIs
        <5> QED
          BY <5>2, EmptySeq
      <4>2. 1..m = {} /\ 1..n = {}
        BY <3>1, <4>1
      <4>3. Orders(asks, {}) = Orders(a, {})
        BY Zenon DEF Orders
      <4> QED
        BY <4>2, <4>3
    <3>2. CASE m # 0
      <4>1. 1 \in 1..m
        BY <2>3, <3>2
      <4> QED
        BY <2>1, <4>1, EndsFaithful
    <3> QED
      BY <3>1, <3>2
  <2> QED
    BY <2>3, <2>4, <2>5 DEF a
<1>2. ASSUME BInv, Responded, Fits PROVE SideHonest("bids")
  <2> DEFINE b == FilterOutliers(rawBids)
             side == Shaped(rawBids)
             n == Len(b)
             m == Len(side)
  <2>1. /\ limit \in Nat \ {0} /\ Side(b) /\ Small(b)
        /\ side = AggregateLevels(b, limit) /\ bids = Reversed(side) /\ side \in Seq(Merged)
    BY <1>2, ResponseIs DEF Shaped
  <2>2. bidSums = Sums(bids)
    BY <1>2 DEF BInv, Progress
  <2> HIDE DEF b, side
  <2>3. DOMAIN b = 1..n /\ DOMAIN bids = 1..m /\ Len(bids) = m /\ m \in Nat /\ n \in Nat
    BY <2>1, SideIs, ReversedIs
  <2>4. ASSUME NEW i \in 1..m
        PROVE  \E k \in 1..n :
                  /\ bidSums[i].amount = Total(b, (n - k + 1)..n)
                  /\ Value(b, (n - k + 1)..n) - bidSums[i].value \in 0..(bidSums[i].amount - 1)
                  /\ i = m => k = n
    <3> DEFINE J == (m - i + 1)..m
    <3>1. PICK k \in 1..n : Faithful(side, J, b, (n - k + 1)..n) /\ (i = m => k = n)
      BY <2>1, EndsFaithful
    <3> HIDE DEF J
    <3>2. bidSums[i].amount = Wrap(Total(bids, 1..i)) /\ bidSums[i].value = Value(bids, 1..i)
      BY <2>2, <2>3 DEF Sums
    <3>3. Total(bids, 1..i) = Total(side, J) /\ Value(bids, 1..i) = Value(side, J)
      BY <2>1, ReversedSums DEF J
    <3> DEFINE I == (n - k + 1)..n
    <3>4. /\ Total(side, J) = Total(b, I) /\ Total(side, J) \in 1..MaxInt
          /\ Value(b, I) - Value(side, J) \in 0..(Total(side, J) - 1)
      BY <3>1 DEF Faithful
    <3>5. Wrap(Total(side, J)) = Total(side, J)
      <4> DEFINE x == Total(side, J)
      <4>1. x \in 1..MaxInt
        BY <3>4
      <4> HIDE DEF x
      <4>2. x \in Int /\ -MaxInt <= x /\ x <= MaxInt
        BY <4>1, LevelsAssumption
      <4>3. Wrap(x) = x
        BY <4>2, WrapFits
      <4> QED
        BY <4>3 DEF x
    <3>6. /\ bidSums[i].amount = Total(b, I)
          /\ Value(b, I) - bidSums[i].value \in 0..(bidSums[i].amount - 1)
      <4> HIDE DEF I
      <4> QED
        BY <3>2, <3>3, <3>4, <3>5
    <3> QED
      BY <3>1, <3>6
  <2>5. Orders(bids, 1..m) = Orders(b, 1..n)
    <3>1. CASE m = 0
      <4>1. n = 0
        <5>1. side = <<>>
          BY <2>1, <3>1, EmptySeq
        <5>2. b = <<>>
          BY <2>1, <5>1, AggregateIs
        <5> QED
          BY <5>2, EmptySeq
      <4>2. 1..m = {} /\ 1..n = {}
        BY <3>1, <4>1
      <4>3. Orders(bids, {}) = Orders(b, {})
        BY Zenon DEF Orders
      <4> QED
        BY <4>2, <4>3
    <3>2. CASE m # 0
      <4>1. m \in 1..m /\ (m - m + 1)..m = 1..m
        BY <2>3, <3>2
      <4>2. Orders(bids, 1..m) = Orders(side, (m - m + 1)..m)
        BY <2>1, <4>1, ReversedSums
      <4>3. Orders(side, 1..m) = Orders(b, 1..n)
        BY <2>1, <4>1, EndsFaithful
      <4> QED
        BY <4>1, <4>2, <4>3
    <3> QED
      BY <3>1, <3>2
  <2> QED
    BY <2>3, <2>4, <2>5 DEF b
<1>3. BInv => CumulativeHonest
  <2> SUFFICES ASSUME BInv, Responded, Fits PROVE \A side \in {"asks", "bids"} : SideHonest(side)
    BY DEF CumulativeHonest
  <2>1. SideHonest("asks")
    BY <1>1
  <2>2. SideHonest("bids")
    BY <1>2
  <2> HIDE DEF SideHonest
  <2> QED
    BY <2>1, <2>2
<1> QED
  BY <1>3, BookInvariance, PTL
=============================================================================
