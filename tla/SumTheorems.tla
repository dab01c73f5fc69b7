------------------------------ MODULE SumTheorems ------------------------------
(***************************************************************************)
(* What a sum over a finite set is, for the modules whose invariants are   *)
(* sums: the bytes of files (ScoreCache), the tokens of ranges (Selection) *)
(* and the sizes of batches (Planning).  SumFunctionOnSet is a fold with   *)
(* CHOOSE; these lemmas say what it is without one.                        *)
(*                                                                         *)
(* The inductions are over sets of sets: the induction theorems of the     *)
(* library take an operator, and cannot be instantiated here.              *)
(***************************************************************************)
EXTENDS Integers, FiniteSets, FiniteSetsExt, Functions, FiniteSetTheorems, WellFoundedInduction, TLAPS

-----------------------------------------------------------------------------
\* A set of naturals that is not empty has a least element.
LEMMA LeastNatural ==
  ASSUME NEW T, T \subseteq Nat, T # {}
  PROVE  \E x \in T : \A y \in T : x <= y
  <1> DEFINE R == {ss \in Nat \X Nat : ss[1] < ss[2]}
  <1>1. IsWellFoundedOn(R, Nat)  BY NatLessThanWellFounded, Zenon DEF OpToRel
  <1> HIDE DEF R
  <1>2. \E x \in T : \A y \in T : <<y, x>> \notin R  BY <1>1, WFMin
  <1>3. PICK x \in T : \A y \in T : <<y, x>> \notin R  BY <1>2
  <1>4. \A y \in T : ~(y < x)  BY <1>3 DEF R
  <1> QED  BY <1>4

\* It is the one that Min picks.
LEMMA MinIs ==
  ASSUME NEW T, T \subseteq Nat, T # {}
  PROVE  Min(T) \in T /\ \A x \in T : Min(T) <= x
  BY LeastNatural DEF Min

\* A finite set of integers that is not empty has a greatest element.
LEMMA MaxIs ==
  ASSUME NEW n \in Int, NEW T, T # {}, \A x \in T : x \in Int /\ x <= n
  PROVE  Max(T) \in T /\ \A x \in T : x <= Max(T)
<1> DEFINE D == {n - x : x \in T}
<1>1. D \subseteq Nat /\ D # {}
  OBVIOUS
<1>2. PICK d \in D : \A y \in D : d <= y
  <2> HIDE DEF D
  <2> QED
    BY <1>1, LeastNatural
<1>3. PICK x \in T : d = n - x
  BY <1>2
<1>4. \A y \in T : x >= y
  BY <1>2, <1>3
<1> QED
  BY <1>3, <1>4 DEF Max

\* A set of naturals with 0, and with the successor of all it has, has them all.
LEMMA NaturalInduction ==
  ASSUME NEW T, T \subseteq Nat, 0 \in T, \A n \in T : n + 1 \in T
  PROVE  T = Nat
  <1> SUFFICES ASSUME Nat \ T # {} PROVE FALSE  OBVIOUS
  <1>1. PICK n \in Nat \ T : \A m \in Nat \ T : n <= m  BY LeastNatural
  <1>2. n - 1 \in T  BY <1>1
  <1> QED  BY <1>1, <1>2

\* A family of subsets of a finite set that has the empty one, and every set that is
\* one element more than one it has, has the whole set.
LEMMA SetInduction ==
  ASSUME NEW S, IsFiniteSet(S), NEW T, T \subseteq SUBSET S, {} \in T,
         \A A \in T : \A x \in S \ A : A \cup {x} \in T
  PROVE  S \in T
  <1> DEFINE K == {Cardinality(S \ A) : A \in T}
  <1>1. \A A \in T : Cardinality(S \ A) \in Nat /\ IsFiniteSet(S \ A)
    BY FS_Subset, FS_CardinalityType
  <1>2. K \subseteq Nat /\ K # {}  BY <1>1
  <1> HIDE DEF K
  <1>3. PICK k \in K : \A y \in K : k <= y  BY <1>2, LeastNatural
  <1>4. PICK A \in T : k = Cardinality(S \ A)  BY <1>3 DEF K
  <1>5. ASSUME NEW x \in S \ A PROVE FALSE
    <2>1. A \cup {x} \in T  OBVIOUS
    <2>2. S \ (A \cup {x}) = (S \ A) \ {x}  OBVIOUS
    <2>3. IsFiniteSet(S \ A) /\ x \in S \ A  BY <1>1
    <2>4. Cardinality((S \ A) \ {x}) = Cardinality(S \ A) - 1  BY <2>3, FS_RemoveElement
    <2>5. Cardinality(S \ (A \cup {x})) = k - 1  BY <1>4, <2>2, <2>4
    <2>6. k - 1 \in K  BY <2>1, <2>5 DEF K
    <2> QED  BY <1>2, <1>3, <2>6
  <1>6. A = S  BY <1>5
  <1> QED  BY <1>6

-----------------------------------------------------------------------------
OneOf(s) == CHOOSE x \in s : TRUE

\* g sums f over every subset of S, an element at a time.
Summing(f, S, g) ==
  g = [s \in SUBSET S |-> IF s = {} THEN 0 ELSE f[OneOf(s)] + g[s \ {OneOf(s)}]]

\* A sum is what some summing function gives for the whole set.
LEMMA SumIs ==
  ASSUME NEW f, NEW S
  PROVE  SumFunctionOnSet(f, S) = (CHOOSE g : Summing(f, S, g))[S]
  BY DEF SumFunctionOnSet, FoldFunctionOnSet, MapThenFoldSet, Summing, OneOf

\* The element that a set's first step takes is one of it.
LEMMA OneOfIs == ASSUME NEW s, s # {} PROVE OneOf(s) \in s
  BY DEF OneOf

\* A set and the rest of it.
LEMMA RestOf ==
  ASSUME NEW S, IsFiniteSet(S), NEW s \in SUBSET S
  PROVE  /\ IsFiniteSet(s) /\ Cardinality(s) \in Nat
         /\ \A x \in s : /\ s \ {x} \in SUBSET S /\ IsFiniteSet(s \ {x})
                         /\ Cardinality(s \ {x}) = Cardinality(s) - 1
  <1>1. IsFiniteSet(s)  BY FS_Subset
  <1> QED  BY <1>1, FS_CardinalityType, FS_RemoveElement

\* There is such a function, though it is defined by itself: one that sums larger
\* subsets is made from one that sums smaller ones.
LEMMA SummingExists ==
  ASSUME NEW S, IsFiniteSet(S), NEW f, \A x \in S : f[x] \in Int
  PROVE  \E g \in [SUBSET S -> Int] : Summing(f, S, g)
  <1> DEFINE Eq(g, s) == g[s] = IF s = {} THEN 0 ELSE f[OneOf(s)] + g[s \ {OneOf(s)}]
             Small(n) == {s \in SUBSET S : Cardinality(s) <= n}
             N == {n \in Nat : \E g \in [SUBSET S -> Int] : \A s \in Small(n) : Eq(g, s)}
  <1>1. 0 \in N
    <2> DEFINE z == [s \in SUBSET S |-> 0]
    <2>1. \A s \in Small(0) : s = {}  BY RestOf, FS_EmptySet
    <2>2. z \in [SUBSET S -> Int] /\ \A s \in Small(0) : Eq(z, s)  BY <2>1
    <2> QED  BY <2>2
  <1>2. ASSUME NEW n \in N PROVE n + 1 \in N
    <2>1. PICK g \in [SUBSET S -> Int] : \A s \in Small(n) : Eq(g, s)  OBVIOUS
    <2> DEFINE h == [s \in SUBSET S |->
                       IF s \in Small(n) THEN g[s] ELSE f[OneOf(s)] + g[s \ {OneOf(s)}]]
    <2>2. {} \in Small(n)  BY FS_EmptySet
    <2>3. \A s \in (SUBSET S) \ Small(n) : OneOf(s) \in s  BY <2>2, OneOfIs
    <2>4. h \in [SUBSET S -> Int]
      <3> SUFFICES ASSUME NEW s \in SUBSET S, s \notin Small(n)
                   PROVE  f[OneOf(s)] + g[s \ {OneOf(s)}] \in Int
        OBVIOUS
      <3>1. OneOf(s) \in S /\ s \ {OneOf(s)} \in SUBSET S  BY <2>3
      <3> HIDE DEF Small
      <3> QED  BY <3>1
    <2>5. ASSUME NEW s \in Small(n + 1), s # {}
          PROVE  s \ {OneOf(s)} \in Small(n) /\ OneOf(s) \in s
      BY <2>5, OneOfIs, RestOf
    <2>6. \A s \in Small(n) : h[s] = g[s] /\ s \in Small(n + 1)  BY RestOf
    <2>7. ASSUME NEW s \in Small(n + 1) PROVE Eq(h, s)
      <3>1. CASE s = {}  BY <2>1, <2>2, <2>6, <3>1
      <3>2. CASE s # {} /\ s \in Small(n)  BY <2>1, <2>5, <2>6, <3>2
      <3>3. CASE s \notin Small(n)  BY <2>2, <2>5, <2>6, <3>3
      <3> QED  BY <3>1, <3>2, <3>3
    <2> HIDE DEF h, Eq, Small
    <2>8. n + 1 \in Nat  OBVIOUS
    <2> QED  BY <2>4, <2>7, <2>8
  <1> HIDE DEF N
  <1>3. N = Nat  BY <1>1, <1>2, NaturalInduction DEF N
  <1>4. Cardinality(S) \in N  BY <1>3, FS_CardinalityType
  <1>5. PICK g \in [SUBSET S -> Int] : \A s \in Small(Cardinality(S)) : Eq(g, s)
    BY <1>4 DEF N
  <1>6. \A s \in SUBSET S : s \in Small(Cardinality(S))  BY FS_Subset
  <1>7. \A s \in SUBSET S : Eq(g, s)  BY <1>5, <1>6
  <1>8. g = [s \in SUBSET S |-> IF s = {} THEN 0 ELSE f[OneOf(s)] + g[s \ {OneOf(s)}]]
    BY <1>7
  <1> QED  BY <1>8 DEF Summing

\* What it gives for a set depends on nothing but the values it sums.
LEMMA SummingUnique ==
  ASSUME NEW S, IsFiniteSet(S), NEW U, NEW V, S \subseteq U, S \subseteq V,
         NEW f, NEW e, \A x \in S : f[x] = e[x],
         NEW g, NEW h, Summing(f, U, g), Summing(e, V, h)
  PROVE  g[S] = h[S]
  <1> DEFINE N == {n \in Nat : \A s \in SUBSET S : Cardinality(s) <= n => g[s] = h[s]}
  <1>0. \A s \in SUBSET S :
          /\ g[s] = IF s = {} THEN 0 ELSE f[OneOf(s)] + g[s \ {OneOf(s)}]
          /\ h[s] = IF s = {} THEN 0 ELSE e[OneOf(s)] + h[s \ {OneOf(s)}]
    BY DEF Summing
  <1>1. 0 \in N
    <2>1. \A s \in SUBSET S : Cardinality(s) <= 0 => s = {}  BY RestOf, FS_EmptySet
    <2> QED  BY <1>0, <2>1
  <1>2. ASSUME NEW n \in N PROVE n + 1 \in N
    <2>1. ASSUME NEW s \in SUBSET S, Cardinality(s) <= n + 1, s # {} PROVE g[s] = h[s]
      <3>1. OneOf(s) \in s  BY <2>1, OneOfIs
      <3>2. s \ {OneOf(s)} \in SUBSET S /\ Cardinality(s \ {OneOf(s)}) <= n
        BY <2>1, <3>1, RestOf
      <3>3. g[s \ {OneOf(s)}] = h[s \ {OneOf(s)}]  BY <3>2
      <3> QED  BY <1>0, <2>1, <3>1, <3>3
    <2>2. g[{}] = h[{}]  BY <1>0
    <2>3. \A s \in SUBSET S : Cardinality(s) <= n + 1 => g[s] = h[s]  BY <2>1, <2>2
    <2>4. n + 1 \in Nat  OBVIOUS
    <2> QED  BY <2>3, <2>4
  <1>3. N = Nat
    <2> HIDE DEF N
    <2>1. N \subseteq Nat  BY DEF N
    <2> QED  BY <1>1, <1>2, <2>1, NaturalInduction
  <1> QED  BY <1>3, FS_CardinalityType

-----------------------------------------------------------------------------
\* A sum is an integer, and that of a set with one more element is the element's value more.
LEMMA SumStep ==
  ASSUME NEW S, IsFiniteSet(S), NEW f, \A x \in S : f[x] \in Int
  PROVE  /\ SumFunctionOnSet(f, S) \in Int
         /\ S # {} => SumFunctionOnSet(f, S)
                        = f[OneOf(S)] + SumFunctionOnSet(f, S \ {OneOf(S)})
  <1>1. PICK g \in [SUBSET S -> Int] : Summing(f, S, g)  BY SummingExists
  <1> DEFINE h == CHOOSE k : Summing(f, S, k)
             r == S \ {OneOf(S)}
             j == CHOOSE k : Summing(f, r, k)
  <1>2. Summing(f, S, h)  BY <1>1
  <1> HIDE DEF h
  <1>3. SumFunctionOnSet(f, S) = h[S]  BY SumIs DEF h
  <1>4. h[S] = g[S]  BY <1>1, <1>2, SummingUnique
  <1>5. IsFiniteSet(r) /\ r \subseteq S  BY FS_Subset
  <1>6. PICK q : Summing(f, r, q)  BY <1>5, SummingExists
  <1>7. Summing(f, r, j)  BY <1>6
  <1> HIDE DEF j
  <1>8. SumFunctionOnSet(f, r) = j[r]  BY SumIs DEF j
  <1>9. j[r] = g[r]  BY <1>1, <1>5, <1>7, SummingUnique
  <1> HIDE DEF r
  <1>10. g[S] = IF S = {} THEN 0 ELSE f[OneOf(S)] + g[r]  BY <1>1 DEF Summing, r
  <1>11. SumFunctionOnSet(f, S) = g[S] /\ SumFunctionOnSet(f, r) = g[r]
    BY <1>3, <1>4, <1>8, <1>9
  <1>12. g[S] \in Int  BY <1>1
  <1> QED  BY <1>10, <1>11, <1>12 DEF r

\* Two functions that agree on the set have the same sum over it.
LEMMA SumAgree ==
  ASSUME NEW S, IsFiniteSet(S), NEW f, NEW e, \A x \in S : f[x] \in Int /\ f[x] = e[x]
  PROVE  SumFunctionOnSet(f, S) = SumFunctionOnSet(e, S)
  <1> DEFINE h == CHOOSE k : Summing(f, S, k)
             j == CHOOSE k : Summing(e, S, k)
  <1>1. \E k : Summing(f, S, k)  BY SummingExists
  <1>2. \E k : Summing(e, S, k)
    <2>1. \A x \in S : e[x] \in Int  OBVIOUS
    <2> QED  BY <2>1, SummingExists
  <1>3. Summing(f, S, h) /\ Summing(e, S, j)  BY <1>1, <1>2
  <1> HIDE DEF h, j
  <1>4. h[S] = j[S]  BY <1>3, SummingUnique
  <1> QED  BY <1>4, SumIs DEF h, j

\* Nothing sums up to zero.
LEMMA SumEmpty == ASSUME NEW f PROVE SumFunctionOnSet(f, {}) = 0
  <1> DEFINE g == [s \in SUBSET {} |-> 0]
             h == CHOOSE k : Summing(f, {}, k)
  <1>1. g = [s \in SUBSET {} |-> IF s = {} THEN 0 ELSE f[OneOf(s)] + g[s \ {OneOf(s)}]]
    OBVIOUS
  <1>2. Summing(f, {}, g)  BY <1>1 DEF Summing
  <1>3. Summing(f, {}, h)  BY <1>2
  <1> HIDE DEF h
  <1>4. h[{}] = 0  BY <1>3 DEF Summing
  <1> QED  BY <1>4, SumIs DEF h

\* A value of the sum can be taken apart, whichever it is.
THEOREM SumRemove ==
  ASSUME NEW S, IsFiniteSet(S), NEW f, \A x \in S : f[x] \in Int, NEW x \in S
  PROVE  SumFunctionOnSet(f, S) = f[x] + SumFunctionOnSet(f, S \ {x})
  <1> DEFINE Apart(s) == \A y \in s : SumFunctionOnSet(f, s)
                                       = f[y] + SumFunctionOnSet(f, s \ {y})
             N == {n \in Nat : \A s \in SUBSET S : Cardinality(s) <= n => Apart(s)}
  <1>1. 0 \in N
    <2>1. \A s \in SUBSET S : Cardinality(s) <= 0 => s = {}  BY RestOf, FS_EmptySet
    <2> QED  BY <2>1
  <1>2. ASSUME NEW n \in N PROVE n + 1 \in N
    <2> SUFFICES ASSUME NEW s \in SUBSET S, Cardinality(s) <= n + 1, NEW y \in s
                 PROVE  SumFunctionOnSet(f, s) = f[y] + SumFunctionOnSet(f, s \ {y})
      OBVIOUS
    <2> DEFINE a == OneOf(s)
    <2>1. a \in s  BY OneOfIs
    <2> HIDE DEF a
    <2>2. IsFiniteSet(s) /\ \A z \in s : f[z] \in Int  BY RestOf
    <2>3. SumFunctionOnSet(f, s) = f[a] + SumFunctionOnSet(f, s \ {a})
      BY <2>1, <2>2, SumStep DEF a
    <2>4. CASE y = a  BY <2>3, <2>4
    <2>5. CASE y # a
      <3>1. /\ s \ {a} \in SUBSET S /\ Cardinality(s \ {a}) <= n /\ y \in s \ {a}
            /\ s \ {y} \in SUBSET S /\ Cardinality(s \ {y}) <= n /\ a \in s \ {y}
        BY <2>1, <2>5, RestOf
      <3>2. SumFunctionOnSet(f, s \ {a}) = f[y] + SumFunctionOnSet(f, (s \ {a}) \ {y})
        BY <3>1
      <3>3. SumFunctionOnSet(f, s \ {y}) = f[a] + SumFunctionOnSet(f, (s \ {y}) \ {a})
        BY <3>1
      <3>4. (s \ {a}) \ {y} = (s \ {y}) \ {a}  OBVIOUS
      <3>5. IsFiniteSet((s \ {a}) \ {y})  BY <2>2, FS_Subset
      <3>6. SumFunctionOnSet(f, (s \ {a}) \ {y}) \in Int
        BY <3>5, <2>2, SumStep
      <3>7. f[a] \in Int /\ f[y] \in Int  BY <2>1, <2>2
      <3> HIDE DEF N
      <3>8. SumFunctionOnSet(f, s \ {y}) = f[a] + SumFunctionOnSet(f, (s \ {a}) \ {y})
        BY <3>3, <3>4
      <3> DEFINE rest == SumFunctionOnSet(f, (s \ {a}) \ {y})
      <3>9. rest \in Int  BY <3>6
      <3> HIDE DEF rest
      <3>10. f[a] + (f[y] + rest) = f[y] + (f[a] + rest)  BY <3>7, <3>9
      <3> QED  BY <2>3, <3>2, <3>8, <3>10 DEF rest
    <2> QED  BY <2>4, <2>5
  <1>3. N = Nat
    <2> HIDE DEF N
    <2>1. N \subseteq Nat  BY DEF N
    <2> QED  BY <1>1, <1>2, <2>1, NaturalInduction
  <1> QED  BY <1>3, FS_CardinalityType

\* A sum of naturals is a natural, and of integers an integer.
THEOREM SumType ==
  ASSUME NEW S, IsFiniteSet(S), NEW f, \A x \in S : f[x] \in Nat
  PROVE  SumFunctionOnSet(f, S) \in Nat
  <1> DEFINE T == {A \in SUBSET S : SumFunctionOnSet(f, A) \in Nat}
  <1>1. {} \in T  BY SumEmpty
  <1>2. ASSUME NEW A \in T, NEW x \in S \ A PROVE A \cup {x} \in T
    <2> DEFINE B == A \cup {x}
    <2>1. IsFiniteSet(B) /\ x \in B /\ B \ {x} = A /\ B \in SUBSET S  BY FS_Subset
    <2>2. \A y \in B : f[y] \in Int  BY <2>1
    <2> HIDE DEF B
    <2>3. SumFunctionOnSet(f, B) = f[x] + SumFunctionOnSet(f, A)  BY <2>1, <2>2, SumRemove
    <2>4. SumFunctionOnSet(f, A) \in Nat /\ f[x] \in Nat  OBVIOUS
    <2>5. SumFunctionOnSet(f, B) \in Nat  BY <2>3, <2>4
    <2> QED  BY <2>1, <2>5 DEF B
  <1>3. T \subseteq SUBSET S  OBVIOUS
  <1> HIDE DEF T
  <1>4. S \in T  BY <1>1, <1>2, <1>3, SetInduction
  <1> QED  BY <1>4 DEF T

\* The sum over two sets that have nothing in common is the sum of their sums.
THEOREM SumUnion ==
  ASSUME NEW S, NEW R, IsFiniteSet(S), IsFiniteSet(R), S \cap R = {},
         NEW f, \A x \in S \cup R : f[x] \in Int
  PROVE  SumFunctionOnSet(f, S \cup R) = SumFunctionOnSet(f, S) + SumFunctionOnSet(f, R)
  <1> DEFINE T == {A \in SUBSET R :
               SumFunctionOnSet(f, S \cup A) = SumFunctionOnSet(f, S) + SumFunctionOnSet(f, A)}
  <1>0. SumFunctionOnSet(f, S) \in Int  BY SumStep
  <1>1. {} \in T
    <2>1. S \cup {} = S  OBVIOUS
    <2>2. SumFunctionOnSet(f, S) = SumFunctionOnSet(f, S) + 0  BY <1>0
    <2> QED  BY <2>1, <2>2, SumEmpty
  <1>2. ASSUME NEW A \in T, NEW x \in R \ A PROVE A \cup {x} \in T
    <2> DEFINE B == A \cup {x}
    <2>1. IsFiniteSet(A) /\ IsFiniteSet(B) /\ x \in B /\ B \ {x} = A /\ B \in SUBSET R
      BY FS_Subset
    <2>2. IsFiniteSet(S \cup B) /\ x \in S \cup B /\ (S \cup B) \ {x} = S \cup A
      BY <2>1, FS_Union
    <2>3. \A y \in S \cup B : f[y] \in Int  BY <2>1
    <2> HIDE DEF B
    <2>4. SumFunctionOnSet(f, B) = f[x] + SumFunctionOnSet(f, A)  BY <2>1, <2>3, SumRemove
    <2>5. SumFunctionOnSet(f, S \cup B) = f[x] + SumFunctionOnSet(f, S \cup A)
      BY <2>2, <2>3, SumRemove
    <2>6. SumFunctionOnSet(f, S \cup A) = SumFunctionOnSet(f, S) + SumFunctionOnSet(f, A)
      OBVIOUS
    <2>7. SumFunctionOnSet(f, A) \in Int
      <3>1. \A y \in A : f[y] \in Int  OBVIOUS
      <3> QED  BY <2>1, <3>1, SumStep
    <2>8. f[x] \in Int  OBVIOUS
    <2>9. SumFunctionOnSet(f, S \cup B) = SumFunctionOnSet(f, S) + SumFunctionOnSet(f, B)
      BY <1>0, <2>4, <2>5, <2>6, <2>7, <2>8
    <2> QED  BY <2>1, <2>9 DEF B
  <1>3. T \subseteq SUBSET R  OBVIOUS
  <1> HIDE DEF T
  <1>4. R \in T  BY <1>1, <1>2, <1>3, SetInduction
  <1> QED  BY <1>4 DEF T

\* Fewer naturals have no larger sum.
THEOREM SumMonotone ==
  ASSUME NEW S, IsFiniteSet(S), NEW R \in SUBSET S, NEW f, \A x \in S : f[x] \in Nat
  PROVE  SumFunctionOnSet(f, R) <= SumFunctionOnSet(f, S)
  <1>1. IsFiniteSet(R) /\ IsFiniteSet(S \ R) /\ R \cap (S \ R) = {} /\ R \cup (S \ R) = S
    BY FS_Subset
  <1>2. \A x \in R \cup (S \ R) : f[x] \in Int  OBVIOUS
  <1>3. SumFunctionOnSet(f, R \cup (S \ R))
          = SumFunctionOnSet(f, R) + SumFunctionOnSet(f, S \ R)
    BY <1>1, <1>2, SumUnion
  <1>4. SumFunctionOnSet(f, R) \in Nat /\ SumFunctionOnSet(f, S \ R) \in Nat
    BY <1>1, SumType
  <1>5. SumFunctionOnSet(f, S) = SumFunctionOnSet(f, R) + SumFunctionOnSet(f, S \ R)
    BY <1>1, <1>3
  <1> QED  BY <1>4, <1>5

\* Larger naturals have a larger sum, or the same.
THEOREM SumDominates ==
  ASSUME NEW S, IsFiniteSet(S), NEW f, NEW e, \A x \in S : f[x] \in Nat /\ e[x] \in Nat /\ f[x] <= e[x]
  PROVE  SumFunctionOnSet(f, S) <= SumFunctionOnSet(e, S)
  <1> DEFINE T == {A \in SUBSET S : SumFunctionOnSet(f, A) <= SumFunctionOnSet(e, A)}
  <1>1. {} \in T  BY SumEmpty
  <1>2. ASSUME NEW A \in T, NEW x \in S \ A PROVE A \cup {x} \in T
    <2> DEFINE B == A \cup {x}
    <2>1. IsFiniteSet(A) /\ IsFiniteSet(B) /\ x \in B /\ B \ {x} = A /\ B \in SUBSET S  BY FS_Subset
    <2>2. \A y \in B : f[y] \in Int /\ e[y] \in Int  BY <2>1
    <2>3. \A y \in A : f[y] \in Int /\ e[y] \in Int  OBVIOUS
    <2> HIDE DEF B
    <2>4. SumFunctionOnSet(f, B) = f[x] + SumFunctionOnSet(f, A)  BY <2>1, <2>2, SumRemove
    <2>5. SumFunctionOnSet(e, B) = e[x] + SumFunctionOnSet(e, A)  BY <2>1, <2>2, SumRemove
    <2>6. SumFunctionOnSet(f, A) \in Int /\ SumFunctionOnSet(e, A) \in Int  BY <2>1, <2>3, SumStep
    <2>7. SumFunctionOnSet(f, A) <= SumFunctionOnSet(e, A) /\ f[x] <= e[x] /\ f[x] \in Int /\ e[x] \in Int
      OBVIOUS
    <2>8. SumFunctionOnSet(f, B) <= SumFunctionOnSet(e, B)  BY <2>4, <2>5, <2>6, <2>7
    <2> QED  BY <2>1, <2>8 DEF B
  <1>3. T \subseteq SUBSET S  OBVIOUS
  <1> HIDE DEF T
  <1>4. S \in T  BY <1>1, <1>2, <1>3, SetInduction
  <1> QED  BY <1>4 DEF T

\* The sum of nothing but zeros is zero.
THEOREM SumZeros ==
  ASSUME NEW S, IsFiniteSet(S), NEW f, \A x \in S : f[x] = 0
  PROVE  SumFunctionOnSet(f, S) = 0
  <1> DEFINE T == {A \in SUBSET S : SumFunctionOnSet(f, A) = 0}
  <1>1. {} \in T  BY SumEmpty
  <1>2. ASSUME NEW A \in T, NEW x \in S \ A PROVE A \cup {x} \in T
    <2> DEFINE B == A \cup {x}
    <2>1. IsFiniteSet(B) /\ x \in B /\ B \ {x} = A /\ B \in SUBSET S  BY FS_Subset
    <2>2. \A y \in B : f[y] \in Int  BY <2>1
    <2> HIDE DEF B
    <2>3. SumFunctionOnSet(f, B) = f[x] + SumFunctionOnSet(f, A)  BY <2>1, <2>2, SumRemove
    <2> QED  BY <2>1, <2>3 DEF B
  <1>3. T \subseteq SUBSET S  OBVIOUS
  <1> HIDE DEF T
  <1>4. S \in T  BY <1>1, <1>2, <1>3, SetInduction
  <1> QED  BY <1>4 DEF T

\* A change of one value changes the sum by as much.
THEOREM SumExcept ==
  ASSUME NEW S, IsFiniteSet(S), NEW f, NEW e, NEW x \in S,
         \A y \in S : f[y] \in Int /\ e[y] \in Int /\ (y # x => e[y] = f[y])
  PROVE  SumFunctionOnSet(e, S) = SumFunctionOnSet(f, S) + e[x] - f[x]
  <1>1. IsFiniteSet(S \ {x})  BY FS_Subset
  <1>2. SumFunctionOnSet(f, S) = f[x] + SumFunctionOnSet(f, S \ {x})  BY SumRemove
  <1>3. SumFunctionOnSet(e, S) = e[x] + SumFunctionOnSet(e, S \ {x})  BY SumRemove
  <1>4. SumFunctionOnSet(f, S \ {x}) = SumFunctionOnSet(e, S \ {x})  BY <1>1, SumAgree
  <1>5. SumFunctionOnSet(f, S \ {x}) \in Int  BY <1>1, SumStep
  <1> QED  BY <1>2, <1>3, <1>4, <1>5

-----------------------------------------------------------------------------
(* Sums over intervals.                                                    *)

\* A sum over an interval, and over all of it but the last.
LEMMA SumOfLast ==
  ASSUME NEW i \in Int, NEW p \in Int, i <= p, NEW f, \A x \in i .. p : f[x] \in Int,
         NEW g, \A x \in i .. p - 1 : g[x] = f[x]
  PROVE  SumFunctionOnSet(f, i .. p) = SumFunctionOnSet(g, i .. p - 1) + f[p]
<1>1. IsFiniteSet(i .. p) /\ IsFiniteSet(i .. p - 1)
  BY FS_Interval
<1>2. (i .. p) \ {p} = i .. p - 1 /\ p \in i .. p
  OBVIOUS
<1>3. SumFunctionOnSet(f, i .. p) = f[p] + SumFunctionOnSet(f, i .. p - 1)
  BY <1>1, <1>2, SumRemove
<1>4. SumFunctionOnSet(f, i .. p - 1) = SumFunctionOnSet(g, i .. p - 1)
  BY <1>1, SumAgree
<1>5. SumFunctionOnSet(f, i .. p - 1) \in Int
  <2>1. \A x \in i .. p - 1 : f[x] \in Int
    OBVIOUS
  <2> QED
    BY <2>1, <1>1, SumStep
<1> QED
  BY <1>3, <1>4, <1>5

\* A sum of naturals over a part of an interval.
LEMMA SumOfPart ==
  ASSUME NEW i \in Int, NEW j \in Int, NEW k \in Int, NEW l \in Int, i <= k, l <= j,
         NEW f, \A x \in i .. j : f[x] \in Nat, NEW g, \A x \in k .. l : g[x] = f[x]
  PROVE  /\ SumFunctionOnSet(g, k .. l) <= SumFunctionOnSet(f, i .. j)
         /\ SumFunctionOnSet(f, i .. j) \in Nat
<1>1. IsFiniteSet(i .. j) /\ IsFiniteSet(k .. l) /\ k .. l \subseteq i .. j
  BY FS_Interval
<1>2. SumFunctionOnSet(f, k .. l) <= SumFunctionOnSet(f, i .. j)
  BY <1>1, SumMonotone
<1>3. SumFunctionOnSet(f, k .. l) = SumFunctionOnSet(g, k .. l)
  BY <1>1, SumAgree
<1> QED
  BY <1>1, <1>2, <1>3, SumType

-----------------------------------------------------------------------------
(* Recursive functions.                                                    *)

\* A recursion over an interval of integers, with a step given as a function.
StepsOver(S, lo, hi) == [S \X (lo + 1 .. hi) -> S]
Solutions(S, lo, hi, base, step) ==
  {f \in [lo .. hi -> S] : f[lo] = base /\ \A p \in lo + 1 .. hi : f[p] = step[<<f[p - 1], p>>]}

\* There is one, made a step at a time: a function that is defined by itself exists.
LEMMA Recursion ==
  ASSUME NEW S, NEW base \in S, NEW lo \in Int, NEW hi \in Int, lo <= hi, NEW step \in StepsOver(S, lo, hi)
  PROVE  Solutions(S, lo, hi, base, step) # {}
<1>0. step \in [S \X (lo + 1 .. hi) -> S]
  BY DEF StepsOver
<1> DEFINE Solves(f, n) == f[lo] = base /\ \A p \in lo + 1 .. n : f[p] = step[<<f[p - 1], p>>]
           N == {n \in Nat : lo + n <= hi => \E f \in [lo .. lo + n -> S] : Solves(f, lo + n)}
<1>1. 0 \in N
  <2>1. [p \in lo .. lo |-> base] \in [lo .. lo + 0 -> S]
    OBVIOUS
  <2>2. Solves([p \in lo .. lo |-> base], lo + 0)
    OBVIOUS
  <2> QED
    BY <2>1, <2>2
<1>2. ASSUME NEW n \in N PROVE n + 1 \in N
  <2> SUFFICES ASSUME lo + (n + 1) <= hi
               PROVE  \E f \in [lo .. lo + (n + 1) -> S] : Solves(f, lo + (n + 1))
    <3>1. n + 1 \in Nat
      OBVIOUS
    <3> QED
      BY <3>1
  <2>0. n \in Nat
    OBVIOUS
  <2>1. PICK f \in [lo .. lo + n -> S] : Solves(f, lo + n)
    OBVIOUS
  <2> DEFINE q == lo + (n + 1)
             g == [p \in lo .. q |-> IF p = q THEN step[<<f[q - 1], q>>] ELSE f[p]]
  <2>2. q - 1 \in lo .. lo + n /\ q \in lo + 1 .. hi
    OBVIOUS
  <2>3. step[<<f[q - 1], q>>] \in S
    BY <1>0, <2>1, <2>2
  <2>4. g \in [lo .. q -> S]
    BY <2>1, <2>3
  <2>5. g[lo] = base /\ g[q] = step[<<g[q - 1], q>>]
    <3>1. lo \in lo .. q /\ lo # q /\ q \in lo .. q /\ q - 1 \in lo .. q /\ q - 1 # q
      <4> HIDE DEF Solves, N, g
      <4> QED
        BY <2>0
    <3>2. g[lo] = f[lo] /\ g[q] = step[<<f[q - 1], q>>] /\ g[q - 1] = f[q - 1]
      BY <3>1
    <3> QED
      BY <3>2, <2>1
  <2>6. ASSUME NEW p \in lo + 1 .. q PROVE g[p] = step[<<g[p - 1], p>>]
    <3>1. CASE p = q
      BY <3>1, <2>5
    <3>2. CASE p # q
      <4>1. p \in lo + 1 .. lo + n /\ p - 1 \in lo .. lo + n /\ p - 1 # q
        <5> HIDE DEF Solves, N, g
        <5> QED
          BY <2>0, <3>2
      <4>2. p \in lo .. q /\ p - 1 \in lo .. q
        BY <4>1
      <4>3. g[p] = f[p] /\ g[p - 1] = f[p - 1]
        BY <3>2, <4>1, <4>2
      <4> QED
        BY <4>1, <4>3, <2>1
    <3> QED
      BY <3>1, <3>2
  <2> HIDE DEF g
  <2> QED
    BY <2>4, <2>5, <2>6
<1>3. hi - lo \in N /\ hi - lo \in Nat /\ lo + (hi - lo) = hi
  <2> HIDE DEF N
  <2>1. N = Nat
    <3>1. N \subseteq Nat
      BY DEF N
    <3> QED
      BY <3>1, <1>1, <1>2, NaturalInduction
  <2> QED
    BY <2>1
<1> QED
  <2>1. PICK f \in [lo .. hi -> S] : Solves(f, hi)
    BY <1>3
  <2> QED
    BY <2>1 DEF Solutions
=============================================================================
