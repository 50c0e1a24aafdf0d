-------------------------- MODULE InductionLemmas --------------------------
(***************************************************************************)
(* Induction stated with sets instead of operators, so that it can be used *)
(* in the other proofs: a set of naturals has a least element, because the *)
(* order of the naturals is well founded, and therefore a set that holds 0 *)
(* and every successor holds all of them.                                  *)
(***************************************************************************)
EXTENDS Integers, Sequences, FiniteSets, FiniteSetTheorems, FiniteSetsExt,
        WellFoundedInduction, TLAPS

\* A non-empty set of naturals has a least element.
LEMMA LeastNatural ==
  ASSUME NEW T \in SUBSET Nat, T # {}
  PROVE  \E n \in T : \A m \in T : n <= m
<1>1. PICK x \in T : \A y \in T : ~(<<y, x>> \in OpToRel(<, Nat))
  BY NatLessThanWellFounded, WFMin
<1>2. \A y \in T : y < x => <<y, x>> \in OpToRel(<, Nat)
  BY DEF OpToRel
<1>3. \A y \in T : x <= y
  <2> TAKE y \in T
  <2>1. ~(y < x)
    BY <1>1, <1>2
  <2>2. x \in Nat /\ y \in Nat
    OBVIOUS
  <2> QED BY <2>1, <2>2
<1> QED BY <1>3

\* A set that holds 0 and with each natural the next one holds them all.
LEMMA InductionOnNat ==
  ASSUME NEW T, 0 \in T, \A n \in Nat : n \in T => n + 1 \in T
  PROVE  Nat \subseteq T
<1> SUFFICES ASSUME Nat \ T # {} PROVE FALSE
  OBVIOUS
<1>1. PICK n \in Nat \ T : \A m \in Nat \ T : n <= m
  BY LeastNatural
<1>2. n # 0 /\ n - 1 \in Nat /\ n - 1 < n
  BY <1>1
<1>3. n - 1 \in T
  BY <1>1, <1>2
<1> QED BY <1>1, <1>2, <1>3

\* A finite, non-empty set of naturals has a greatest element.
LEMMA GreatestNatural ==
  ASSUME NEW T \in SUBSET Nat, T # {}, NEW b \in Nat, \A m \in T : m <= b
  PROVE  \E n \in T : \A m \in T : m <= n
<1> DEFINE U == {k \in Nat : \A m \in T : m <= k}
<1>1. b \in U
  OBVIOUS
<1>2. PICK n \in U : \A k \in U : n <= k
  BY <1>1, LeastNatural
<1>3. n \in T
  <2> SUFFICES ASSUME n \notin T PROVE FALSE
    OBVIOUS
  <2>1. PICK m \in T : TRUE
    OBVIOUS
  <2>2. n \in Nat /\ n # 0 /\ n - 1 \in Nat
    BY <1>2, <2>1
  <2>3. \A k \in T : k <= n - 1
    BY <1>2, <2>2
  <2>4. n - 1 \in U
    BY <2>2, <2>3
  <2> QED BY <1>2, <2>2, <2>4
<1> QED BY <1>2, <1>3

\* A statement about finite sets follows from the empty set and from adding one
\* element: every finite subset of S is a member of a family with these two
\* properties.
LEMMA InductionOnFiniteSets ==
  ASSUME NEW S, NEW F, {} \in F,
         \A A \in SUBSET S : \A x \in S \ A : IsFiniteSet(A) /\ A \in F => A \cup {x} \in F
  PROVE  \A A \in SUBSET S : IsFiniteSet(A) => A \in F
<1> DEFINE T == {n \in Nat : \A A \in SUBSET S : IsFiniteSet(A) /\ Cardinality(A) = n => A \in F}
<1>1. 0 \in T
  BY FS_EmptySet
<1>2. ASSUME NEW n \in Nat, n \in T
      PROVE  n + 1 \in T
  <2> SUFFICES ASSUME NEW A \in SUBSET S, IsFiniteSet(A), Cardinality(A) = n + 1
               PROVE  A \in F
    OBVIOUS
  <2>1. A # {}
    BY FS_EmptySet
  <2>2. PICK x \in A : TRUE
    BY <2>1
  <2>3. IsFiniteSet(A \ {x}) /\ Cardinality(A \ {x}) = (n + 1) - 1
    BY <2>2, FS_RemoveElement
  <2>3a. Cardinality(A \ {x}) = n
    BY <2>3
  <2>4. A \ {x} \in F
    BY <1>2, <2>3, <2>3a
  <2>5. (A \ {x}) \cup {x} = A
    BY <2>2
  <2>6. A \ {x} \in SUBSET S /\ x \in S \ (A \ {x})
    BY <2>2
  <2>7. (A \ {x}) \cup {x} \in F
    BY <2>3, <2>4, <2>6
  <2> QED BY <2>5, <2>7
<1> HIDE DEF T
<1>3. Nat \subseteq T
  BY <1>1, <1>2, InductionOnNat
<1>4. TAKE A \in SUBSET S
<1>5. HAVE IsFiniteSet(A)
<1>6. Cardinality(A) \in T
  BY <1>3, <1>5, FS_CardinalityType
<1> QED BY <1>5, <1>6 DEF T

-----------------------------------------------------------------------------
(* Sums over finite sets. *)

SumOn(h, S) == MapThenSumSet(LAMBDA a : h[a], S)

Picked(s) == CHOOSE x \in s : TRUE

\* The table a sum over S is read from, for the subsets with at most n elements.
SumTable(h, S, n, f) ==
    f = [s \in {t \in SUBSET S : Cardinality(t) <= n} |->
            IF s = {} THEN 0 ELSE h[Picked(s)] + f[s \ {Picked(s)}]]

\* Taking the chosen element away makes a finite set smaller.
LEMMA SmallerSet ==
  ASSUME NEW s, s # {}, IsFiniteSet(s)
  PROVE  /\ Picked(s) \in s
         /\ IsFiniteSet(s \ {Picked(s)})
         /\ Cardinality(s) \in Nat /\ Cardinality(s) # 0
         /\ Cardinality(s \ {Picked(s)}) = Cardinality(s) - 1
  BY FS_RemoveElement, FS_EmptySet, FS_CardinalityType DEF Picked

\* The recursive table of partial sums exists, by induction on the size.
LEMMA SumTableExists ==
  ASSUME NEW h, NEW S, IsFiniteSet(S)
  PROVE  \A n \in Nat : \E f : SumTable(h, S, n, f)
<1> DEFINE T == {n \in Nat : \E f : SumTable(h, S, n, f)}
           D(n) == {t \in SUBSET S : Cardinality(t) <= n}
<1>s. \A s \in SUBSET S : IsFiniteSet(s) /\ Cardinality(s) \in Nat /\ (Cardinality(s) = 0 <=> s = {})
  BY FS_Subset, FS_CardinalityType, FS_EmptySet
<1>1. 0 \in T
  <2> DEFINE f == [s \in D(0) |-> 0]
  <2>1. \A s \in D(0) : s = {}
    BY <1>s
  <2>2. SumTable(h, S, 0, f)
    BY <2>1 DEF SumTable
  <2> QED BY <2>2
<1>2. ASSUME NEW n \in Nat, n \in T
      PROVE  n + 1 \in T
  <2>1. PICK f : SumTable(h, S, n, f)
    BY <1>2
  <2> DEFINE g == [s \in D(n + 1) |-> IF s = {} THEN 0 ELSE h[Picked(s)] + f[s \ {Picked(s)}]]
  <2>2. ASSUME NEW s \in D(n)
        PROVE  g[s] = f[s]
    <3>1. s \in D(n + 1)
      BY <1>s
    <3>2. f[s] = IF s = {} THEN 0 ELSE h[Picked(s)] + f[s \ {Picked(s)}]
      BY <2>1 DEF SumTable
    <3> QED BY <3>1, <3>2
  <2>3. ASSUME NEW s \in D(n + 1), s # {}
        PROVE  s \ {Picked(s)} \in D(n)
    <3>1. Cardinality(s \ {Picked(s)}) = Cardinality(s) - 1 /\ Cardinality(s) \in Nat
      BY <1>s, <2>3, SmallerSet
    <3>2. Cardinality(s \ {Picked(s)}) <= n
      BY <3>1
    <3> QED BY <3>2
  <2>4. \A s \in D(n + 1) : s # {} => g[s \ {Picked(s)}] = f[s \ {Picked(s)}]
    BY <2>2, <2>3
  <2>5. g = [s \in D(n + 1) |-> IF s = {} THEN 0 ELSE h[Picked(s)] + g[s \ {Picked(s)}]]
    BY <2>4
  <2>6. SumTable(h, S, n + 1, g)
    BY <2>5 DEF SumTable
  <2> QED BY <2>6
<1> HIDE DEF T
<1>3. Nat \subseteq T
  BY <1>1, <1>2, InductionOnNat
<1> QED BY <1>3 DEF T

SumMap(h, S, f) ==
    f = [s \in SUBSET S |-> IF s = {} THEN 0 ELSE h[Picked(s)] + f[s \ {Picked(s)}]]

\* The recursive function MapThenSumSet is defined by exists on a finite set.
LEMMA SumMapExists ==
  ASSUME NEW h, NEW S, IsFiniteSet(S)
  PROVE  \E f : SumMap(h, S, f)
<1>1. Cardinality(S) \in Nat
  BY FS_CardinalityType
<1>2. PICK f : SumTable(h, S, Cardinality(S), f)
  BY <1>1, SumTableExists
<1>3. {t \in SUBSET S : Cardinality(t) <= Cardinality(S)} = SUBSET S
  BY FS_Subset
<1>4. SumMap(h, S, f)
  BY <1>2, <1>3 DEF SumTable, SumMap
<1> QED BY <1>4

\* A sum is read from such a function.
LEMMA SumOnIsMap ==
  ASSUME NEW h, NEW S, IsFiniteSet(S)
  PROVE  \E f : SumMap(h, S, f) /\ SumOn(h, S) = f[S]
<1> DEFINE g == CHOOSE f : SumMap(h, S, f)
<1>1. SumMap(h, S, g)
  BY SumMapExists
<1>2. SumOn(h, S) = g[S]
  BY DEF SumOn, MapThenSumSet, MapThenFoldSet, SumMap, Picked
<1> QED BY <1>1, <1>2

\* Whatever order the elements are taken in, the sum of a set with one element
\* more is that element's value more.
LEMMA SumMapAdds ==
  ASSUME NEW h, NEW S, IsFiniteSet(S), \A x \in S : h[x] \in Int, NEW f, SumMap(h, S, f)
  PROVE  \A s \in SUBSET S : /\ f[s] \in Int
                             /\ \A x \in S \ s : f[s \cup {x}] = h[x] + f[s]
<1> DEFINE Good(s) == f[s] \in Int /\ \A x \in S \ s : f[s \cup {x}] = h[x] + f[s]
           T == {n \in Nat : \A s \in SUBSET S : Cardinality(s) <= n => Good(s)}
<1>s. \A s \in SUBSET S : IsFiniteSet(s) /\ Cardinality(s) \in Nat /\ (Cardinality(s) = 0 <=> s = {})
  BY FS_Subset, FS_CardinalityType, FS_EmptySet
<1>f. \A s \in SUBSET S : f[s] = IF s = {} THEN 0 ELSE h[Picked(s)] + f[s \ {Picked(s)}]
  BY DEF SumMap
<1>0. f[{}] = 0
  BY <1>f
<1>1. 0 \in T
  <2>1. ASSUME NEW x \in S PROVE f[{} \cup {x}] = h[x] + f[{}]
    <3>1. Picked({x}) = x /\ {x} \ {x} = {} /\ {} \cup {x} = {x} /\ {x} # {}
      BY DEF Picked
    <3>2. f[{x}] = h[x] + f[{}]
      BY <1>f, <3>1
    <3> QED BY <3>1, <3>2
  <2>2. Good({})
    BY <1>0, <2>1
  <2>3. \A s \in SUBSET S : Cardinality(s) <= 0 => s = {}
    BY <1>s
  <2> HIDE DEF Good
  <2> QED BY <2>2, <2>3
<1>2. ASSUME NEW n \in Nat, n \in T
      PROVE  n + 1 \in T
  <2> SUFFICES ASSUME NEW s \in SUBSET S, Cardinality(s) <= n + 1
               PROVE  Good(s)
    OBVIOUS
  <2>1. CASE Cardinality(s) <= n
    BY <1>2, <2>1
  <2>2. CASE Cardinality(s) = n + 1
    <3>1. s # {}
      BY <1>s, <2>2
    <3>2. \A y \in s : /\ Cardinality(s \ {y}) <= n /\ s \ {y} \in SUBSET S
                       /\ y \in S \ (s \ {y}) /\ (s \ {y}) \cup {y} = s
      <4> TAKE y \in s
      <4>1. Cardinality(s \ {y}) = Cardinality(s) - 1
        BY <1>s, FS_RemoveElement
      <4>2. Cardinality(s \ {y}) <= n
        BY <4>1, <2>2
      <4> QED BY <4>2
    <3>3. \A y \in s : Good(s \ {y})
      BY <1>2, <3>2
    <3>4. \A y \in s : f[s] = h[y] + f[s \ {y}] /\ f[s \ {y}] \in Int
      BY <3>2, <3>3
    <3>5. f[s] \in Int
      <4>1. PICK y \in s : TRUE
        BY <3>1
      <4>2. h[y] \in Int /\ f[s] = h[y] + f[s \ {y}] /\ f[s \ {y}] \in Int
        BY <3>4, <4>1
      <4> QED BY <4>2
    <3>6. ASSUME NEW x \in S \ s
          PROVE  f[s \cup {x}] = h[x] + f[s]
      <4> DEFINE p == Picked(s \cup {x})
      <4>1. f[s \cup {x}] = h[p] + f[(s \cup {x}) \ {p}]
        BY <1>f
      <4>2. p \in s \cup {x}
        BY DEF Picked
      <4> HIDE DEF p
      <4>3. CASE p = x
        <5>1. (s \cup {x}) \ {p} = s
          BY <4>3
        <5> QED BY <4>1, <4>3, <5>1
      <4>4. CASE p \in s
        <5>1. (s \cup {x}) \ {p} = (s \ {p}) \cup {x} /\ x \in S \ (s \ {p})
          BY <4>4
        <5>2. f[(s \ {p}) \cup {x}] = h[x] + f[s \ {p}]
          BY <3>3, <4>4, <5>1
        <5>3. f[s] = h[p] + f[s \ {p}] /\ f[s \ {p}] \in Int /\ h[p] \in Int /\ h[x] \in Int
          BY <3>4, <4>4
        <5>4. f[s \cup {x}] = h[p] + (h[x] + f[s \ {p}])
          BY <4>1, <5>1, <5>2
        <5> QED BY <5>3, <5>4
      <4> QED BY <4>2, <4>3, <4>4
    <3> QED BY <3>5, <3>6
  <2> QED BY <1>s, <2>1, <2>2
<1> HIDE DEF T, Good
<1>3. Nat \subseteq T
  BY <1>1, <1>2, InductionOnNat
<1>4. \A s \in SUBSET S : Good(s)
  BY <1>3, <1>s DEF T
<1> QED BY <1>4 DEF Good

\* A sum depends on the values at the elements only.
LEMMA SumMapsAgree ==
  ASSUME NEW h, NEW S, IsFiniteSet(S), \A x \in S : h[x] \in Int, NEW f, SumMap(h, S, f),
         NEW k, NEW R, IsFiniteSet(R), \A x \in R : k[x] \in Int, NEW g, SumMap(k, R, g),
         NEW A \in SUBSET (S \cap R), \A x \in A : h[x] = k[x]
  PROVE  f[A] = g[A]
<1> DEFINE F == {B \in SUBSET A : f[B] = g[B]}
<1>0. IsFiniteSet(R) /\ (\A x \in R : k[x] \in Int) /\ SumMap(k, R, g)
  OBVIOUS
<1>1. {} \in F
  BY DEF SumMap
<1>2. ASSUME NEW B \in SUBSET A, NEW x \in A \ B, B \in F
      PROVE  B \cup {x} \in F
  <2>1. f[B \cup {x}] = h[x] + f[B]
    <3>1. B \in SUBSET S /\ x \in S \ B
      OBVIOUS
    <3> QED BY <3>1, SumMapAdds
  <2>2. g[B \cup {x}] = k[x] + g[B]
    <3>1. B \in SUBSET R /\ x \in R \ B
      OBVIOUS
    <3> QED BY ONLY <3>1, <1>0, SumMapAdds
  <2> QED BY <2>1, <2>2, <1>2
<1>3. IsFiniteSet(A)
  BY FS_Subset
<1> HIDE DEF F
<1>4. \A B \in SUBSET A : IsFiniteSet(B) => B \in F
  BY <1>1, <1>2, InductionOnFiniteSets
<1> QED BY <1>3, <1>4 DEF F

\* Nothing sums up to zero.
LEMMA SumOnEmpty ==
  ASSUME NEW h
  PROVE  SumOn(h, {}) = 0
<1>1. PICK f : SumMap(h, {}, f) /\ SumOn(h, {}) = f[{}]
  BY SumOnIsMap, FS_EmptySet
<1> QED BY <1>1 DEF SumMap

\* A finite sum of integers is an integer.
LEMMA SumOnType ==
  ASSUME NEW h, NEW S, IsFiniteSet(S), \A x \in S : h[x] \in Int
  PROVE  SumOn(h, S) \in Int
  BY SumOnIsMap, SumMapAdds

\* One element more adds its value.
LEMMA SumOnAdd ==
  ASSUME NEW h, NEW S, IsFiniteSet(S), \A x \in S : h[x] \in Int,
         NEW x, x \notin S, h[x] \in Int
  PROVE  SumOn(h, S \cup {x}) = SumOn(h, S) + h[x]
<1>1. IsFiniteSet(S \cup {x}) /\ \A y \in S \cup {x} : h[y] \in Int
  BY FS_AddElement
<1>2. PICK f : SumMap(h, S, f) /\ SumOn(h, S) = f[S]
  BY SumOnIsMap
<1>3. PICK g : SumMap(h, S \cup {x}, g) /\ SumOn(h, S \cup {x}) = g[S \cup {x}]
  BY <1>1, SumOnIsMap
<1>4. g[S \cup {x}] = h[x] + g[S]
  BY <1>1, <1>3, SumMapAdds
<1>5. f[S] = g[S]
  BY <1>1, <1>2, <1>3, SumMapsAgree
<1>6. f[S] \in Int
  BY <1>2, SumMapAdds
<1> QED BY <1>2, <1>3, <1>4, <1>5, <1>6

\* A sum depends on the values at the elements only.
LEMMA SumOnSame ==
  ASSUME NEW S, IsFiniteSet(S), NEW h, NEW k, \A x \in S : h[x] \in Int /\ k[x] = h[x]
  PROVE  SumOn(k, S) = SumOn(h, S)
<1>1. PICK f : SumMap(h, S, f) /\ SumOn(h, S) = f[S]
  BY SumOnIsMap
<1>2. PICK g : SumMap(k, S, g) /\ SumOn(k, S) = g[S]
  BY SumOnIsMap
<1>3. S \in SUBSET (S \cap S) /\ (\A x \in S : h[x] \in Int) /\ (\A x \in S : k[x] \in Int)
      /\ (\A x \in S : h[x] = k[x])
  OBVIOUS
<1> QED BY <1>1, <1>2, <1>3, SumMapsAgree

\* A sum of naturals is a natural, and it grows with its terms.
LEMMA SumOnMonotone ==
  ASSUME NEW S, IsFiniteSet(S), NEW h, NEW k,
         \A x \in S : h[x] \in Int /\ k[x] \in Int /\ h[x] <= k[x]
  PROVE  SumOn(h, S) <= SumOn(k, S)
<1> DEFINE F == {B \in SUBSET S : SumOn(h, B) <= SumOn(k, B)}
<1>1. {} \in F
  BY SumOnEmpty
<1>2. ASSUME NEW B \in SUBSET S, NEW x \in S \ B, IsFiniteSet(B), B \in F
      PROVE  B \cup {x} \in F
  <2>1. SumOn(h, B \cup {x}) = SumOn(h, B) + h[x] /\ SumOn(h, B) \in Int
    BY <1>2, SumOnAdd, SumOnType
  <2>2. SumOn(k, B \cup {x}) = SumOn(k, B) + k[x] /\ SumOn(k, B) \in Int
    BY <1>2, SumOnAdd, SumOnType
  <2>3. SumOn(h, B) <= SumOn(k, B) /\ h[x] <= k[x] /\ h[x] \in Int /\ k[x] \in Int
    BY <1>2
  <2>4. SumOn(h, B \cup {x}) <= SumOn(k, B \cup {x})
    BY <2>1, <2>2, <2>3
  <2> QED BY <2>4
<1> HIDE DEF F
<1>3. \A B \in SUBSET S : IsFiniteSet(B) => B \in F
  BY <1>1, <1>2, InductionOnFiniteSets
<1> QED BY <1>3 DEF F

\* Taking a part out of a finite sum takes the part's sum out of it.
LEMMA SumOnDifference ==
    ASSUME NEW h, NEW A, IsFiniteSet(A), \A x \in A : h[x] \in Int, NEW B \in SUBSET A
    PROVE  SumOn(h, A \ B) = SumOn(h, A) - SumOn(h, B)
  <1> DEFINE F == {C \in SUBSET A : SumOn(h, A \ C) = SumOn(h, A) - SumOn(h, C)}
  <1>t. \A C \in SUBSET A : IsFiniteSet(C) /\ SumOn(h, C) \in Int
    BY FS_Subset, SumOnType
  <1>1. {} \in F
    <2>1. A \ {} = A /\ SumOn(h, A) \in Int
      BY <1>t
    <2> QED BY <2>1, SumOnEmpty
  <1>2. ASSUME NEW C \in SUBSET A, NEW x \in A \ C, IsFiniteSet(C), C \in F
        PROVE  C \cup {x} \in F
    <2>1. SumOn(h, C \cup {x}) = SumOn(h, C) + h[x]
      BY <1>2, SumOnAdd
    <2>2. A \ C = (A \ (C \cup {x})) \cup {x}
      OBVIOUS
    <2> DEFINE R0 == A \ (C \cup {x})
    <2>3. IsFiniteSet(R0) /\ x \notin R0 /\ \A y \in R0 : h[y] \in Int
      BY <1>t
    <2>4. SumOn(h, R0 \cup {x}) = SumOn(h, R0) + h[x]
      <3> HIDE DEF R0
      <3> QED BY <2>3, SumOnAdd
    <2>5. SumOn(h, R0) \in Int /\ SumOn(h, C) \in Int /\ h[x] \in Int /\ SumOn(h, A) \in Int
      BY <1>t
    <2>6. SumOn(h, A \ C) = SumOn(h, A) - SumOn(h, C)
      BY <1>2
    <2>7. SumOn(h, R0) = SumOn(h, A) - SumOn(h, C \cup {x})
      <3>1. SumOn(h, A \ C) = SumOn(h, R0) + h[x]
        BY <2>2, <2>4
      <3> HIDE DEF R0
      <3> QED BY <3>1, <2>1, <2>5, <2>6
    <2> QED BY <2>7
  <1> HIDE DEF F
  <1>3. \A C \in SUBSET A : IsFiniteSet(C) => C \in F
    BY <1>1, <1>2, InductionOnFiniteSets
  <1> QED BY <1>3, <1>t DEF F

-----------------------------------------------------------------------------
(* Folds over finite sets, one element after the other. *)

FoldTable(F, base, A, n, f) ==
    f = [s \in {t \in SUBSET A : Cardinality(t) <= n} |->
            IF s = {} THEN base ELSE F[<<Picked(s), f[s \ {Picked(s)}]>>]]

FoldMap(F, base, A, f) ==
    f = [s \in SUBSET A |-> IF s = {} THEN base ELSE F[<<Picked(s), f[s \ {Picked(s)}]>>]]

\* The table of repeated applications exists, by induction on the size.
LEMMA FoldTableExists ==
  ASSUME NEW F, NEW base, NEW A, IsFiniteSet(A)
  PROVE  \A n \in Nat : \E f : FoldTable(F, base, A, n, f)
<1> DEFINE T == {n \in Nat : \E f : FoldTable(F, base, A, n, f)}
           D(n) == {t \in SUBSET A : Cardinality(t) <= n}
<1>s. \A s \in SUBSET A : IsFiniteSet(s) /\ Cardinality(s) \in Nat /\ (Cardinality(s) = 0 <=> s = {})
  BY FS_Subset, FS_CardinalityType, FS_EmptySet
<1>1. 0 \in T
  <2> DEFINE f == [s \in D(0) |-> base]
  <2>1. \A s \in D(0) : s = {}
    BY <1>s
  <2>2. FoldTable(F, base, A, 0, f)
    BY <2>1 DEF FoldTable
  <2> QED BY <2>2
<1>2. ASSUME NEW n \in Nat, n \in T
      PROVE  n + 1 \in T
  <2>1. PICK f : FoldTable(F, base, A, n, f)
    BY <1>2
  <2> DEFINE g == [s \in D(n + 1) |-> IF s = {} THEN base ELSE F[<<Picked(s), f[s \ {Picked(s)}]>>]]
  <2>2. ASSUME NEW s \in D(n)
        PROVE  g[s] = f[s]
    <3>1. s \in D(n + 1)
      BY <1>s
    <3>2. f[s] = IF s = {} THEN base ELSE F[<<Picked(s), f[s \ {Picked(s)}]>>]
      BY <2>1 DEF FoldTable
    <3> QED BY <3>1, <3>2
  <2>3. ASSUME NEW s \in D(n + 1), s # {}
        PROVE  s \ {Picked(s)} \in D(n)
    <3>1. Cardinality(s \ {Picked(s)}) = Cardinality(s) - 1 /\ Cardinality(s) \in Nat
      BY <1>s, <2>3, SmallerSet
    <3>2. Cardinality(s \ {Picked(s)}) <= n
      BY <3>1
    <3> QED BY <3>2
  <2>4. \A s \in D(n + 1) : s # {} => g[s \ {Picked(s)}] = f[s \ {Picked(s)}]
    BY <2>2, <2>3
  <2>5. g = [s \in D(n + 1) |-> IF s = {} THEN base ELSE F[<<Picked(s), g[s \ {Picked(s)}]>>]]
    BY <2>4
  <2>6. FoldTable(F, base, A, n + 1, g)
    BY <2>5 DEF FoldTable
  <2> QED BY <2>6
<1> HIDE DEF T
<1>3. Nat \subseteq T
  BY <1>1, <1>2, InductionOnNat
<1> QED BY <1>3 DEF T

LEMMA FoldMapExists ==
  ASSUME NEW F, NEW base, NEW A, IsFiniteSet(A)
  PROVE  \E f : FoldMap(F, base, A, f)
<1>1. Cardinality(A) \in Nat
  BY FS_CardinalityType
<1>2. PICK f : FoldTable(F, base, A, Cardinality(A), f)
  BY <1>1, FoldTableExists
<1>3. {t \in SUBSET A : Cardinality(t) <= Cardinality(A)} = SUBSET A
  BY FS_Subset
<1>4. FoldMap(F, base, A, f)
  BY <1>2, <1>3 DEF FoldTable, FoldMap
<1> QED BY <1>4

\* What holds of the empty set's value and is kept by taking one element more
\* holds of every subset's value.
LEMMA FoldInvariant ==
  ASSUME NEW A, IsFiniteSet(A), NEW D, NEW f, f[{}] \in D,
         \A s \in SUBSET A : s # {} /\ f[s \ {Picked(s)}] \in D => f[s] \in D
  PROVE  \A s \in SUBSET A : f[s] \in D
<1> DEFINE T == {n \in Nat : \A s \in SUBSET A : Cardinality(s) <= n => f[s] \in D}
<1>s. \A s \in SUBSET A : IsFiniteSet(s) /\ Cardinality(s) \in Nat /\ (Cardinality(s) = 0 <=> s = {})
  BY FS_Subset, FS_CardinalityType, FS_EmptySet
<1>1. 0 \in T
  BY <1>s
<1>2. ASSUME NEW n \in Nat, n \in T
      PROVE  n + 1 \in T
  <2> SUFFICES ASSUME NEW s \in SUBSET A, Cardinality(s) <= n + 1
               PROVE  f[s] \in D
    OBVIOUS
  <2>1. CASE s = {}
    BY <2>1
  <2>2. CASE s # {}
    <3>1. Cardinality(s \ {Picked(s)}) = Cardinality(s) - 1 /\ Cardinality(s) \in Nat
      BY <1>s, <2>2, SmallerSet
    <3>2. Cardinality(s \ {Picked(s)}) <= n
      BY <3>1
    <3>3. f[s \ {Picked(s)}] \in D
      BY <1>2, <3>2
    <3> QED BY <2>2, <3>3
  <2> QED BY <2>1, <2>2
<1> HIDE DEF T
<1>3. Nat \subseteq T
  BY <1>1, <1>2, InductionOnNat
<1>4. \A s \in SUBSET A : Cardinality(s) \in T
  BY <1>3, <1>s
<1> QED BY <1>4, <1>s DEF T

\* A repeated application stays where each application does.
LEMMA FoldMapStays ==
  ASSUME NEW F, NEW base, NEW A, IsFiniteSet(A), NEW D, base \in D, \A x \in A : \A y \in D : F[<<x, y>>] \in D,
         NEW f, FoldMap(F, base, A, f)
  PROVE  \A s \in SUBSET A : f[s] \in D
<1>1. f[{}] \in D
  BY DEF FoldMap
<1>2. \A s \in SUBSET A : s # {} /\ f[s \ {Picked(s)}] \in D => f[s] \in D
  <2>1. \A s \in SUBSET A : s # {} => Picked(s) \in A
    BY DEF Picked
  <2> QED BY <2>1 DEF FoldMap
<1> QED BY <1>1, <1>2, FoldInvariant

-----------------------------------------------------------------------------
(* Recursion on the naturals up to a bound. *)

IterateMap(F, base, N, f) ==
    f = [k \in 0..N |-> IF k = 0 THEN base ELSE F[<<f[k - 1], k>>]]

\* What holds at 0 and carries on holds up to the bound.
LEMMA InductionUpTo ==
  ASSUME NEW N \in Nat, NEW T, 0 \in T, \A k \in 0..N : k # N /\ k \in T => k + 1 \in T
  PROVE  \A k \in 0..N : k \in T
<1> DEFINE U == {k \in Nat : k <= N => k \in T}
<1>1. 0 \in U
  OBVIOUS
<1>2. \A k \in Nat : k \in U => k + 1 \in U
  OBVIOUS
<1> HIDE DEF U
<1>3. Nat \subseteq U
  BY <1>1, <1>2, InductionOnNat
<1> QED BY <1>3 DEF U

LEMMA IterateExists ==
  ASSUME NEW F, NEW base
  PROVE  \A N \in Nat : \E f : IterateMap(F, base, N, f)
<1> DEFINE T == {n \in Nat : \E f : IterateMap(F, base, n, f)}
<1>1. 0 \in T
  <2> DEFINE f == [k \in 0..0 |-> base]
  <2>1. \A k \in 0..0 : k = 0
    OBVIOUS
  <2>2. IterateMap(F, base, 0, f)
    BY <2>1 DEF IterateMap
  <2> QED BY <2>2
<1>2. ASSUME NEW n \in Nat, n \in T
      PROVE  n + 1 \in T
  <2>1. PICK f : IterateMap(F, base, n, f)
    BY <1>2
  <2> DEFINE g == [k \in 0..n + 1 |-> IF k = 0 THEN base ELSE F[<<f[k - 1], k>>]]
  <2>2. \A k \in 0..n : k \in 0..n + 1 /\ g[k] = f[k]
    BY <2>1 DEF IterateMap
  <2>3. \A k \in 0..n + 1 : k # 0 => k - 1 \in 0..n
    OBVIOUS
  <2>4. \A k \in 0..n + 1 : k # 0 => g[k - 1] = f[k - 1]
    BY <2>2, <2>3
  <2>5. g = [k \in 0..n + 1 |-> IF k = 0 THEN base ELSE F[<<g[k - 1], k>>]]
    BY <2>4
  <2>6. IterateMap(F, base, n + 1, g)
    BY <2>5 DEF IterateMap
  <2> QED BY <2>6
<1> HIDE DEF T
<1>3. Nat \subseteq T
  BY <1>1, <1>2, InductionOnNat
<1> QED BY <1>3 DEF T

LEMMA IterateStays ==
  ASSUME NEW F, NEW base, NEW N \in Nat, NEW f, IterateMap(F, base, N, f),
         NEW D, base \in D, \A x \in D : \A k \in 1..N : F[<<x, k>>] \in D
  PROVE  \A k \in 0..N : f[k] \in D
<1> DEFINE T == {k \in 0..N : f[k] \in D}
<1>1. 0 \in T
  BY DEF IterateMap
<1>2. ASSUME NEW k \in 0..N, k # N, k \in T
      PROVE  k + 1 \in T
  <2>1. k + 1 \in 0..N /\ k + 1 \in 1..N /\ k + 1 # 0 /\ (k + 1) - 1 = k
    BY <1>2
  <2>2. f[k + 1] = F[<<f[k], k + 1>>]
    BY <2>1 DEF IterateMap
  <2> QED BY <1>2, <2>1, <2>2
<1> HIDE DEF T
<1>3. \A k \in 0..N : k \in T
  BY <1>1, <1>2, InductionUpTo
<1> QED BY <1>3 DEF T

-----------------------------------------------------------------------------
(* What is selected from a sequence.                                         *)

\* The members of s at the positions in T, position by position.
IsSelection(s, T, f) ==
    f = [i \in 0..Len(s) |->
            IF i = 0 THEN <<>> ELSE IF i \in T THEN Append(f[i - 1], s[i]) ELSE f[i - 1]]

\* A selection is well defined.
LEMMA SelectionExists ==
    ASSUME NEW X, NEW s \in Seq(X), NEW T
    PROVE  \E f : IsSelection(s, T, f)
  <1> DEFINE N == Len(s)
             Taken(q, i) == IF i \in T THEN Append(q, s[i]) ELSE q
             F == [x \in Seq(X) \X (1..N) |-> Taken(x[1], x[2])]
  <1>1. N \in Nat /\ \A i \in 1..N : s[i] \in X
    OBVIOUS
  <1> HIDE DEF N
  <1>2. \A q \in Seq(X) : \A i \in 1..N : Taken(q, i) \in Seq(X)
    BY <1>1
  <1>3. PICK f : IterateMap(F, <<>>, N, f)
    BY <1>1, IterateExists
  <1>4. <<>> \in Seq(X)
    OBVIOUS
  <1>5. \A q \in Seq(X) : \A i \in 1..N : F[<<q, i>>] = Taken(q, i)
    OBVIOUS
  <1>6. \A q \in Seq(X) : \A i \in 1..N : F[<<q, i>>] \in Seq(X)
    BY <1>2, <1>5
  <1> HIDE DEF F
  <1>7. \A i \in 0..N : f[i] \in Seq(X)
    BY ONLY <1>1, <1>3, <1>4, <1>6, IterateStays
  <1>8. \A i \in 0..N : i # 0 => i - 1 \in 0..N /\ i \in 1..N
    BY <1>1
  <1>9. f = [i \in 0..N |-> IF i = 0 THEN <<>> ELSE F[<<f[i - 1], i>>]]
    BY <1>3 DEF IterateMap
  <1>10. \A i \in 0..N : i # 0 => F[<<f[i - 1], i>>] =
           IF i \in T THEN Append(f[i - 1], s[i]) ELSE f[i - 1]
    BY <1>5, <1>7, <1>8
  <1>11. IsSelection(s, T, f)
    BY <1>9, <1>10 DEF IsSelection, N
  <1> QED BY <1>11

\* A selection holds the selected members and no others.
LEMMA SelectionIs ==
    ASSUME NEW X, NEW s \in Seq(X), NEW T, NEW g, IsSelection(s, T, g)
    PROVE  /\ g[Len(s)] \in Seq(X)
           /\ \A j \in 1..Len(g[Len(s)]) : \E i \in 1..Len(s) : i \in T /\ g[Len(s)][j] = s[i]
           /\ \A i \in 1..Len(s) : i \in T => \E j \in 1..Len(g[Len(s)]) : g[Len(s)][j] = s[i]
  <1> DEFINE N == Len(s)
             Taken(q, i) == IF i \in T THEN Append(q, s[i]) ELSE q
  <1>1. N \in Nat /\ \A i \in 1..N : s[i] \in X
    OBVIOUS
  <1>2. g = [i \in 0..N |-> IF i = 0 THEN <<>> ELSE IF i \in T THEN Append(g[i - 1], s[i]) ELSE g[i - 1]]
    BY DEF IsSelection
  <1> HIDE DEF N
  <1>3. g[0] = <<>> /\ \A i \in 0..N : i # N => g[i + 1] = Taken(g[i], i + 1) /\ i + 1 \in 1..N
    <2>1. g[0] = <<>>
      BY <1>1, <1>2
    <2>2. ASSUME NEW i \in 0..N, i # N
          PROVE  g[i + 1] = Taken(g[i], i + 1) /\ i + 1 \in 1..N
      <3>1. i + 1 \in 0..N /\ i + 1 \in 1..N /\ i + 1 # 0 /\ (i + 1) - 1 = i
        BY <1>1, <2>2
      <3> QED BY <1>1, <1>2, <3>1
    <2> QED BY <2>1, <2>2
  <1> DEFINE Good(k) ==
                /\ g[k] \in Seq(X)
                /\ \A j \in 1..Len(g[k]) : \E i \in 1..N : i \in T /\ g[k][j] = s[i]
                /\ \A i \in 1..k : i \in T => \E j \in 1..Len(g[k]) : g[k][j] = s[i]
             Done == {k \in 0..N : Good(k)}
  <1>4. 0 \in Done
    <2>1. g[0] = <<>> /\ Len(<<>>) = 0 /\ <<>> \in Seq(X) /\ 0 \in 0..N
      BY <1>1, <1>3
    <2>2. g[0] \in Seq(X) /\ (\A j \in 1..Len(g[0]) : FALSE) /\ \A i \in 1..0 : FALSE
      BY <2>1
    <2>3. Good(0)
      BY <2>2
    <2> HIDE DEF Good
    <2> QED BY <2>1, <2>3
  <1>5. ASSUME NEW k \in 0..N, k # N, k \in Done
        PROVE  k + 1 \in Done
    <2> DEFINE q == g[k]
               r == g[k + 1]
               b == s[k + 1]
               M == Len(q)
    <2>1. Good(k)
      BY <1>5
    <2>2. q \in Seq(X) /\ M \in Nat /\ r = Taken(q, k + 1) /\ k + 1 \in 1..N /\ k + 1 \in 0..N /\ b \in X
      BY <1>1, <1>3, <1>5, <2>1
    <2>3. \A i \in 1..k + 1 : i \in 1..k \/ i = k + 1
      BY <1>1
    <2>4. CASE k + 1 \in T
      <3>1. r = Append(q, b)
        BY <2>2, <2>4
      <3>2. /\ r \in Seq(X) /\ Len(r) = M + 1 /\ r[M + 1] = b
            /\ \A j \in 1..M : r[j] = q[j]
        BY <2>2, <3>1
      <3>3. \A j \in 1..M + 1 : j \in 1..M \/ j = M + 1
        BY <2>2
      <3>4. M + 1 \in 1..M + 1 /\ \A j \in 1..M : j \in 1..M + 1
        BY <2>2
      <3>5. \A j \in 1..M : \E i \in 1..N : i \in T /\ q[j] = s[i]
        BY <2>1
      <3>6. \A i \in 1..k : i \in T => \E j \in 1..M : q[j] = s[i]
        BY <2>1
      <3> HIDE DEF q, r, M, Good
      <3>7. \A j \in 1..Len(r) : \E i \in 1..N : i \in T /\ r[j] = s[i]
        BY <2>2, <2>4, <3>2, <3>3, <3>5
      <3>8. \A i \in 1..k + 1 : i \in T => \E j \in 1..Len(r) : r[j] = s[i]
        BY <2>3, <3>2, <3>4, <3>6
      <3>9. Good(k + 1)
        BY <3>2, <3>7, <3>8 DEF Good, r
      <3> QED BY <2>2, <3>9
    <2>5. CASE ~(k + 1 \in T)
      <3>1. r = q
        BY <2>2, <2>5
      <3>2. Good(k + 1)
        BY <2>1, <2>3, <2>5, <3>1
      <3> HIDE DEF Good
      <3> QED BY <2>2, <3>2
    <2> QED BY <2>4, <2>5
  <1> HIDE DEF Good
  <1>6. N \in Done
    <2> HIDE DEF Done
    <2>1. \A k \in 0..N : k \in Done
      BY ONLY <1>1, <1>4, <1>5, InductionUpTo
    <2> QED BY <1>1, <2>1
  <1>7. Good(N)
    BY <1>6
  <1> QED BY <1>7 DEF Good, N

-----------------------------------------------------------------------------
(* Budgets handed on along certifications: what a round over the edges in    *)
(* some order makes of the budgets of the nodes.  -1 is no budget.           *)

EdgeOf(N, e) == e.signer \in N /\ e.subject \in N /\ e.level \in Nat

Budgets(N, B) == [N -> -1..B]

Smaller(a, b) == IF a < b THEN a ELSE b

RelaxStep(valid, b, e) ==
    IF e \in valid /\ b[e.signer] > 0
    THEN [b EXCEPT ![e.subject] = IF b[e.subject] > Smaller(b[e.signer] - 1, e.level)
                                  THEN b[e.subject] ELSE Smaller(b[e.signer] - 1, e.level)]
    ELSE b

LEMMA RelaxStepAt ==
  ASSUME NEW N, NEW B \in Nat, NEW b \in Budgets(N, B), NEW e, EdgeOf(N, e), NEW valid,
         NEW c, c = RelaxStep(valid, b, e)
  PROVE  /\ c \in Budgets(N, B)
         /\ \A n \in N : c[n] \in Int /\ b[n] \in Int /\ c[n] >= b[n]
         /\ \A n \in N : n # e.subject \/ e \notin valid \/ b[e.signer] <= 0 => c[n] = b[n]
         /\ e \in valid /\ b[e.signer] > 0 =>
               /\ c[e.subject] >= Smaller(b[e.signer] - 1, e.level)
               /\ c[e.subject] = b[e.subject] \/ c[e.subject] = Smaller(b[e.signer] - 1, e.level)
<1> DEFINE s == e.signer
           u == e.subject
           w == Smaller(b[s] - 1, e.level)
<1>1. s \in N /\ u \in N /\ e.level \in Nat /\ b \in [N -> -1..B]
  BY DEF EdgeOf, Budgets
<1>2. \A n \in N : b[n] \in Int /\ b[n] >= -1 /\ b[n] <= B
  BY <1>1
<1>3. b[s] > 0 => w \in Int /\ w >= 0 /\ w <= B
  BY <1>1, <1>2 DEF Smaller
<1>4. CASE e \in valid /\ b[s] > 0
  <2> DEFINE v == IF b[u] > w THEN b[u] ELSE w
  <2>1. c = [b EXCEPT ![u] = v]
    BY <1>4 DEF RelaxStep
  <2>2. v \in -1..B /\ v >= b[u] /\ v >= w /\ (v = b[u] \/ v = w)
    <3>1. b[u] \in Int /\ b[u] >= -1 /\ b[u] <= B
      BY <1>1, <1>2
    <3> HIDE DEF w
    <3> QED BY <1>3, <1>4, <3>1
  <2> HIDE DEF v, w
  <2>3. c[u] = v /\ (\A n \in N : n # u => c[n] = b[n]) /\ c \in [N -> -1..B]
    BY <1>1, <2>1, <2>2
  <2>4. \A n \in N : c[n] \in Int /\ c[n] >= b[n]
    BY <1>2, <2>2, <2>3
  <2>5. c \in Budgets(N, B)
    BY <2>3 DEF Budgets
  <2>6. b[s] > 0 /\ ~(b[s] <= 0)
    BY <1>1, <1>2, <1>4
  <2>7. \A n \in N : n # u \/ e \notin valid \/ b[s] <= 0 => c[n] = b[n]
    BY <1>4, <2>3, <2>6
  <2>8. c[u] >= w /\ (c[u] = b[u] \/ c[u] = w)
    BY <2>2, <2>3
  <2> QED BY <1>2, <2>4, <2>5, <2>7, <2>8 DEF w
<1>5. CASE ~(e \in valid /\ b[s] > 0)
  <2>1. c = b
    BY <1>5 DEF RelaxStep
  <2>2. \A n \in N : b[n] >= b[n]
    BY <1>2
  <2> QED BY <1>2, <1>5, <2>1, <2>2
<1> QED BY <1>4, <1>5

Below(N, b, c) == \A n \in N : b[n] <= c[n]

LEMMA BelowTransitive ==
  ASSUME NEW N, NEW B \in Nat, NEW b \in Budgets(N, B), NEW c \in Budgets(N, B), NEW d \in Budgets(N, B),
         Below(N, b, c), Below(N, c, d)
  PROVE  Below(N, b, d)
<1> SUFFICES ASSUME NEW n \in N PROVE b[n] <= d[n]
  BY DEF Below
<1>1. b[n] \in Int /\ c[n] \in Int /\ d[n] \in Int
  BY DEF Budgets
<1>2. b[n] <= c[n] /\ c[n] <= d[n]
  BY DEF Below
<1> QED BY <1>1, <1>2

LEMMA RelaxStepGrows ==
  ASSUME NEW N, NEW B \in Nat, NEW b \in Budgets(N, B), NEW e, EdgeOf(N, e), NEW valid
  PROVE  RelaxStep(valid, b, e) \in Budgets(N, B) /\ Below(N, b, RelaxStep(valid, b, e))
<1> DEFINE c == RelaxStep(valid, b, e)
<1>1. c \in Budgets(N, B) /\ \A n \in N : c[n] \in Int /\ b[n] \in Int /\ c[n] >= b[n]
  BY RelaxStepAt
<1> HIDE DEF c
<1>2. Below(N, b, c)
  BY <1>1 DEF Below
<1> QED BY <1>1, <1>2 DEF c

\* More budgets and more edges leave more budgets.
LEMMA RelaxStepMonotone ==
  ASSUME NEW N, NEW B \in Nat, NEW b \in Budgets(N, B), NEW d \in Budgets(N, B), Below(N, b, d),
         NEW e, EdgeOf(N, e), NEW valid, NEW more, valid \subseteq more
  PROVE  Below(N, RelaxStep(valid, b, e), RelaxStep(more, d, e))
<1> DEFINE c == RelaxStep(valid, b, e)
           g == RelaxStep(more, d, e)
<1>1. /\ \A n \in N : c[n] \in Int /\ b[n] \in Int
      /\ \A n \in N : n # e.subject \/ e \notin valid \/ b[e.signer] <= 0 => c[n] = b[n]
      /\ e \in valid /\ b[e.signer] > 0 =>
            c[e.subject] = b[e.subject] \/ c[e.subject] = Smaller(b[e.signer] - 1, e.level)
  BY RelaxStepAt
<1>2. /\ \A n \in N : g[n] \in Int /\ d[n] \in Int /\ g[n] >= d[n]
      /\ e \in more /\ d[e.signer] > 0 => g[e.subject] >= Smaller(d[e.signer] - 1, e.level)
  BY RelaxStepAt
<1> HIDE DEF c, g
<1> SUFFICES ASSUME NEW n \in N PROVE c[n] <= g[n]
  BY DEF Below, c, g
<1>3. b[n] <= d[n] /\ b[e.signer] <= d[e.signer] /\ e.signer \in N /\ e.subject \in N /\ e.level \in Nat
  BY DEF Below, EdgeOf
<1>4. CASE c[n] = b[n]
  BY <1>1, <1>2, <1>3, <1>4
<1>5. CASE c[n] # b[n]
  <2>1. n = e.subject /\ e \in valid /\ ~(b[e.signer] <= 0)
    BY <1>1, <1>5
  <2>2. b[e.signer] \in Int /\ d[e.signer] \in Int
    BY <1>1, <1>2, <1>3
  <2>3. b[e.signer] > 0 /\ d[e.signer] > 0
    BY <1>3, <2>1, <2>2
  <2>4. c[n] = Smaller(b[e.signer] - 1, e.level) /\ g[n] >= Smaller(d[e.signer] - 1, e.level)
    BY <1>1, <1>2, <1>5, <2>1, <2>3
  <2>5. Smaller(b[e.signer] - 1, e.level) <= Smaller(d[e.signer] - 1, e.level)
    BY <1>3, <2>2 DEF Smaller
  <2>6. Smaller(b[e.signer] - 1, e.level) \in Int /\ Smaller(d[e.signer] - 1, e.level) \in Int /\ g[n] \in Int
    BY <1>2, <1>3, <2>2 DEF Smaller
  <2> QED BY <2>4, <2>5, <2>6
<1> QED BY <1>4, <1>5

\* A round: one edge after the other.
RunOf(es, m, valid, f) == \A k \in 1..m : f[k] = RelaxStep(valid, f[k - 1], es[k])

IsRound(es, m, valid, b, c) == \E f : f[0] = b /\ f[m] = c /\ RunOf(es, m, valid, f)

LEMMA RunStays ==
  ASSUME NEW N, NEW B \in Nat, NEW m \in Nat, NEW es, \A k \in 1..m : EdgeOf(N, es[k]),
         NEW valid, NEW f, RunOf(es, m, valid, f), f[0] \in Budgets(N, B)
  PROVE  \A k \in 0..m : f[k] \in Budgets(N, B)
<1> DEFINE T == {k \in 0..m : f[k] \in Budgets(N, B)}
<1>1. 0 \in T
  OBVIOUS
<1>2. ASSUME NEW k \in 0..m, k # m, k \in T
      PROVE  k + 1 \in T
  <2>1. k + 1 \in 1..m /\ k + 1 \in 0..m /\ (k + 1) - 1 = k
    BY <1>2
  <2>2. f[k + 1] = RelaxStep(valid, f[k], es[k + 1]) /\ EdgeOf(N, es[k + 1]) /\ f[k] \in Budgets(N, B)
    BY <1>2, <2>1 DEF RunOf
  <2>3. f[k + 1] \in Budgets(N, B)
    BY ONLY <2>2, B \in Nat, RelaxStepAt
  <2> QED BY <2>1, <2>3
<1> HIDE DEF T
<1>3. \A k \in 0..m : k \in T
  BY <1>1, <1>2, InductionUpTo
<1> QED BY <1>3 DEF T

\* One edge of a run, of which every part is in its place.
LEMMA RunStep ==
  ASSUME NEW N, NEW B \in Nat, NEW m \in Nat, NEW es, \A k \in 1..m : EdgeOf(N, es[k]),
         NEW valid, NEW f, RunOf(es, m, valid, f), f[0] \in Budgets(N, B), NEW k \in 0..m, k # m
  PROVE  /\ k + 1 \in 0..m /\ k + 1 \in 1..m /\ EdgeOf(N, es[k + 1])
         /\ f[k] \in Budgets(N, B) /\ f[k + 1] \in Budgets(N, B)
         /\ f[k + 1] = RelaxStep(valid, f[k], es[k + 1])
<1>1. k + 1 \in 1..m /\ k + 1 \in 0..m /\ (k + 1) - 1 = k
  OBVIOUS
<1> QED BY <1>1, RunStays DEF RunOf

IsRun(es, m, valid, b, f) == f = [k \in 0..m |-> IF k = 0 THEN b ELSE RelaxStep(valid, f[k - 1], es[k])]

\* A round over any edges is well defined.
LEMMA RunExists ==
  ASSUME NEW N, NEW B \in Nat, NEW m \in Nat, NEW es, \A k \in 1..m : EdgeOf(N, es[k]),
         NEW valid, NEW b \in Budgets(N, B)
  PROVE  \E f : IsRun(es, m, valid, b, f) /\ \A k \in 0..m : f[k] \in Budgets(N, B)
<1> DEFINE D == Budgets(N, B)
           F == [p \in D \X (1..m) |-> RelaxStep(valid, p[1], es[p[2]])]
<1>1. \A x \in D : \A k \in 1..m : F[<<x, k>>] = RelaxStep(valid, x, es[k])
  OBVIOUS
<1>2. \A x \in D : \A k \in 1..m : F[<<x, k>>] \in D
  <2> SUFFICES ASSUME NEW x \in D, NEW k \in 1..m PROVE RelaxStep(valid, x, es[k]) \in D
    BY <1>1
  <2>1. EdgeOf(N, es[k]) /\ B \in Nat /\ x \in Budgets(N, B)
    OBVIOUS
  <2>2. RelaxStep(valid, x, es[k]) \in Budgets(N, B)
    BY ONLY <2>1, RelaxStepGrows
  <2> QED BY <2>2
<1> HIDE DEF F, D
<1>3. PICK f : IterateMap(F, b, m, f)
  BY IterateExists
<1>4. b \in D
  BY DEF D
<1>5. \A k \in 0..m : f[k] \in D
  BY <1>2, <1>3, <1>4, IterateStays
<1>6. \A k \in 0..m : k # 0 => k - 1 \in 0..m /\ k \in 1..m
  OBVIOUS
<1>7. f = [k \in 0..m |-> IF k = 0 THEN b ELSE RelaxStep(valid, f[k - 1], es[k])]
  <2>1. f = [k \in 0..m |-> IF k = 0 THEN b ELSE F[<<f[k - 1], k>>]]
    BY <1>3 DEF IterateMap
  <2>2. \A k \in 0..m : k # 0 => F[<<f[k - 1], k>>] = RelaxStep(valid, f[k - 1], es[k])
    BY <1>1, <1>5, <1>6
  <2> QED BY <2>1, <2>2
<1> QED BY <1>5, <1>7 DEF D, IsRun

LEMMA RoundGrows ==
  ASSUME NEW N, NEW B \in Nat, NEW m \in Nat, NEW es, \A k \in 1..m : EdgeOf(N, es[k]),
         NEW valid, NEW b \in Budgets(N, B), NEW c, IsRound(es, m, valid, b, c)
  PROVE  c \in Budgets(N, B) /\ Below(N, b, c)
<1>1. PICK f : f[0] = b /\ f[m] = c /\ RunOf(es, m, valid, f)
  BY DEF IsRound
<1> DEFINE T == {k \in 0..m : Below(N, b, f[k])}
<1>2. 0 \in T
  BY <1>1 DEF Below, Budgets
<1>3. ASSUME NEW k \in 0..m, k # m, k \in T
      PROVE  k + 1 \in T
  <2>1. /\ k + 1 \in 0..m /\ EdgeOf(N, es[k + 1])
        /\ f[k] \in Budgets(N, B) /\ f[k + 1] = RelaxStep(valid, f[k], es[k + 1])
    BY <1>1, <1>3, RunStep
  <2>2. Below(N, f[k], f[k + 1]) /\ f[k + 1] \in Budgets(N, B)
    BY ONLY <2>1, B \in Nat, RelaxStepGrows
  <2>3. Below(N, b, f[k])
    BY <1>3
  <2>4. Below(N, b, f[k + 1])
    BY ONLY <2>1, <2>2, <2>3, b \in Budgets(N, B), B \in Nat, BelowTransitive
  <2> QED BY <2>1, <2>4
<1> HIDE DEF T
<1>4. \A k \in 0..m : k \in T
  BY <1>2, <1>3, InductionUpTo
<1>5. m \in 0..m
  OBVIOUS
<1>6. Below(N, b, f[m])
  BY <1>4, <1>5 DEF T
<1>7. f[m] \in Budgets(N, B)
  BY <1>1, <1>5, RunStays
<1> QED BY <1>1, <1>6, <1>7

LEMMA RoundMonotone ==
  ASSUME NEW N, NEW B \in Nat, NEW m \in Nat, NEW es, \A k \in 1..m : EdgeOf(N, es[k]),
         NEW valid, NEW more, valid \subseteq more,
         NEW b \in Budgets(N, B), NEW c, IsRound(es, m, valid, b, c),
         NEW d \in Budgets(N, B), NEW g, IsRound(es, m, more, d, g), Below(N, b, d)
  PROVE  Below(N, c, g)
<1>1. PICK f : f[0] = b /\ f[m] = c /\ RunOf(es, m, valid, f)
  BY DEF IsRound
<1>2. PICK h : h[0] = d /\ h[m] = g /\ RunOf(es, m, more, h)
  BY DEF IsRound
<1> DEFINE T == {k \in 0..m : Below(N, f[k], h[k])}
<1>3. 0 \in T
  BY <1>1, <1>2
<1>4. ASSUME NEW k \in 0..m, k # m, k \in T
      PROVE  k + 1 \in T
  <2>1. /\ k + 1 \in 0..m /\ EdgeOf(N, es[k + 1])
        /\ f[k] \in Budgets(N, B) /\ f[k + 1] = RelaxStep(valid, f[k], es[k + 1])
    BY <1>1, <1>4, RunStep
  <2>2. h[k] \in Budgets(N, B) /\ h[k + 1] = RelaxStep(more, h[k], es[k + 1])
    BY <1>2, <1>4, RunStep
  <2>3. Below(N, f[k], h[k]) /\ valid \subseteq more
    BY <1>4
  <2>4. Below(N, f[k + 1], h[k + 1])
    BY ONLY <2>1, <2>2, <2>3, B \in Nat, RelaxStepMonotone
  <2> QED BY <2>1, <2>4
<1> HIDE DEF T
<1>5. \A k \in 0..m : k \in T
  BY <1>3, <1>4, InductionUpTo
<1>6. m \in 0..m
  OBVIOUS
<1> QED BY <1>1, <1>2, <1>5, <1>6 DEF T

\* A round follows every edge at least once, at no less than the budget its
\* signer started with.
LEMMA RoundReaches ==
  ASSUME NEW N, NEW B \in Nat, NEW m \in Nat, NEW es, \A k \in 1..m : EdgeOf(N, es[k]),
         NEW valid, NEW b \in Budgets(N, B), NEW c, IsRound(es, m, valid, b, c),
         NEW i \in 1..m, es[i] \in valid, NEW p \in 1..B, p <= b[es[i].signer]
  PROVE  c[es[i].subject] >= Smaller(p - 1, es[i].level)
<1>1. PICK f : f[0] = b /\ f[m] = c /\ RunOf(es, m, valid, f)
  BY DEF IsRound
<1> DEFINE e == es[i]
           s == e.signer
           u == e.subject
           w == Smaller(p - 1, e.level)
           T == {k \in 0..m : p <= f[k][s] /\ (k >= i => f[k][u] >= w)}
<1>2. EdgeOf(N, e) /\ s \in N /\ u \in N /\ e.level \in Nat /\ e \in valid
  BY DEF EdgeOf
<1>3. p \in Int /\ w \in Int /\ w <= p - 1 /\ w <= e.level
  BY <1>2 DEF Smaller
<1>4. 0 \in T
  BY <1>1
<1>5. ASSUME NEW k \in 0..m, k # m, k \in T
      PROVE  k + 1 \in T
  <2> DEFINE y == f[k]
             z == f[k + 1]
  <2>1. /\ k + 1 \in 0..m /\ EdgeOf(N, es[k + 1])
        /\ y \in Budgets(N, B) /\ z = RelaxStep(valid, y, es[k + 1])
    BY <1>1, <1>5, RunStep
  <2>2. Below(N, y, z) /\ z \in Budgets(N, B)
    BY ONLY <2>1, B \in Nat, RelaxStepGrows
  <2>3. p <= y[s] /\ (k >= i => y[u] >= w)
    BY <1>5
  <2> HIDE DEF y, z
  <2>4. y[s] \in Int /\ z[s] \in Int /\ y[u] \in Int /\ z[u] \in Int /\ y[s] <= z[s] /\ y[u] <= z[u]
    BY <1>2, <2>1, <2>2 DEF Below, Budgets
  <2>5. p <= z[s]
    BY <1>3, <2>3, <2>4
  <2>6. CASE k >= i
    <3>1. z[u] >= w
      <4> HIDE DEF w
      <4> QED BY <1>3, <2>3, <2>4, <2>6
    <3> QED BY <2>1, <2>5, <3>1 DEF z
  <2>7. CASE ~(k >= i) /\ k + 1 >= i
    <3>1. k + 1 = i
      BY <2>7
    <3>2. z = RelaxStep(valid, y, e) /\ EdgeOf(N, e) /\ y \in Budgets(N, B)
      BY <1>2, <2>1, <3>1
    <3>3. e \in valid /\ y[s] > 0
      BY <1>2, <2>3, <2>4
    <3>4. z[u] >= Smaller(y[s] - 1, e.level)
      <4>1. e \in valid /\ y[e.signer] > 0
        BY <3>3
      <4>2. z[e.subject] >= Smaller(y[e.signer] - 1, e.level)
        BY ONLY <3>2, <4>1, B \in Nat, RelaxStepAt
      <4> QED BY <4>2
    <3>5. Smaller(y[s] - 1, e.level) >= w /\ Smaller(y[s] - 1, e.level) \in Int
      BY <1>2, <1>3, <2>3, <2>4 DEF Smaller
    <3>6. z[u] >= w
      <4> HIDE DEF w
      <4> QED BY <1>3, <2>4, <3>4, <3>5
    <3> QED BY <2>1, <2>5, <3>6 DEF z
  <2>8. CASE ~(k + 1 >= i)
    BY <2>1, <2>5, <2>8 DEF z
  <2> QED BY <2>6, <2>7, <2>8
<1> HIDE DEF T
<1>6. \A k \in 0..m : k \in T
  BY <1>4, <1>5, InductionUpTo
<1>7. m \in 0..m /\ m >= i
  OBVIOUS
<1>8. f[m][u] >= w
  BY <1>6, <1>7 DEF T
<1> QED BY <1>1, <1>8

\* A set of pairs of a node and a budget that holds what follows from its
\* members by a valid edge.
ClosedUnder(valid, B, X) ==
    \A e \in valid : \A p \in 1..B :
        <<e.signer, p>> \in X => <<e.subject, Smaller(p - 1, e.level)>> \in X

\* Every budget there is, is one of the pairs.
Within(N, b, X) == \A n \in N : b[n] >= 0 => <<n, b[n]>> \in X

LEMMA RelaxStepWithin ==
  ASSUME NEW N, NEW B \in Nat, NEW b \in Budgets(N, B), NEW e, EdgeOf(N, e), NEW valid, NEW X,
         ClosedUnder(valid, B, X), Within(N, b, X)
  PROVE  Within(N, RelaxStep(valid, b, e), X)
<1> DEFINE c == RelaxStep(valid, b, e)
           w == Smaller(b[e.signer] - 1, e.level)
<1>1. /\ \A n \in N : n # e.subject \/ e \notin valid \/ b[e.signer] <= 0 => c[n] = b[n]
      /\ e \in valid /\ b[e.signer] > 0 => c[e.subject] = b[e.subject] \/ c[e.subject] = w
  BY RelaxStepAt
<1> HIDE DEF c
<1> SUFFICES ASSUME NEW n \in N, c[n] >= 0 PROVE <<n, c[n]>> \in X
  BY DEF Within, c
<1>2. CASE c[n] = b[n]
  BY <1>2 DEF Within
<1>3. CASE c[n] # b[n]
  <2>1. n = e.subject /\ e \in valid /\ ~(b[e.signer] <= 0) /\ e.signer \in N
    BY <1>1, <1>3 DEF EdgeOf
  <2>2. b[e.signer] \in 1..B /\ b[e.signer] > 0 /\ b[e.signer] >= 0
    BY <2>1 DEF Budgets
  <2>3. c[n] = w
    BY <1>1, <1>3, <2>1, <2>2
  <2>4. <<e.signer, b[e.signer]>> \in X
    BY <2>1, <2>2 DEF Within
  <2>5. <<e.subject, w>> \in X
    BY <2>1, <2>2, <2>4 DEF ClosedUnder
  <2> QED BY <2>1, <2>3, <2>5
<1> QED BY <1>2, <1>3

LEMMA RoundWithin ==
  ASSUME NEW N, NEW B \in Nat, NEW m \in Nat, NEW es, \A k \in 1..m : EdgeOf(N, es[k]),
         NEW valid, NEW b \in Budgets(N, B), NEW c, IsRound(es, m, valid, b, c),
         NEW X, ClosedUnder(valid, B, X), Within(N, b, X)
  PROVE  Within(N, c, X)
<1>1. PICK f : f[0] = b /\ f[m] = c /\ RunOf(es, m, valid, f)
  BY DEF IsRound
<1> DEFINE T == {k \in 0..m : Within(N, f[k], X)}
<1>2. 0 \in T
  BY <1>1
<1>3. ASSUME NEW k \in 0..m, k # m, k \in T
      PROVE  k + 1 \in T
  <2>1. /\ k + 1 \in 0..m /\ EdgeOf(N, es[k + 1])
        /\ f[k] \in Budgets(N, B) /\ f[k + 1] = RelaxStep(valid, f[k], es[k + 1])
    BY <1>1, <1>3, RunStep
  <2>2. Within(N, f[k], X) /\ ClosedUnder(valid, B, X)
    BY <1>3
  <2>3. Within(N, f[k + 1], X)
    BY ONLY <2>1, <2>2, B \in Nat, RelaxStepWithin
  <2> QED BY <2>1, <2>3
<1> HIDE DEF T
<1>4. \A k \in 0..m : k \in T
  BY <1>2, <1>3, InductionUpTo
<1>5. m \in 0..m
  OBVIOUS
<1> QED BY <1>1, <1>4, <1>5 DEF T

-----------------------------------------------------------------------------
(* Round after round. *)

AreRounds(es, m, valid, b, r, Z) ==
    Z[0] = b /\ \A k \in 1..r : IsRound(es, m, valid, Z[k - 1], Z[k])

LEMMA RoundsGrow ==
  ASSUME NEW N, NEW B \in Nat, NEW m \in Nat, NEW es, \A k \in 1..m : EdgeOf(N, es[k]),
         NEW valid, NEW b \in Budgets(N, B), NEW r \in Nat, NEW Z, AreRounds(es, m, valid, b, r, Z)
  PROVE  /\ \A k \in 0..r : Z[k] \in Budgets(N, B)
         /\ \A k \in 0..r : k # r => k + 1 \in 0..r /\ IsRound(es, m, valid, Z[k], Z[k + 1])
<1> DEFINE T == {k \in 0..r : Z[k] \in Budgets(N, B)}
<1>1. 0 \in T
  BY DEF AreRounds
<1>2. ASSUME NEW k \in 0..r, k # r
      PROVE  k + 1 \in 0..r /\ IsRound(es, m, valid, Z[k], Z[k + 1])
  <2>1. k + 1 \in 1..r /\ k + 1 \in 0..r /\ (k + 1) - 1 = k
    BY <1>2
  <2> QED BY <2>1 DEF AreRounds
<1>3. ASSUME NEW k \in 0..r, k # r, k \in T
      PROVE  k + 1 \in T
  <2>1. k + 1 \in 0..r /\ IsRound(es, m, valid, Z[k], Z[k + 1]) /\ Z[k] \in Budgets(N, B)
    BY <1>2, <1>3
  <2>2. Z[k + 1] \in Budgets(N, B)
    BY <2>1, RoundGrows
  <2> QED BY <2>1, <2>2
<1> HIDE DEF T
<1>4. \A k \in 0..r : k \in T
  BY <1>1, <1>3, InductionUpTo
<1> QED BY <1>2, <1>4 DEF T

\* More edges leave more budgets after any number of rounds.
LEMMA RoundsMonotone ==
  ASSUME NEW N, NEW B \in Nat, NEW m \in Nat, NEW es, \A k \in 1..m : EdgeOf(N, es[k]),
         NEW valid, NEW more, valid \subseteq more, NEW b \in Budgets(N, B), NEW r \in Nat,
         NEW Z, AreRounds(es, m, valid, b, r, Z), NEW Y, AreRounds(es, m, more, b, r, Y)
  PROVE  Below(N, Z[r], Y[r])
<1>0. B \in Nat /\ m \in Nat /\ r \in Nat /\ b \in Budgets(N, B) /\ (\A k \in 1..m : EdgeOf(N, es[k]))
  OBVIOUS
<1>z. /\ \A k \in 0..r : Z[k] \in Budgets(N, B)
      /\ \A k \in 0..r : k # r => k + 1 \in 0..r /\ IsRound(es, m, valid, Z[k], Z[k + 1])
  BY ONLY <1>0, AreRounds(es, m, valid, b, r, Z), RoundsGrow
<1>y. /\ \A k \in 0..r : Y[k] \in Budgets(N, B)
      /\ \A k \in 0..r : k # r => k + 1 \in 0..r /\ IsRound(es, m, more, Y[k], Y[k + 1])
  BY ONLY <1>0, AreRounds(es, m, more, b, r, Y), RoundsGrow
<1> DEFINE T == {k \in 0..r : Below(N, Z[k], Y[k])}
<1>1. 0 \in T
  BY DEF AreRounds, Below, Budgets
<1>2. ASSUME NEW k \in 0..r, k # r, k \in T
      PROVE  k + 1 \in T
  <2>1. k + 1 \in 0..r /\ IsRound(es, m, valid, Z[k], Z[k + 1]) /\ Z[k] \in Budgets(N, B)
    BY <1>2, <1>z
  <2>2. IsRound(es, m, more, Y[k], Y[k + 1]) /\ Y[k] \in Budgets(N, B)
    BY <1>2, <1>y
  <2>3. Below(N, Z[k], Y[k])
    BY <1>2
  <2>4. Below(N, Z[k + 1], Y[k + 1])
    BY <2>1, <2>2, <2>3, RoundMonotone
  <2> QED BY <2>1, <2>4
<1> HIDE DEF T
<1>3. \A k \in 0..r : k \in T
  BY <1>1, <1>2, InductionUpTo
<1>4. r \in 0..r
  OBVIOUS
<1> QED BY <1>3, <1>4 DEF T

-----------------------------------------------------------------------------
(* The budgets at which chains of edges arrive. *)

AreArrivals(valid, root, B, A) ==
    /\ A[0] = {<<root, B>>}
    /\ \A k \in 1..B : \A r :
          r \in A[k] <=> \/ r \in A[k - 1]
                         \/ \E e \in valid : \E p \in 1..B :
                               <<e.signer, p>> \in A[k - 1] /\ r = <<e.subject, Smaller(p - 1, e.level)>>

\* The chains of k edges that are longer than those of k - 1.
LEMMA ArrivalsStep ==
  ASSUME NEW B \in Nat, NEW valid, NEW root, NEW A, AreArrivals(valid, root, B, A), NEW k \in 0..B, k # B
  PROVE  /\ k + 1 \in 0..B
         /\ A[k] \subseteq A[k + 1]
         /\ \A e \in valid : \A p \in 1..B :
               <<e.signer, p>> \in A[k] => <<e.subject, Smaller(p - 1, e.level)>> \in A[k + 1]
         /\ \A r \in A[k + 1] :
               \/ r \in A[k]
               \/ \E e \in valid : \E p \in 1..B :
                     <<e.signer, p>> \in A[k] /\ r = <<e.subject, Smaller(p - 1, e.level)>>
<1>1. k + 1 \in 1..B /\ k + 1 \in 0..B /\ (k + 1) - 1 = k
  OBVIOUS
<1>2. \A r : r \in A[k + 1] <=> \/ r \in A[k]
                                \/ \E e \in valid : \E p \in 1..B :
                                      <<e.signer, p>> \in A[k] /\ r = <<e.subject, Smaller(p - 1, e.level)>>
  BY <1>1 DEF AreArrivals
<1> QED BY <1>1, <1>2

\* A budget is lost on every edge, so it arrives early.
Early(B, A, X) == \A r \in X : \E n : \E b \in 0..B : r = <<n, b>> /\ r \in A[B - b]

LEMMA ArrivalsGrow ==
  ASSUME NEW B \in Nat, NEW valid, NEW root, NEW A, AreArrivals(valid, root, B, A), NEW j \in 0..B
  PROVE  \A k \in 0..B : j <= k => A[j] \subseteq A[k]
<1> DEFINE T == {k \in 0..B : j <= k => A[j] \subseteq A[k]}
<1>1. 0 \in T
  OBVIOUS
<1>2. ASSUME NEW k \in 0..B, k # B, k \in T
      PROVE  k + 1 \in T
  <2>1. k + 1 \in 0..B /\ A[k] \subseteq A[k + 1]
    BY <1>2, ArrivalsStep
  <2>2. CASE j <= k
    BY <1>2, <2>1, <2>2
  <2>3. CASE ~(j <= k)
    <3>1. j <= k + 1 => j = k + 1
      BY <2>3
    <3> QED BY <2>1, <3>1
  <2> QED BY <2>2, <2>3
<1> HIDE DEF T
<1>3. \A k \in 0..B : k \in T
  BY <1>1, <1>2, InductionUpTo
<1> QED BY <1>3 DEF T

LEMMA ArrivalsEarly ==
  ASSUME NEW N, NEW B \in Nat, NEW valid, \A e \in valid : EdgeOf(N, e), NEW root,
         NEW A, AreArrivals(valid, root, B, A)
  PROVE  \A k \in 0..B : Early(B, A, A[k])
<1> DEFINE T == {k \in 0..B : Early(B, A, A[k])}
<1>1. 0 \in T
  <2>1. A[0] = {<<root, B>>} /\ B \in 0..B /\ B - B = 0 /\ 0 \in 0..B
    BY DEF AreArrivals
  <2>2. <<root, B>> \in A[B - B]
    BY <2>1
  <2>3. Early(B, A, A[0])
    BY <2>1, <2>2 DEF Early
  <2> QED BY <2>1, <2>3
<1>2. ASSUME NEW k \in 0..B, k # B, k \in T
      PROVE  k + 1 \in T
  <2>1. k + 1 \in 0..B
    BY <1>2
  <2>2. ASSUME NEW r \in A[k + 1]
        PROVE  \E n : \E b \in 0..B : r = <<n, b>> /\ r \in A[B - b]
    <3>1. CASE r \in A[k]
      BY <1>2, <3>1 DEF Early
    <3>2. CASE r \notin A[k]
      <4>1. \E e \in valid : \E p \in 1..B :
                <<e.signer, p>> \in A[k] /\ r = <<e.subject, Smaller(p - 1, e.level)>>
        BY <1>2, <3>2, ArrivalsStep
      <4>2. PICK e \in valid : \E p \in 1..B :
                <<e.signer, p>> \in A[k] /\ r = <<e.subject, Smaller(p - 1, e.level)>>
        BY <4>1
      <4>3. PICK p \in 1..B : <<e.signer, p>> \in A[k] /\ r = <<e.subject, Smaller(p - 1, e.level)>>
        BY <4>2
      <4>4. <<e.signer, p>> \in A[B - p]
        BY <1>2, <4>3 DEF Early
      <4> DEFINE w == Smaller(p - 1, e.level)
                 i == B - p
      <4>5. i \in 0..B /\ i # B /\ i + 1 = B - (p - 1)
        OBVIOUS
      <4>6. r \in A[i + 1] /\ i + 1 \in 0..B
        <5>1. <<e.signer, p>> \in A[i] /\ e \in valid /\ p \in 1..B
          BY <4>4
        <5> HIDE DEF i
        <5>2. <<e.subject, Smaller(p - 1, e.level)>> \in A[i + 1] /\ i + 1 \in 0..B
          BY <4>5, <5>1, ArrivalsStep
        <5> QED BY <4>3, <5>2
      <4>7. w \in 0..B /\ B - w \in 0..B /\ i + 1 <= B - w
        <5>1. e.level \in Nat
          BY DEF EdgeOf
        <5> QED BY <5>1 DEF Smaller
      <4> HIDE DEF i
      <4>8. A[i + 1] \subseteq A[B - w]
        <5> HIDE DEF w
        <5> QED BY <4>6, <4>7, ArrivalsGrow
      <4>9. r = <<e.subject, w>> /\ r \in A[B - w]
        BY <4>3, <4>6, <4>8
      <4> QED BY <4>7, <4>9
    <3> QED BY <3>1, <3>2
  <2>3. Early(B, A, A[k + 1])
    BY <2>2 DEF Early
  <2> QED BY <2>1, <2>3
<1> HIDE DEF T
<1>3. \A k \in 0..B : k \in T
  BY <1>1, <1>2, InductionUpTo
<1> QED BY <1>3 DEF T

\* Chains longer than the budget arrive at nothing new.
LEMMA ArrivalsClosed ==
  ASSUME NEW N, NEW B \in Nat, NEW valid, \A e \in valid : EdgeOf(N, e), NEW root,
         NEW A, AreArrivals(valid, root, B, A)
  PROVE  ClosedUnder(valid, B, A[B])
<1> SUFFICES ASSUME NEW e \in valid, NEW p \in 1..B, <<e.signer, p>> \in A[B]
             PROVE  <<e.subject, Smaller(p - 1, e.level)>> \in A[B]
  BY DEF ClosedUnder
<1> DEFINE i == B - p
<1>1. i \in 0..B /\ i # B /\ B \in 0..B
  OBVIOUS
<1>2. Early(B, A, A[B])
  BY <1>1, ArrivalsEarly
<1>3. <<e.signer, p>> \in A[i]
  BY <1>2 DEF Early
<1> HIDE DEF i
<1>4. <<e.subject, Smaller(p - 1, e.level)>> \in A[i + 1] /\ i + 1 \in 0..B
  BY <1>1, <1>3, ArrivalsStep
<1>5. A[i + 1] \subseteq A[B]
  <2>1. i + 1 <= B
    BY <1>4
  <2> QED BY <1>1, <1>4, <2>1, ArrivalsGrow
<1> QED BY <1>4, <1>5

-----------------------------------------------------------------------------
(* The rounds find the best of the arrivals. *)

\* No chain arrives at more than the budget.
Covering(N, b, X) == \A r \in X : \E n \in N : r[1] = n /\ r = <<n, r[2]>> /\ r[2] <= b[n]

StartWith(N, root, B, b) == \A n \in N : b[n] = IF n = root THEN B ELSE -1

LEMMA RoundsCover ==
  ASSUME NEW N, NEW B \in Nat, NEW m \in Nat, NEW es, \A k \in 1..m : EdgeOf(N, es[k]),
         NEW valid, \A e \in valid : \E i \in 1..m : es[i] = e,
         NEW root \in N, NEW b \in Budgets(N, B), StartWith(N, root, B, b),
         NEW r \in Nat, B <= r, NEW Z, AreRounds(es, m, valid, b, r, Z),
         NEW A, AreArrivals(valid, root, B, A)
  PROVE  \A k \in 0..B : Covering(N, Z[k], A[k])
<1>0. B \in Nat /\ m \in Nat /\ r \in Nat /\ b \in Budgets(N, B) /\ (\A k \in 1..m : EdgeOf(N, es[k]))
  OBVIOUS
<1>z. /\ \A k \in 0..r : Z[k] \in Budgets(N, B)
      /\ \A k \in 0..r : k # r => k + 1 \in 0..r /\ IsRound(es, m, valid, Z[k], Z[k + 1])
  BY ONLY <1>0, AreRounds(es, m, valid, b, r, Z), RoundsGrow
<1> DEFINE T == {k \in 0..B : Covering(N, Z[k], A[k])}
<1>1. 0 \in T
  <2>1. A[0] = {<<root, B>>} /\ Z[0] = b /\ b[root] = B /\ 0 \in 0..B
    BY DEF AreArrivals, AreRounds, StartWith
  <2>2. Covering(N, Z[0], A[0])
    BY <2>1 DEF Covering
  <2> QED BY <2>1, <2>2
<1>2. ASSUME NEW k \in 0..B, k # B, k \in T
      PROVE  k + 1 \in T
  <2> DEFINE y == Z[k]
             z == Z[k + 1]
  <2>1. k \in 0..r /\ k # r /\ k + 1 \in 0..B
    BY <1>2
  <2>2. IsRound(es, m, valid, y, z) /\ y \in Budgets(N, B) /\ z \in Budgets(N, B)
    BY <1>z, <2>1
  <2>3. Below(N, y, z)
    BY ONLY <1>0, <2>2, RoundGrows
  <2>4. Covering(N, y, A[k])
    BY <1>2
  <2> HIDE DEF y, z
  <2>5. ASSUME NEW x \in A[k + 1]
        PROVE  \E n \in N : x[1] = n /\ x = <<n, x[2]>> /\ x[2] <= z[n]
    <3>1. CASE x \in A[k]
      <4>1. PICK n \in N : x[1] = n /\ x = <<n, x[2]>> /\ x[2] <= y[n]
        BY <2>4, <3>1 DEF Covering
      <4>2. y[n] <= z[n] /\ y[n] \in Int /\ z[n] \in Int
        BY <2>2, <2>3 DEF Below, Budgets
      <4>3. x[2] \in Int
        <5>1. Early(B, A, A[k])
          BY <1>2, ArrivalsEarly, \A e \in valid : EdgeOf(N, e)
        <5> QED BY <3>1, <5>1 DEF Early
      <4>4. x[2] <= z[n]
        BY <4>1, <4>2, <4>3
      <4> QED BY <4>1, <4>4
    <3>2. CASE x \notin A[k]
      <4>1. \E e \in valid : \E p \in 1..B :
                <<e.signer, p>> \in A[k] /\ x = <<e.subject, Smaller(p - 1, e.level)>>
        BY <1>2, <3>2, ArrivalsStep
      <4>2. PICK e \in valid : \E p \in 1..B :
                <<e.signer, p>> \in A[k] /\ x = <<e.subject, Smaller(p - 1, e.level)>>
        BY <4>1
      <4>3. PICK p \in 1..B : <<e.signer, p>> \in A[k] /\ x = <<e.subject, Smaller(p - 1, e.level)>>
        BY <4>2
      <4>4. PICK i \in 1..m : es[i] = e
        OBVIOUS
      <4>5. EdgeOf(N, e) /\ e.subject \in N /\ e.signer \in N
        BY <4>4 DEF EdgeOf
      <4>6. p <= y[es[i].signer] /\ es[i] \in valid
        BY <2>4, <4>3, <4>4 DEF Covering
      <4>7. z[es[i].subject] >= Smaller(p - 1, es[i].level)
        BY ONLY <1>0, <2>2, <4>6, p \in 1..B, i \in 1..m, RoundReaches
      <4>8. x[1] = e.subject /\ x[2] = Smaller(p - 1, e.level) /\ x = <<e.subject, x[2]>>
        BY <4>3
      <4>9. z[e.subject] \in Int /\ Smaller(p - 1, e.level) \in Int
        BY <2>2, <4>5 DEF Budgets, EdgeOf, Smaller
      <4>10. x[2] <= z[e.subject]
        <5>1. z[e.subject] >= x[2] /\ x[2] \in Int
          BY <4>4, <4>7, <4>8, <4>9
        <5> QED BY <4>9, <5>1
      <4> QED BY <4>5, <4>8, <4>10
    <3> QED BY <3>1, <3>2
  <2>6. Covering(N, z, A[k + 1])
    BY <2>5 DEF Covering
  <2> QED BY <2>1, <2>6 DEF z
<1> HIDE DEF T
<1>3. \A k \in 0..B : k \in T
  BY <1>1, <1>2, InductionUpTo
<1> QED BY <1>3 DEF T

LEMMA RoundsWithin ==
  ASSUME NEW N, NEW B \in Nat, NEW m \in Nat, NEW es, \A k \in 1..m : EdgeOf(N, es[k]),
         NEW valid, NEW b \in Budgets(N, B), NEW X, ClosedUnder(valid, B, X), Within(N, b, X),
         NEW r \in Nat, NEW Z, AreRounds(es, m, valid, b, r, Z)
  PROVE  \A k \in 0..r : Within(N, Z[k], X)
<1>0. /\ B \in Nat /\ m \in Nat /\ r \in Nat /\ b \in Budgets(N, B)
      /\ (\A k \in 1..m : EdgeOf(N, es[k])) /\ ClosedUnder(valid, B, X)
  OBVIOUS
<1>z. /\ \A k \in 0..r : Z[k] \in Budgets(N, B)
      /\ \A k \in 0..r : k # r => k + 1 \in 0..r /\ IsRound(es, m, valid, Z[k], Z[k + 1])
  BY ONLY <1>0, AreRounds(es, m, valid, b, r, Z), RoundsGrow
<1> DEFINE T == {k \in 0..r : Within(N, Z[k], X)}
<1>1. 0 \in T
  BY DEF AreRounds
<1>2. ASSUME NEW k \in 0..r, k # r, k \in T
      PROVE  k + 1 \in T
  <2>1. /\ k + 1 \in 0..r /\ IsRound(es, m, valid, Z[k], Z[k + 1]) /\ Z[k] \in Budgets(N, B)
        /\ Within(N, Z[k], X)
    BY <1>2, <1>z
  <2>2. Within(N, Z[k + 1], X)
    BY ONLY <1>0, <2>1, RoundWithin
  <2> QED BY <2>1, <2>2
<1> HIDE DEF T
<1>3. \A k \in 0..r : k \in T
  BY <1>1, <1>2, InductionUpTo
<1> QED BY <1>3 DEF T

\* One round more than the budget leaves every node with the largest budget at
\* which a chain of valid edges arrives at it.
LEMMA RoundsFindBest ==
  ASSUME NEW N, NEW B \in Nat, NEW m \in Nat, NEW es, \A k \in 1..m : EdgeOf(N, es[k]),
         NEW valid, \A e \in valid : \E i \in 1..m : es[i] = e,
         NEW root \in N, NEW b \in Budgets(N, B), StartWith(N, root, B, b),
         NEW Z, AreRounds(es, m, valid, b, B + 1, Z),
         NEW A, AreArrivals(valid, root, B, A)
  PROVE  \A n \in N :
            /\ Z[B + 1][n] \in -1..B
            /\ Z[B + 1][n] >= 0 => <<n, Z[B + 1][n]>> \in A[B]
            /\ \A q : <<n, q>> \in A[B] => q \in 0..B /\ q <= Z[B + 1][n]
<1> DEFINE r == B + 1
<1>0. /\ B \in Nat /\ m \in Nat /\ r \in Nat /\ b \in Budgets(N, B)
      /\ (\A k \in 1..m : EdgeOf(N, es[k])) /\ AreRounds(es, m, valid, b, r, Z)
  OBVIOUS
<1>1. B \in 0..r /\ B # r /\ r \in 0..r /\ B <= r /\ B \in 0..B /\ 0 \in 0..B /\ 0 <= B
  OBVIOUS
<1>2. \A e \in valid : EdgeOf(N, e)
  OBVIOUS
<1> HIDE DEF r
<1>z. /\ \A k \in 0..r : Z[k] \in Budgets(N, B)
      /\ \A k \in 0..r : k # r => k + 1 \in 0..r /\ IsRound(es, m, valid, Z[k], Z[k + 1])
  BY ONLY <1>0, RoundsGrow
<1>3. ClosedUnder(valid, B, A[B])
  BY ONLY <1>0, <1>2, AreArrivals(valid, root, B, A), ArrivalsClosed
<1>4. Within(N, b, A[B])
  <2>1. <<root, B>> \in A[0] /\ A[0] \subseteq A[B]
    <3>1. A[0] = {<<root, B>>}
      BY DEF AreArrivals
    <3>2. A[0] \subseteq A[B]
      BY <1>1, ArrivalsGrow
    <3> QED BY <3>1, <3>2
  <2> QED BY <2>1 DEF Within, StartWith
<1>5. Within(N, Z[r], A[B])
  <2>1. \A k \in 0..r : Within(N, Z[k], A[B])
    BY ONLY <1>0, <1>3, <1>4, RoundsWithin
  <2> QED BY <1>1, <2>1
<1>6. Covering(N, Z[B], A[B])
  <2>1. \A k \in 0..B : Covering(N, Z[k], A[k])
    BY ONLY <1>0, <1>1, \A e \in valid : \E i \in 1..m : es[i] = e, root \in N,
            StartWith(N, root, B, b), AreArrivals(valid, root, B, A), RoundsCover
  <2> QED BY <1>1, <2>1
<1>7. Below(N, Z[B], Z[r])
  <2>1. IsRound(es, m, valid, Z[B], Z[B + 1]) /\ Z[B] \in Budgets(N, B)
    BY <1>z, <1>1
  <2>2. Below(N, Z[B], Z[B + 1])
    BY ONLY <1>0, <2>1, RoundGrows
  <2> QED BY <2>2 DEF r
<1>8. Early(B, A, A[B])
  BY <1>1, <1>2, ArrivalsEarly
<1>9. Z[B] \in Budgets(N, B) /\ Z[r] \in Budgets(N, B)
  BY <1>z, <1>1
<1> SUFFICES ASSUME NEW n \in N
             PROVE  /\ Z[r][n] \in -1..B
                    /\ Z[r][n] >= 0 => <<n, Z[r][n]>> \in A[B]
                    /\ \A q : <<n, q>> \in A[B] => q \in 0..B /\ q <= Z[r][n]
  BY DEF r
<1>10. Z[r][n] \in -1..B /\ Z[B][n] \in -1..B /\ Z[B][n] <= Z[r][n]
  BY <1>7, <1>9 DEF Budgets, Below
<1>11. Z[r][n] >= 0 => <<n, Z[r][n]>> \in A[B]
  BY <1>5 DEF Within
<1>12. ASSUME NEW q, <<n, q>> \in A[B]
       PROVE  q \in 0..B /\ q <= Z[r][n]
  <2>1. q \in 0..B
    BY <1>8, <1>12 DEF Early
  <2>2. q <= Z[B][n]
    BY <1>6, <1>12 DEF Covering
  <2> QED BY <1>10, <2>1, <2>2
<1> QED BY <1>10, <1>11, <1>12

-----------------------------------------------------------------------------
(* One edge more. *)

\* A node that ends with more than before has it along the new edge, and so
\* has less than what its signer had before.
LEMMA NewEdgeNarrows ==
  ASSUME NEW N, NEW B \in Nat, NEW valid, NEW more, \A e \in more : EdgeOf(N, e),
         NEW s, \A e \in more \ valid : e.signer = s,
         NEW root, NEW A, AreArrivals(valid, root, B, A), NEW C, AreArrivals(more, root, B, C)
  PROVE  \A k \in 0..B : \A x \in C[k] :
            \/ x \in A[k]
            \/ \E p \in 1..B : <<s, p>> \in A[B] /\ x[2] < p
<1> DEFINE Late(x) == \E p \in 1..B : <<s, p>> \in A[B] /\ x[2] < p
           T == {k \in 0..B : \A x \in C[k] : x \in A[k] \/ Late(x)}
<1>1. 0 \in T
  BY DEF AreArrivals
<1>2. ASSUME NEW k \in 0..B, k # B, k \in T
      PROVE  k + 1 \in T
  <2>1. k + 1 \in 0..B
    BY <1>2
  <2>2. ASSUME NEW x \in C[k + 1]
        PROVE  x \in A[k + 1] \/ Late(x)
    <3>0. A[k] \subseteq A[k + 1]
      BY <1>2, ArrivalsStep
    <3>1. CASE x \in C[k]
      BY <1>2, <3>0, <3>1
    <3>2. CASE x \notin C[k]
      <4>1. \E e \in more : \E p \in 1..B :
                <<e.signer, p>> \in C[k] /\ x = <<e.subject, Smaller(p - 1, e.level)>>
        BY <1>2, <3>2, ArrivalsStep
      <4>2. PICK e \in more : \E p \in 1..B :
                <<e.signer, p>> \in C[k] /\ x = <<e.subject, Smaller(p - 1, e.level)>>
        BY <4>1
      <4>3. PICK p \in 1..B : <<e.signer, p>> \in C[k] /\ x = <<e.subject, Smaller(p - 1, e.level)>>
        BY <4>2
      <4>4. x[2] \in Int /\ x[2] < p
        <5>1. e.level \in Nat /\ x[2] = Smaller(p - 1, e.level)
          BY <4>3 DEF EdgeOf
        <5> QED BY <5>1 DEF Smaller
      <4>5. CASE Late(<<e.signer, p>>)
        <5>1. PICK q \in 1..B : <<s, q>> \in A[B] /\ p < q
          BY <4>5
        <5>2. x[2] < q
          BY <4>4, <5>1
        <5> QED BY <5>1, <5>2
      <4>6. CASE <<e.signer, p>> \in A[k] /\ e \in valid
        BY <1>2, <4>3, <4>6, ArrivalsStep
      <4>7. CASE <<e.signer, p>> \in A[k] /\ e \notin valid
        <5>1. A[k] \subseteq A[B]
          <6>1. k <= B /\ B \in 0..B
            OBVIOUS
          <6> QED BY <6>1, ArrivalsGrow
        <5>2. e.signer = s
          BY <4>7
        <5> QED BY <4>4, <4>7, <5>1, <5>2
      <4> QED BY <1>2, <4>3, <4>5, <4>6, <4>7
    <3> QED BY <3>1, <3>2
  <2> QED BY <2>1, <2>2
<1> HIDE DEF T
<1>3. \A k \in 0..B : k \in T
  BY <1>1, <1>2, InductionUpTo
<1> QED BY <1>3 DEF T
=============================================================================
