---------------------------- MODULE SharedLemmas ----------------------------
(***************************************************************************)
(* Facts several proofs rest on: induction over finite sets, what adding   *)
(* up a function gives, and how weekStartOf and splitAcrossWeeks cut time. *)
(***************************************************************************)
EXTENDS WorkHours, FiniteSets, Functions, FiniteSetTheorems, WellFoundedInduction, TLAPS

(***************************************************************************)
(* Induction over a finite set, for a set of subsets: a smallest subset    *)
(* that is not in it would have all those with one element less in it.     *)
(***************************************************************************)
LEMMA SetInduction ==
  ASSUME NEW S, IsFiniteSet(S), NEW Good,
         \A T \in SUBSET S : (\A x \in T : T \ {x} \in Good) => T \in Good
  PROVE  S \in Good
<1> DEFINE Bad == (SUBSET S) \ Good
<1> SUFFICES ASSUME Bad # {} PROVE FALSE
  OBVIOUS
<1>1. PICK s \in Bad : \A t \in Bad : <<t, s>> \notin StrictSubsetOrdering(S)
  <2>1. IsWellFoundedOn(StrictSubsetOrdering(S), SUBSET S)
    BY ONLY IsFiniteSet(S), FS_StrictSubsetOrderingWellFounded, FS_FiniteSubsetsOfFinite
  <2> HIDE DEF Bad
  <2>2. Bad \subseteq SUBSET S
    BY DEF Bad
  <2> QED  BY <2>1, <2>2, WFMin
<1>2. \A x \in s : <<s \ {x}, s>> \in StrictSubsetOrdering(S)
  BY <1>1 DEF StrictSubsetOrdering
<1>3. \A x \in s : s \ {x} \in Good
  BY <1>1, <1>2
<1> QED  BY <1>1, <1>3

\* The same over the natural numbers.
LEMMA NumberInduction ==
  ASSUME NEW Good, \A n \in Nat : (\A m \in 0 .. (n - 1) : m \in Good) => n \in Good
  PROVE  Nat \subseteq Good
<1> DEFINE Bad == Nat \ Good
<1> SUFFICES ASSUME Bad # {} PROVE FALSE
  OBVIOUS
<1> DEFINE Less == {p \in Nat \X Nat : p[1] < p[2]}
<1>1. IsWellFoundedOn(Less, Nat)
  BY NatLessThanWellFounded DEF OpToRel
<1>2. Bad \subseteq Nat
  OBVIOUS
<1>3. PICK n \in Bad : \A m \in Bad : <<m, n>> \notin Less
  <2> HIDE DEF Bad, Less
  <2> QED  BY <1>1, <1>2, WFMin
<1>4. n \in Nat /\ \A m \in 0 .. (n - 1) : m \in Nat /\ <<m, n>> \in Less
  BY <1>3
<1>5. \A m \in 0 .. (n - 1) : m \in Good
  BY <1>3, <1>4
<1> QED  BY <1>3, <1>4, <1>5

\* Of finitely many numbers one is largest.
LEMMA Largest ==
  ASSUME NEW S, IsFiniteSet(S), S # {}, NEW f, \A x \in S : f[x] \in Nat
  PROVE  \E x \in S : \A y \in S : f[y] <= f[x]
<1> DEFINE Good == {T \in SUBSET S : T = {} \/ \E x \in T : \A y \in T : f[y] <= f[x]}
<1>1. ASSUME NEW T \in SUBSET S, \A x \in T : T \ {x} \in Good
      PROVE  T \in Good
  <2>1. ASSUME NEW x \in T
        PROVE  T \in Good
    <3>1. T \ {x} = {} \/ \E z \in T \ {x} : \A y \in T \ {x} : f[y] <= f[z]
      BY <1>1
    <3>2. CASE T \ {x} = {}
      BY <3>2
    <3>3. ASSUME NEW z \in T \ {x}, \A y \in T \ {x} : f[y] <= f[z]
          PROVE  T \in Good
      <4>1. f[x] \in Nat /\ f[z] \in Nat /\ \A y \in T : f[y] \in Nat
        OBVIOUS
      <4>2. CASE f[x] <= f[z]
        BY <3>3, <4>2
      <4>3. CASE f[z] <= f[x]
        BY <3>3, <4>1, <4>3
      <4> QED  BY <4>1, <4>2, <4>3
    <3> QED  BY <3>1, <3>2, <3>3
  <2> QED  BY <2>1
<1>2. S \in Good
  <2> HIDE DEF Good
  <2> QED  BY <1>1, SetInduction
<1> QED  BY <1>2

\* Of some numbers one is smallest.
LEMMA Smallest ==
  ASSUME NEW S, S \subseteq Nat, S # {}
  PROVE  \E x \in S : \A y \in S : x <= y
<1> DEFINE Good == {n \in Nat : n \in S => \E x \in S : \A y \in S : x <= y}
<1>1. ASSUME NEW n \in Nat, \A m \in 0 .. (n - 1) : m \in Good
      PROVE  n \in Good
  <2>1. CASE \A y \in S : n <= y
    BY <2>1
  <2>2. ASSUME NEW y \in S, ~(n <= y)
        PROVE  n \in Good
    <3>1. y \in 0 .. (n - 1)
      BY <2>2
    <3> QED  BY <1>1, <3>1
  <2> QED  BY <2>1, <2>2
<1>2. Nat \subseteq Good
  <2> HIDE DEF Good
  <2> QED  BY <1>1, NumberInduction
<1> QED  BY <1>2

(***************************************************************************)
(* Sums.  What SumFunctionOnSet adds up one element after another is the   *)
(* number of units in f's columns, which does not depend on the order.     *)
(***************************************************************************)
\* A column of f[x] units for each x, and how many there are.
Units(f, S) == UNION {{x} \X (1..f[x]) : x \in S}
Count(f, S) == Cardinality(Units(f, S))

\* One step of the fold.
Peel(f, h, s) == IF s = {} THEN 0 ELSE LET x == CHOOSE x \in s : TRUE IN f[x] + h[s \ {x}]

\* What the fold of SumFunctionOnSet unfolds to, once some function does.
LEMMA SumUnfolds ==
  ASSUME NEW S, NEW f, NEW g, g = [s \in SUBSET S |-> Peel(f, g, s)]
  PROVE  \E h : h = [s \in SUBSET S |-> Peel(f, h, s)] /\ SumFunctionOnSet(f, S) = h[S]
<1> QED  BY DEF SumFunctionOnSet, FoldFunctionOnSet, MapThenFoldSet, Peel

\* The columns of a finite set are finite.
LEMMA UnitsFinite ==
  ASSUME NEW S, IsFiniteSet(S), NEW f, \A x \in S : f[x] \in Nat
  PROVE  \A s \in SUBSET S : IsFiniteSet(Units(f, s)) /\ Count(f, s) \in Nat
<1> SUFFICES ASSUME NEW s \in SUBSET S PROVE IsFiniteSet(Units(f, s))
  BY FS_CardinalityType DEF Count
<1> DEFINE pick == [x \in S |-> 1..f[x]]
<1>1. IsFiniteSet({pick[x] : x \in S})
  <2>1. pick \in Surjection(S, {pick[x] : x \in S})
    BY DEF Surjection
  <2> QED  BY <2>1, FS_Surjection
<1>2. \A T \in {pick[x] : x \in S} : IsFiniteSet(T)
  BY FS_Interval
<1>3. IsFiniteSet(UNION {pick[x] : x \in S})
  BY <1>1, <1>2, FS_UNION
<1>4. IsFiniteSet(S \X UNION {pick[x] : x \in S})
  BY <1>3, FS_Product
<1>5. Units(f, s) \subseteq S \X UNION {pick[x] : x \in S}
  BY DEF Units
<1> QED  BY <1>4, <1>5, FS_Subset

\* The columns of a set are one of them and the others.
LEMMA CountPeels ==
  ASSUME NEW S, IsFiniteSet(S), NEW f, \A x \in S : f[x] \in Nat, NEW s \in SUBSET S, NEW x \in s
  PROVE  Count(f, s) = f[x] + Count(f, s \ {x})
<1>1. /\ IsFiniteSet({x} \X (1..f[x])) /\ Cardinality({x} \X (1..f[x])) = f[x]
  <2>1. IsFiniteSet({x}) /\ Cardinality({x}) = 1
    BY FS_Singleton
  <2>2. f[x] \in Nat
    OBVIOUS
  <2>3. \A n \in Nat : IsFiniteSet(1..n) /\ Cardinality(1..n) = n
    <3> SUFFICES ASSUME NEW n \in Nat PROVE IsFiniteSet(1..n) /\ Cardinality(1..n) = n
      OBVIOUS
    <3>1. IsFiniteSet(1..n) /\ Cardinality(1..n) = IF 1 > n THEN 0 ELSE n - 1 + 1
      BY ONLY n \in Nat, FS_Interval
    <3> QED  BY <3>1
  <2>4. IsFiniteSet(1..f[x]) /\ Cardinality(1..f[x]) = f[x]
    BY <2>2, <2>3
  <2>5. /\ IsFiniteSet({x} \X (1..f[x]))
        /\ Cardinality({x} \X (1..f[x])) = Cardinality({x}) * Cardinality(1..f[x])
    BY ONLY <2>1, <2>4, FS_Product
  <2> QED  BY <2>1, <2>2, <2>4, <2>5
<1>2. Units(f, s) = ({x} \X (1..f[x])) \union Units(f, s \ {x})
  BY DEF Units
<1>3. ({x} \X (1..f[x])) \intersect Units(f, s \ {x}) = {}
  BY DEF Units
<1>4. IsFiniteSet(Units(f, s \ {x})) /\ Count(f, s \ {x}) \in Nat
  BY UnitsFinite
<1> DEFINE A == {x} \X (1..f[x])
           B == Units(f, s \ {x})
<1>5. Cardinality(A \union B) = Cardinality(A) + Cardinality(B) - Cardinality(A \intersect B)
  <2> HIDE DEF A, B
  <2>1. IsFiniteSet(A) /\ IsFiniteSet(B)
    BY <1>1, <1>4 DEF A, B
  <2> QED  BY <2>1, FS_Union
<1>6. Cardinality(A \intersect B) = 0
  BY <1>3, FS_EmptySet
<1>7. f[x] \in Nat
  OBVIOUS
<1> HIDE DEF A, B
<1>8. Cardinality(A) = f[x] /\ Cardinality(B) \in Nat /\ Units(f, s) = A \union B /\ Cardinality(B) = Count(f, s \ {x})
  BY <1>1, <1>2, <1>4 DEF A, B, Count
<1>9. Cardinality(A \union B) = f[x] + Count(f, s \ {x})
  BY <1>5, <1>6, <1>7, <1>8
<1> QED  BY <1>8, <1>9 DEF Count

\* The sum is the number of units.
LEMMA SumIsCount ==
  ASSUME NEW S, IsFiniteSet(S), NEW f, \A x \in S : f[x] \in Nat
  PROVE  SumFunctionOnSet(f, S) = Count(f, S)
<1> DEFINE g == [s \in SUBSET S |-> Count(f, s)]
<1>0. Count(f, {}) = 0
  BY FS_EmptySet DEF Count, Units
<1>1. \A s \in SUBSET S : s # {} => (CHOOSE x \in s : TRUE) \in s
  OBVIOUS
<1>2. \A s \in SUBSET S : g[s] = Peel(f, g, s)
  <2> SUFFICES ASSUME NEW s \in SUBSET S, s # {} PROVE g[s] = Peel(f, g, s)
    BY <1>0 DEF Peel
  <2> DEFINE x == CHOOSE x \in s : TRUE
  <2>1. x \in s
    OBVIOUS
  <2> HIDE DEF x
  <2>2. Count(f, s) = f[x] + Count(f, s \ {x})
    BY <2>1, CountPeels
  <2> QED  BY <2>2 DEF Peel, x
<1>3. g = [s \in SUBSET S |-> Peel(f, g, s)]
  BY <1>2
<1> HIDE DEF g
<1>4. PICK h : h = [s \in SUBSET S |-> Peel(f, h, s)] /\ SumFunctionOnSet(f, S) = h[S]
  BY <1>3, SumUnfolds
<1> DEFINE Good == {s \in SUBSET S : h[s] = Count(f, s)}
<1>5. ASSUME NEW s \in SUBSET S, \A x \in s : s \ {x} \in Good
      PROVE  s \in Good
  <2>1. CASE s = {}
    BY <1>0, <1>4, <2>1 DEF Peel
  <2>2. CASE s # {}
    <3> DEFINE x == CHOOSE x \in s : TRUE
    <3>1. x \in s /\ h[s] = f[x] + h[s \ {x}]
      BY <1>4, <2>2 DEF Peel
    <3> HIDE DEF x
    <3>2. h[s \ {x}] = Count(f, s \ {x})
      BY <1>5, <3>1
    <3>3. Count(f, s) = f[x] + Count(f, s \ {x})
      BY <3>1, CountPeels
    <3> QED  BY <3>1, <3>2, <3>3
  <2> QED  BY <2>1, <2>2
<1>6. S \in Good
  <2> HIDE DEF Good
  <2> QED  BY <1>5, SetInduction
<1> QED  BY <1>4, <1>6

\* The sum of a set is one of its numbers and the sum of the others.
LEMMA SumPeels ==
  ASSUME NEW S, IsFiniteSet(S), NEW f, \A x \in S : f[x] \in Nat, NEW x \in S
  PROVE  /\ SumFunctionOnSet(f, S) \in Nat /\ SumFunctionOnSet(f, S \ {x}) \in Nat
         /\ SumFunctionOnSet(f, S) = f[x] + SumFunctionOnSet(f, S \ {x})
<1>1. IsFiniteSet(S \ {x})
  BY FS_RemoveElement
<1>2. SumFunctionOnSet(f, S \ {x}) = Count(f, S \ {x})
  BY <1>1, SumIsCount
<1>3. SumFunctionOnSet(f, S) = Count(f, S)
  BY SumIsCount
<1>4. Count(f, S) \in Nat /\ Count(f, S \ {x}) \in Nat
  BY UnitsFinite
<1>5. Count(f, S) = f[x] + Count(f, S \ {x})
  BY CountPeels
<1> QED  BY <1>2, <1>3, <1>4, <1>5

\* No numbers, no sum.
LEMMA SumOfNone == \A f : SumFunctionOnSet(f, {}) = 0
<1> TAKE f
<1>1. IsFiniteSet({}) /\ Units(f, {}) = {}
  BY FS_EmptySet DEF Units
<1>2. SumFunctionOnSet(f, {}) = Count(f, {})
  BY <1>1, SumIsCount
<1> QED  BY <1>1, <1>2, FS_EmptySet DEF Count

LEMMA SumIsNat ==
  ASSUME NEW S, IsFiniteSet(S), NEW f, \A x \in S : f[x] \in Nat
  PROVE  SumFunctionOnSet(f, S) \in Nat
BY SumIsCount, UnitsFinite

\* The sum of part of the numbers is no larger.
LEMMA SumOfPart ==
  ASSUME NEW S, IsFiniteSet(S), NEW f, \A x \in S : f[x] \in Nat, NEW T \in SUBSET S
  PROVE  SumFunctionOnSet(f, T) <= SumFunctionOnSet(f, S)
<1>1. IsFiniteSet(T)
  BY FS_Subset
<1>2. SumFunctionOnSet(f, T) = Count(f, T) /\ SumFunctionOnSet(f, S) = Count(f, S)
  BY <1>1, SumIsCount
<1>3. IsFiniteSet(Units(f, S))
  BY UnitsFinite
<1>4. Units(f, T) \subseteq Units(f, S)
  BY DEF Units
<1>5. Cardinality(Units(f, T)) <= Cardinality(Units(f, S))
  BY <1>3, <1>4, FS_Subset
<1> QED  BY <1>2, <1>5 DEF Count

\* The sum depends on the numbers of the set only.
LEMMA SumAgrees ==
  ASSUME NEW S, IsFiniteSet(S), NEW f, NEW g, \A x \in S : f[x] \in Nat /\ g[x] = f[x]
  PROVE  SumFunctionOnSet(g, S) = SumFunctionOnSet(f, S)
<1>1. Units(g, S) = Units(f, S)
  <2>1. \A x \in S : {x} \X (1..g[x]) = {x} \X (1..f[x])
    OBVIOUS
  <2> DEFINE F(x) == {x} \X (1..f[x])
             G(x) == {x} \X (1..g[x])
  <2>2. \A x \in S : G(x) = F(x)
    BY <2>1
  <2> HIDE DEF F, G
  <2>3. {G(x) : x \in S} = {F(x) : x \in S}
    BY <2>2
  <2> QED  BY <2>3 DEF Units, F, G
<1>2. SumFunctionOnSet(f, S) = Count(f, S)
  BY SumIsCount
<1>3. SumFunctionOnSet(g, S) = Count(g, S)
  BY SumIsCount
<1> QED  BY <1>1, <1>2, <1>3 DEF Count

\* Adding up what two functions add up to.
LEMMA SumAdds ==
  ASSUME NEW S, IsFiniteSet(S), NEW f, NEW g, NEW h,
         \A x \in S : f[x] \in Nat /\ g[x] \in Nat /\ h[x] = f[x] + g[x]
  PROVE  SumFunctionOnSet(h, S) = SumFunctionOnSet(f, S) + SumFunctionOnSet(g, S)
<1> DEFINE Good == {T \in SUBSET S : SumFunctionOnSet(h, T) = SumFunctionOnSet(f, T) + SumFunctionOnSet(g, T)}
<1>1. ASSUME NEW T \in SUBSET S, \A x \in T : T \ {x} \in Good
      PROVE  T \in Good
  <2>1. CASE T = {}
    BY <2>1, SumOfNone
  <2>2. ASSUME NEW x \in T
        PROVE  T \in Good
    <3>1. IsFiniteSet(T) /\ \A y \in T : f[y] \in Nat /\ g[y] \in Nat /\ h[y] \in Nat
      BY FS_Subset
    <3>2. /\ SumFunctionOnSet(f, T) = f[x] + SumFunctionOnSet(f, T \ {x})
          /\ SumFunctionOnSet(g, T) = g[x] + SumFunctionOnSet(g, T \ {x})
          /\ SumFunctionOnSet(h, T) = h[x] + SumFunctionOnSet(h, T \ {x})
          /\ {SumFunctionOnSet(f, T \ {x}), SumFunctionOnSet(g, T \ {x})} \subseteq Nat
      BY <3>1, SumPeels
    <3>3. SumFunctionOnSet(h, T \ {x}) = SumFunctionOnSet(f, T \ {x}) + SumFunctionOnSet(g, T \ {x})
      BY <1>1, <2>2
    <3>4. f[x] \in Nat /\ g[x] \in Nat /\ h[x] = f[x] + g[x]
      BY <2>2
    <3> QED  BY <3>2, <3>3, <3>4
  <2> QED  BY <2>1, <2>2
<1>2. S \in Good
  <2> HIDE DEF Good
  <2> QED  BY <1>1, SetInduction
<1> QED  BY <1>2

\* Numbers that are zero add nothing.
LEMMA SumDropsZeros ==
  ASSUME NEW S, IsFiniteSet(S), NEW f, \A x \in S : f[x] \in Nat,
         NEW T \in SUBSET S, \A x \in S \ T : f[x] = 0
  PROVE  SumFunctionOnSet(f, S) = SumFunctionOnSet(f, T)
<1>1. IsFiniteSet(T)
  BY FS_Subset
<1>2. SumFunctionOnSet(f, T) = Count(f, T) /\ SumFunctionOnSet(f, S) = Count(f, S)
  BY <1>1, SumIsCount
<1>3. Units(f, S) = Units(f, T)
  BY DEF Units
<1> QED  BY <1>2, <1>3 DEF Count

\* The sum does not depend on what the numbers are filed under.
LEMMA SumRenamed ==
  ASSUME NEW S, IsFiniteSet(S), NEW f, NEW g, NEW b,
         \A x \in S : f[x] \in Nat /\ g[b[x]] = f[x],
         \A x, y \in S : b[x] = b[y] => x = y
  PROVE  SumFunctionOnSet(g, {b[x] : x \in S}) = SumFunctionOnSet(f, S)
<1> DEFINE Image(T) == {b[x] : x \in T}
           Good == {T \in SUBSET S : IsFiniteSet(Image(T)) /\ SumFunctionOnSet(g, Image(T)) = SumFunctionOnSet(f, T)}
<1>1. ASSUME NEW T \in SUBSET S, \A x \in T : T \ {x} \in Good
      PROVE  T \in Good
  <2>1. CASE T = {}
    <3>1. Image(T) = {}
      BY <2>1
    <3> QED  BY <2>1, <3>1, SumOfNone, FS_EmptySet
  <2>2. ASSUME NEW x \in T
        PROVE  T \in Good
    <3>1. IsFiniteSet(T) /\ \A y \in T : f[y] \in Nat
      BY FS_Subset
    <3>2. Image(T \ {x}) = Image(T) \ {b[x]} /\ b[x] \in Image(T)
      OBVIOUS
    <3>3. IsFiniteSet(Image(T \ {x})) /\ SumFunctionOnSet(g, Image(T \ {x})) = SumFunctionOnSet(f, T \ {x})
      BY <1>1, <2>2
    <3>4. \A u \in Image(T) : g[u] \in Nat
      OBVIOUS
    <3> HIDE DEF Image
    <3>5. IsFiniteSet(Image(T))
      <4>1. (Image(T) \ {b[x]}) \union {b[x]} = Image(T)
        BY <3>2
      <4> QED  BY <3>2, <3>3, <4>1, FS_AddElement
    <3>6. SumFunctionOnSet(g, Image(T)) = g[b[x]] + SumFunctionOnSet(g, Image(T) \ {b[x]})
      BY <3>2, <3>4, <3>5, SumPeels
    <3>7. SumFunctionOnSet(f, T) = f[x] + SumFunctionOnSet(f, T \ {x})
      BY <3>1, SumPeels
    <3>8. g[b[x]] = f[x]
      OBVIOUS
    <3>9. SumFunctionOnSet(g, Image(T)) = SumFunctionOnSet(f, T)
      BY <3>2, <3>3, <3>6, <3>7, <3>8
    <3> QED  BY <3>5, <3>9
  <2> QED  BY <2>1, <2>2
<1>2. S \in Good
  <2> HIDE DEF Good
  <2> QED  BY <1>1, SetInduction
<1> QED  BY <1>2

\* The sum changes by what one of its numbers does.
LEMMA SumOfChange ==
  ASSUME NEW S, IsFiniteSet(S), NEW f, NEW g, \A y \in S : f[y] \in Nat /\ g[y] \in Nat,
         NEW x \in S, \A y \in S \ {x} : g[y] = f[y]
  PROVE  /\ SumFunctionOnSet(f, S) \in Nat /\ SumFunctionOnSet(g, S) \in Nat
         /\ SumFunctionOnSet(g, S) + f[x] = SumFunctionOnSet(f, S) + g[x]
<1>1. IsFiniteSet(S \ {x})
  BY FS_RemoveElement
<1>2. SumFunctionOnSet(g, S \ {x}) = SumFunctionOnSet(f, S \ {x})
  BY <1>1, SumAgrees
<1>3. /\ SumFunctionOnSet(f, S) = f[x] + SumFunctionOnSet(f, S \ {x})
      /\ SumFunctionOnSet(g, S) = g[x] + SumFunctionOnSet(g, S \ {x})
      /\ SumFunctionOnSet(f, S \ {x}) \in Nat /\ f[x] \in Nat /\ g[x] \in Nat
      /\ SumFunctionOnSet(f, S) \in Nat /\ SumFunctionOnSet(g, S) \in Nat
  BY SumPeels
<1> QED  BY <1>2, <1>3

\* Numbers no larger add up to no more.
LEMMA SumOrdered ==
  ASSUME NEW S, IsFiniteSet(S), NEW f, NEW g,
         \A x \in S : f[x] \in Nat /\ g[x] \in Nat /\ f[x] <= g[x]
  PROVE  /\ SumFunctionOnSet(f, S) \in Nat /\ SumFunctionOnSet(g, S) \in Nat
         /\ SumFunctionOnSet(f, S) <= SumFunctionOnSet(g, S)
<1> DEFINE rest == [x \in S |-> g[x] - f[x]]
<1>1. \A x \in S : rest[x] \in Nat /\ g[x] = f[x] + rest[x]
  OBVIOUS
<1> HIDE DEF rest
<1>2. SumFunctionOnSet(g, S) = SumFunctionOnSet(f, S) + SumFunctionOnSet(rest, S)
  BY <1>1, SumAdds
<1>3. SumFunctionOnSet(f, S) \in Nat /\ SumFunctionOnSet(rest, S) \in Nat
  BY <1>1, SumIsNat
<1> QED  BY <1>2, <1>3

\* Multiples add up to the multiple.
LEMMA SumScaled ==
  ASSUME NEW S, IsFiniteSet(S), NEW f, NEW g, NEW k \in Nat,
         \A x \in S : f[x] \in Nat /\ g[x] = k * f[x]
  PROVE  SumFunctionOnSet(g, S) = k * SumFunctionOnSet(f, S)
<1> DEFINE Good == {T \in SUBSET S : SumFunctionOnSet(g, T) = k * SumFunctionOnSet(f, T)}
<1>1. ASSUME NEW T \in SUBSET S, \A x \in T : T \ {x} \in Good
      PROVE  T \in Good
  <2>1. CASE T = {}
    BY <2>1, SumOfNone
  <2>2. ASSUME NEW x \in T
        PROVE  T \in Good
    <3>1. IsFiniteSet(T) /\ \A y \in T : f[y] \in Nat /\ g[y] \in Nat
      BY FS_Subset
    <3>2. /\ SumFunctionOnSet(f, T) = f[x] + SumFunctionOnSet(f, T \ {x})
          /\ SumFunctionOnSet(g, T) = g[x] + SumFunctionOnSet(g, T \ {x})
          /\ SumFunctionOnSet(f, T \ {x}) \in Nat
      BY <3>1, SumPeels
    <3>3. SumFunctionOnSet(g, T \ {x}) = k * SumFunctionOnSet(f, T \ {x})
      BY <1>1, <2>2
    <3>4. f[x] \in Nat /\ g[x] = k * f[x]
      BY <2>2
    <3>5. \A a, b \in Nat : k * a + k * b = k * (a + b)
      OBVIOUS
    <3>6. SumFunctionOnSet(g, T) = k * (f[x] + SumFunctionOnSet(f, T \ {x}))
      BY <3>2, <3>3, <3>4, <3>5
    <3> QED  BY <3>2, <3>6
  <2> QED  BY <2>1, <2>2
<1>2. S \in Good
  <2> HIDE DEF Good
  <2> QED  BY <1>1, SetInduction
<1> QED  BY <1>2

\* Equal numbers add up to a multiple of how many they are.
LEMMA SumOfEqual ==
  ASSUME NEW S, IsFiniteSet(S), NEW f, NEW c \in Nat, \A x \in S : f[x] = c
  PROVE  SumFunctionOnSet(f, S) = c * Cardinality(S) /\ Cardinality(S) \in Nat
<1> DEFINE Good == {T \in SUBSET S : SumFunctionOnSet(f, T) = c * Cardinality(T)}
<1>1. ASSUME NEW T \in SUBSET S, \A x \in T : T \ {x} \in Good
      PROVE  T \in Good
  <2>1. CASE T = {}
    BY <2>1, SumOfNone, FS_EmptySet
  <2>2. ASSUME NEW x \in T
        PROVE  T \in Good
    <3>1. IsFiniteSet(T) /\ \A y \in T : f[y] \in Nat
      BY FS_Subset
    <3>2. SumFunctionOnSet(f, T) = c + SumFunctionOnSet(f, T \ {x})
      BY <3>1, SumPeels
    <3>3. Cardinality(T \ {x}) = Cardinality(T) - 1 /\ Cardinality(T) \in Nat
      BY <2>2, <3>1, FS_RemoveElement, FS_CardinalityType
    <3>4. SumFunctionOnSet(f, T \ {x}) = c * (Cardinality(T) - 1)
      BY <1>1, <2>2, <3>3
    <3>5. \A n \in Nat : c + c * (n - 1) = c * n
      OBVIOUS
    <3> QED  BY <3>2, <3>3, <3>4, <3>5
  <2> QED  BY <2>1, <2>2
<1>2. S \in Good
  <2> HIDE DEF Good
  <2> QED  BY <1>1, SetInduction
<1> QED  BY <1>2, FS_CardinalityType

(***************************************************************************)
(* Weeks.                                                                  *)
(***************************************************************************)
\* weekStartOf finds the Monday of the week an instant is in.
LEMMA WeekFound ==
  ASSUME RegularWeeks, NEW t \in Int, Covered(t)
  PROVE  /\ WeekStartOf(t) \in Mondays
         /\ WeekStartOf(t) <= t /\ t < WeekStartOf(t) + WeekLength
<1>1. PICK m \in Mondays : m <= t /\ t < m + WeekLength
  BY DEF Covered
<1>2. \A n \in Mondays : n <= t => n <= m
  BY <1>1, WeekIsPositive DEF RegularWeeks
<1>3. \A n \in Mondays : n <= t /\ (\A k \in Mondays : k <= t => k <= n) => n = m
  BY <1>1, <1>2, WeekIsPositive
<1> QED  BY <1>1, <1>2, <1>3 DEF WeekStartOf

\* Every instant of a week has the same week start.
LEMMA SameWeek ==
  ASSUME RegularWeeks, NEW m \in Mondays, NEW t \in Int, m <= t, t < m + WeekLength
  PROVE  WeekStartOf(t) = m
<1>1. \A n \in Mondays : n <= t => n <= m
  BY WeekIsPositive DEF RegularWeeks
<1>2. \A n \in Mondays : n <= t /\ (\A k \in Mondays : k <= t => k <= n) => n = m
  BY <1>1, WeekIsPositive
<1> QED  BY <1>1, <1>2 DEF WeekStartOf

\* One pass counts a stretch of one week and leaves the cursor at its end.
LEMMA SliceIsOneWeek ==
  ASSUME RegularWeeks, NEW c \in Int, NEW end \in Int, c < end, Covered(c)
  PROVE  /\ SliceEnd(c, end) \in Int
         /\ c < SliceEnd(c, end) /\ SliceEnd(c, end) <= end
         /\ \A t \in c .. (SliceEnd(c, end) - 1) : WeekStartOf(t) = WeekStartOf(c)
<1>1. WeekStartOf(c) \in Mondays /\ WeekStartOf(c) <= c /\ c < WeekStartOf(c) + WeekLength
  BY WeekFound
<1>2. WeekStartOf(c) \in Int /\ WeekLength \in Int
  <2>1. Mondays \subseteq Int /\ WeekLength \in Int
    BY WeekIsPositive
  <2> QED  BY ONLY <1>1, <2>1
<1>3. SliceEnd(c, end) \in Int /\ c < SliceEnd(c, end) /\ SliceEnd(c, end) <= end
  BY <1>1, <1>2 DEF SliceEnd
<1>4. SliceEnd(c, end) <= WeekStartOf(c) + WeekLength
  BY <1>1, <1>2 DEF SliceEnd
<1>5. ASSUME NEW t \in c .. (SliceEnd(c, end) - 1)
      PROVE  WeekStartOf(t) = WeekStartOf(c)
  <2>1. t \in Int /\ WeekStartOf(c) <= t /\ t < WeekStartOf(c) + WeekLength
    BY <1>1, <1>2, <1>3, <1>4
  <2> QED  BY <1>1, <2>1, SameWeek
<1> QED  BY <1>3, <1>5
=============================================================================
