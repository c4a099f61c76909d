------------------------------ MODULE FiniteSums ------------------------------
(***************************************************************************)
(* What the sums of the models obey: MapThenSumSet over a finite set.      *)
(* Induction is over a SET of subsets, so that a proof can cite it; a sum  *)
(* is of a function, and SumOver is the unique function of the subsets     *)
(* that adds the values of one chosen element after the other.             *)
(***************************************************************************)
EXTENDS FiniteSetsExt, FiniteSetTheorems, WellFoundedInduction, TLAPS

\* What holds of the empty set and is kept by adding an element holds of a finite set.
LEMMA SubsetInduction ==
    ASSUME NEW S, IsFiniteSet(S), NEW P, {} \in P,
           \A T \in SUBSET S : \A x \in S \ T : T \in P => T \union {x} \in P
    PROVE  S \in P
<1> DEFINE Bad == {T \in SUBSET S : T \notin P}
<1> SUFFICES ASSUME Bad # {} PROVE FALSE
  OBVIOUS
<1>1. Bad \subseteq FiniteSubsetsOf(S)
  BY FS_FiniteSubsetsOfFinite
<1>2. PICK T \in Bad : \A U \in Bad : ~(<<U, T>> \in StrictSubsetOrdering(S))
  BY <1>1, FS_StrictSubsetOrderingWellFounded, WFMin
<1>3. PICK x \in T : TRUE
  BY <1>2
<1>4. T \ {x} \in SUBSET S /\ x \in S \ (T \ {x}) /\ (T \ {x}) \union {x} = T
  BY <1>2, <1>3
<1>5. <<T \ {x}, T>> \in StrictSubsetOrdering(S)
  BY <1>2, <1>3, <1>4 DEF StrictSubsetOrdering
<1>6. T \ {x} \in P
  BY <1>2, <1>4, <1>5
<1> QED BY <1>2, <1>4, <1>6

\* What holds of 0 and is kept by counting one further holds of every natural number.
LEMMA CountingInduction ==
    ASSUME NEW P, 0 \in P, \A n \in Nat : n \in P => n + 1 \in P
    PROVE  Nat \subseteq P
<1> DEFINE Bad == Nat \ P
<1> SUFFICES ASSUME Bad # {} PROVE FALSE
  OBVIOUS
<1>1. PICK n \in Bad : \A m \in Bad : ~(<<m, n>> \in OpToRel(<, Nat))
  BY NatLessThanWellFounded, WFMin
<1>2. \A m \in Bad : ~(m < n)
  BY <1>1 DEF OpToRel
<1>3. n \in Nat /\ n \notin P
  BY <1>1
<1>4. n # 0
  BY <1>3
<1>5. PICK m \in Nat : n = m + 1 /\ m < n
  <2>1. n - 1 \in Nat /\ n = (n - 1) + 1 /\ n - 1 < n
    BY <1>3, <1>4
  <2> QED BY <2>1
<1>6. m \in P
  BY <1>2, <1>5
<1>7. m + 1 \in P
  BY <1>6
<1> QED BY <1>3, <1>5, <1>7

-----------------------------------------------------------------------------
(* The sum of f over S                                                     *)

\* the element that the community modules' fold takes next
Some(s) == CHOOSE x \in s : TRUE

Adds(g, f, S) == g = [s \in SUBSET S |-> IF s = {} THEN 0 ELSE f[Some(s)] + g[s \ {Some(s)}]]

SumOver(f, S) == (CHOOSE g : Adds(g, f, S))[S]

LEMMA SomeIsIn == ASSUME NEW s, s # {} PROVE Some(s) \in s
BY DEF Some

LEMMA SmallerByOne ==
    ASSUME NEW S, IsFiniteSet(S), NEW s \in SUBSET S, s # {}, NEW n \in Nat, Cardinality(s) <= n + 1
    PROVE  s \ {Some(s)} \in SUBSET S /\ Cardinality(s \ {Some(s)}) <= n
<1>1. IsFiniteSet(s) /\ Some(s) \in s
  BY SomeIsIn, FS_Subset
<1>2. Cardinality(s \ {Some(s)}) = Cardinality(s) - 1 /\ Cardinality(s) \in Nat
  BY <1>1, FS_RemoveElement, FS_CardinalityType
<1> QED BY <1>2

\* There is such a function: one that adds right for all sets of n elements is one step away from one
\* that adds right for those of n + 1.
LEMMA SumExists ==
    ASSUME NEW S, IsFiniteSet(S), NEW f
    PROVE  \E g : Adds(g, f, S)
<1> DEFINE Next(g) == [s \in SUBSET S |-> IF s = {} THEN 0 ELSE f[Some(s)] + g[s \ {Some(s)}]]
           RightTo(g, n) == \A s \in SUBSET S : Cardinality(s) <= n => g[s] = Next(g)[s]
           P == {n \in Nat : \E h : RightTo(Next(h), n)}
<1>1. 0 \in P
  <2>1. \A s \in SUBSET S : Cardinality(s) <= 0 => s = {}
    BY FS_Subset, FS_EmptySet, FS_CardinalityType
  <2>2. RightTo(Next(f), 0)
    BY <2>1
  <2> QED BY <2>2
<1>2. ASSUME NEW n \in Nat, n \in P PROVE n + 1 \in P
  <2>1. PICK h : RightTo(Next(h), n)
    BY <1>2
  <2> DEFINE g == Next(h)
  <2>2. ASSUME NEW s \in SUBSET S, Cardinality(s) <= n + 1 PROVE Next(g)[s] = Next(Next(g))[s]
    <3>1. CASE s = {}
      BY <3>1
    <3>2. CASE s # {}
      <4>1. s \ {Some(s)} \in SUBSET S /\ Cardinality(s \ {Some(s)}) <= n
        BY <2>2, <3>2, SmallerByOne
      <4>2. g[s \ {Some(s)}] = Next(g)[s \ {Some(s)}]
        BY <2>1, <4>1
      <4> QED BY <3>2, <4>2
    <3> QED BY <3>1, <3>2
  <2>3. RightTo(Next(g), n + 1)
    BY <2>2
  <2>4. \E f1 : RightTo(Next(f1), n + 1)
    <3> HIDE DEF RightTo, Next
    <3> WITNESS g
    <3> QED BY <2>3
  <2>5. n + 1 \in Nat
    OBVIOUS
  <2> HIDE DEF RightTo, Next, g
  <2> QED BY <2>4, <2>5
<1> HIDE DEF P
<1>3. Nat \subseteq P
  BY <1>1, <1>2, CountingInduction
<1>4. Cardinality(S) \in P
  BY <1>3, FS_CardinalityType
<1>5. PICK h : RightTo(Next(h), Cardinality(S))
  BY <1>4 DEF P
<1>6. \A s \in SUBSET S : Next(h)[s] = Next(Next(h))[s]
  BY <1>5, FS_Subset
<1>7. Next(h) = Next(Next(h))
  BY <1>6
<1> QED BY <1>7 DEF Adds

\* And but one, whatever larger set it is given on.
LEMMA SumUnique ==
    ASSUME NEW S, IsFiniteSet(S), NEW T \in SUBSET S, NEW f, NEW e, \A x \in T : e[x] = f[x],
           NEW g, Adds(g, f, S), NEW k, Adds(k, e, T)
    PROVE  \A s \in SUBSET T : k[s] = g[s]
<1> DEFINE P == {n \in Nat : \A s \in SUBSET T : Cardinality(s) <= n => k[s] = g[s]}
<1>0. IsFiniteSet(T)
  BY FS_Subset
<1>1. 0 \in P
  <2>1. \A s \in SUBSET T : Cardinality(s) <= 0 => s = {}
    BY <1>0, FS_Subset, FS_EmptySet, FS_CardinalityType
  <2>2. k[{}] = 0 /\ g[{}] = 0
    BY DEF Adds
  <2> QED BY <2>1, <2>2
<1>2. ASSUME NEW n \in Nat, n \in P PROVE n + 1 \in P
  <2>1. ASSUME NEW s \in SUBSET T, Cardinality(s) <= n + 1 PROVE k[s] = g[s]
    <3>1. CASE s = {}
      BY <3>1 DEF Adds
    <3>2. CASE s # {}
      <4>1. s \ {Some(s)} \in SUBSET T /\ Cardinality(s \ {Some(s)}) <= n
        BY <1>0, <2>1, <3>2, SmallerByOne
      <4>2. k[s \ {Some(s)}] = g[s \ {Some(s)}]
        BY <1>2, <4>1
      <4>3. e[Some(s)] = f[Some(s)]
        BY <3>2, SomeIsIn
      <4>4. k[s] = e[Some(s)] + k[s \ {Some(s)}] /\ g[s] = f[Some(s)] + g[s \ {Some(s)}]
        BY <3>2 DEF Adds
      <4> QED BY <4>2, <4>3, <4>4
    <3> QED BY <3>1, <3>2
  <2> QED BY <2>1
<1> HIDE DEF P
<1>3. Nat \subseteq P
  BY <1>1, <1>2, CountingInduction
<1>4. Cardinality(T) \in P
  BY <1>0, <1>3, FS_CardinalityType
<1> QED BY <1>0, <1>4, FS_Subset DEF P

LEMMA SumAdds ==
    ASSUME NEW S, IsFiniteSet(S), NEW f
    PROVE  Adds(CHOOSE g : Adds(g, f, S), f, S)
BY SumExists

LEMMA SumOfNothing == ASSUME NEW f PROVE SumOver(f, {}) = 0
<1>1. Adds(CHOOSE g : Adds(g, f, {}), f, {})
  BY SumAdds, FS_EmptySet
<1> QED BY <1>1 DEF Adds, SumOver

\* Only the values on the set count.
LEMMA SumSame ==
    ASSUME NEW S, IsFiniteSet(S), NEW f, NEW e, \A x \in S : e[x] = f[x]
    PROVE  SumOver(e, S) = SumOver(f, S)
<1>1. Adds(CHOOSE g : Adds(g, f, S), f, S) /\ Adds(CHOOSE g : Adds(g, e, S), e, S)
  BY SumAdds
<1> QED BY <1>1, SumUnique DEF SumOver

LEMMA SumNextOne ==
    ASSUME NEW S, IsFiniteSet(S), NEW f, S # {}
    PROVE  SumOver(f, S) = f[Some(S)] + SumOver(f, S \ {Some(S)})
<1> DEFINE T == S \ {Some(S)}
           g == CHOOSE h : Adds(h, f, S)
           k == CHOOSE h : Adds(h, f, T)
<1>1. IsFiniteSet(T) /\ T \in SUBSET S
  BY FS_Subset
<1>2. Adds(g, f, S) /\ Adds(k, f, T)
  BY <1>1, SumAdds
<1>3. k[T] = g[T]
  BY <1>1, <1>2, SumUnique
<1>4. g[S] = f[Some(S)] + g[T]
  BY <1>2 DEF Adds
<1> QED BY <1>3, <1>4 DEF SumOver

LEMMA SumIsInt ==
    ASSUME NEW S, IsFiniteSet(S), NEW f, \A x \in S : f[x] \in Int
    PROVE  SumOver(f, S) \in Int
<1> DEFINE P == {n \in Nat : \A T \in SUBSET S : Cardinality(T) <= n => SumOver(f, T) \in Int}
<1>1. 0 \in P
  <2>1. \A T \in SUBSET S : Cardinality(T) <= 0 => T = {}
    BY FS_Subset, FS_EmptySet, FS_CardinalityType
  <2> QED BY <2>1, SumOfNothing
<1>2. ASSUME NEW n \in Nat, n \in P PROVE n + 1 \in P
  <2>1. ASSUME NEW T \in SUBSET S, Cardinality(T) <= n + 1 PROVE SumOver(f, T) \in Int
    <3>1. CASE T = {}
      BY <3>1, SumOfNothing
    <3>2. CASE T # {}
      <4>1. T \ {Some(T)} \in SUBSET S /\ Cardinality(T \ {Some(T)}) <= n
        BY <2>1, <3>2, SmallerByOne
      <4>2. SumOver(f, T \ {Some(T)}) \in Int /\ f[Some(T)] \in Int
        BY <1>2, <3>2, <4>1, SomeIsIn
      <4>3. IsFiniteSet(T)
        BY FS_Subset
      <4>4. SumOver(f, T) = f[Some(T)] + SumOver(f, T \ {Some(T)})
        BY <3>2, <4>3, SumNextOne
      <4> QED BY <4>2, <4>4
    <3> QED BY <3>1, <3>2
  <2> QED BY <2>1
<1> HIDE DEF P
<1>3. Nat \subseteq P
  BY <1>1, <1>2, CountingInduction
<1>4. Cardinality(S) \in P
  BY <1>3, FS_CardinalityType
<1> QED BY <1>4, FS_CardinalityType DEF P

\* Any element may be taken first.
LEMMA SumWithout ==
    ASSUME NEW S, IsFiniteSet(S), NEW f, \A x \in S : f[x] \in Int, NEW x \in S
    PROVE  SumOver(f, S) = f[x] + SumOver(f, S \ {x})
<1> DEFINE P == {n \in Nat : \A T \in SUBSET S : Cardinality(T) <= n =>
                                \A y \in T : SumOver(f, T) = f[y] + SumOver(f, T \ {y})}
<1>0. \A T \in SUBSET S : IsFiniteSet(T) /\ SumOver(f, T) \in Int
  <2> TAKE T \in SUBSET S
  <2>1. IsFiniteSet(T)
    BY FS_Subset
  <2> QED BY <2>1, SumIsInt
<1>1. 0 \in P
  <2>1. \A T \in SUBSET S : Cardinality(T) <= 0 => T = {}
    BY FS_Subset, FS_EmptySet, FS_CardinalityType
  <2> QED BY <2>1
<1>2. ASSUME NEW n \in Nat, n \in P PROVE n + 1 \in P
  <2>1. ASSUME NEW T \in SUBSET S, Cardinality(T) <= n + 1, NEW y \in T
        PROVE  SumOver(f, T) = f[y] + SumOver(f, T \ {y})
    <3> DEFINE c == Some(T)
    <3>1. c \in T /\ SumOver(f, T) = f[c] + SumOver(f, T \ {c})
      BY <1>0, SomeIsIn, SumNextOne
    <3>2. CASE y = c
      BY <3>1, <3>2
    <3>3. CASE y # c
      <4>1. /\ Cardinality(T) \in Nat /\ Cardinality(T \ {c}) = Cardinality(T) - 1
            /\ Cardinality(T \ {y}) = Cardinality(T) - 1
        BY <1>0, <3>1, FS_RemoveElement, FS_CardinalityType
      <4>2. Cardinality(T \ {c}) <= n /\ Cardinality(T \ {y}) <= n
        BY <2>1, <4>1
      <4>3. y \in T \ {c} /\ c \in T \ {y} /\ (T \ {c}) \ {y} = (T \ {y}) \ {c}
        BY <3>1, <3>3
      <4>4. /\ SumOver(f, T \ {c}) = f[y] + SumOver(f, (T \ {y}) \ {c})
            /\ SumOver(f, T \ {y}) = f[c] + SumOver(f, (T \ {y}) \ {c})
        BY <1>2, <4>2, <4>3
      <4>5. f[c] \in Int /\ f[y] \in Int /\ SumOver(f, (T \ {y}) \ {c}) \in Int
        BY <1>0, <3>1
      <4> HIDE DEF c
      <4> QED BY <3>1, <4>4, <4>5
    <3> QED BY <3>2, <3>3
  <2> QED BY <2>1
<1> HIDE DEF P
<1>3. Nat \subseteq P
  BY <1>1, <1>2, CountingInduction
<1>4. Cardinality(S) \in P
  BY <1>3, FS_CardinalityType
<1> QED BY <1>4, FS_CardinalityType DEF P

LEMMA SumWith ==
    ASSUME NEW S, IsFiniteSet(S), NEW f, NEW x, x \notin S, \A y \in S \union {x} : f[y] \in Int
    PROVE  SumOver(f, S \union {x}) = f[x] + SumOver(f, S)
<1>1. IsFiniteSet(S \union {x}) /\ (S \union {x}) \ {x} = S
  BY FS_AddElement
<1>2. SumOver(f, S \union {x}) = f[x] + SumOver(f, (S \union {x}) \ {x})
  BY <1>1, SumWithout
<1> QED BY <1>1, <1>2

\* One value changes.
LEMMA SumChanged ==
    ASSUME NEW S, IsFiniteSet(S), NEW x \in S, NEW f, NEW e, \A y \in S : f[y] \in Int /\ e[y] \in Int,
           \A y \in S \ {x} : e[y] = f[y]
    PROVE  SumOver(e, S) = SumOver(f, S) + e[x] - f[x]
<1>1. IsFiniteSet(S \ {x})
  BY FS_Subset
<1>2. SumOver(e, S \ {x}) = SumOver(f, S \ {x}) /\ SumOver(f, S \ {x}) \in Int
  BY <1>1, SumSame, SumIsInt
<1>3. SumOver(e, S) = e[x] + SumOver(e, S \ {x}) /\ SumOver(f, S) = f[x] + SumOver(f, S \ {x})
  BY SumWithout
<1>4. e[x] \in Int /\ f[x] \in Int
  OBVIOUS
<1> QED BY <1>2, <1>3, <1>4

\* A sum of values that are no larger is no larger.
LEMMA SumNoLarger ==
    ASSUME NEW S, IsFiniteSet(S), NEW f, NEW e, \A x \in S : f[x] \in Int /\ e[x] \in Int /\ e[x] <= f[x]
    PROVE  SumOver(e, S) <= SumOver(f, S)
<1> DEFINE P == {T \in SUBSET S : SumOver(e, T) <= SumOver(f, T)}
<1>1. {} \in P
  BY SumOfNothing
<1>2. ASSUME NEW T \in SUBSET S, NEW x \in S \ T, T \in P PROVE T \union {x} \in P
  <2>1. IsFiniteSet(T)
    BY FS_Subset
  <2>2. SumOver(e, T) \in Int /\ SumOver(f, T) \in Int /\ e[x] \in Int /\ f[x] \in Int /\ e[x] <= f[x]
    BY <2>1, SumIsInt
  <2>3. SumOver(e, T \union {x}) = e[x] + SumOver(e, T) /\ SumOver(f, T \union {x}) = f[x] + SumOver(f, T)
    BY <2>1, SumWith
  <2>4. SumOver(e, T) <= SumOver(f, T)
    BY <1>2
  <2> QED BY <2>2, <2>3, <2>4
<1> HIDE DEF P
<1>3. S \in P
  BY <1>1, <1>2, SubsetInduction
<1> QED BY <1>3 DEF P

\* A sum of sums, value by value.
LEMMA SumOfBoth ==
    ASSUME NEW S, IsFiniteSet(S), NEW f, NEW e, NEW h,
           \A x \in S : f[x] \in Int /\ e[x] \in Int /\ h[x] = f[x] + e[x]
    PROVE  SumOver(h, S) = SumOver(f, S) + SumOver(e, S)
<1> DEFINE P == {T \in SUBSET S : SumOver(h, T) = SumOver(f, T) + SumOver(e, T)}
<1>1. {} \in P
  BY SumOfNothing
<1>2. ASSUME NEW T \in SUBSET S, NEW x \in S \ T, T \in P PROVE T \union {x} \in P
  <2>1. IsFiniteSet(T)
    BY FS_Subset
  <2>2. SumOver(e, T) \in Int /\ SumOver(f, T) \in Int /\ e[x] \in Int /\ f[x] \in Int /\ h[x] = f[x] + e[x]
    BY <2>1, SumIsInt
  <2>3. /\ SumOver(e, T \union {x}) = e[x] + SumOver(e, T) /\ SumOver(f, T \union {x}) = f[x] + SumOver(f, T)
        /\ SumOver(h, T \union {x}) = h[x] + SumOver(h, T)
    <3>1. \A y \in T \union {x} : f[y] \in Int /\ e[y] \in Int /\ h[y] \in Int
      OBVIOUS
    <3> QED BY <2>1, <3>1, SumWith
  <2>4. SumOver(h, T) = SumOver(f, T) + SumOver(e, T)
    BY <1>2
  <2> QED BY <2>2, <2>3, <2>4
<1> HIDE DEF P
<1>3. S \in P
  BY <1>1, <1>2, SubsetInduction
<1> QED BY <1>3 DEF P

LEMMA SumOfZeros ==
    ASSUME NEW S, IsFiniteSet(S), NEW f, \A x \in S : f[x] = 0
    PROVE  SumOver(f, S) = 0
<1> DEFINE P == {T \in SUBSET S : SumOver(f, T) = 0}
<1>1. {} \in P
  BY SumOfNothing
<1>2. ASSUME NEW T \in SUBSET S, NEW x \in S \ T, T \in P PROVE T \union {x} \in P
  <2>1. IsFiniteSet(T)
    BY FS_Subset
  <2>2. \A y \in T \union {x} : f[y] \in Int
    OBVIOUS
  <2>3. SumOver(f, T \union {x}) = f[x] + SumOver(f, T)
    BY <2>1, <2>2, SumWith
  <2> QED BY <1>2, <2>3
<1> HIDE DEF P
<1>3. S \in P
  BY <1>1, <1>2, SubsetInduction
<1> QED BY <1>3 DEF P

LEMMA SumIsNat ==
    ASSUME NEW S, IsFiniteSet(S), NEW f, \A x \in S : f[x] \in Nat
    PROVE  SumOver(f, S) \in Nat
<1> DEFINE z == [x \in S |-> 0]
<1>1. SumOver(z, S) = 0
  BY SumOfZeros
<1>2. \A x \in S : f[x] \in Int /\ z[x] \in Int /\ z[x] <= f[x]
  OBVIOUS
<1> HIDE DEF z
<1>3. SumOver(z, S) <= SumOver(f, S) /\ SumOver(f, S) \in Int
  BY <1>2, SumNoLarger, SumIsInt
<1> QED BY <1>1, <1>3

\* A sum by another name: whatever function adds right adds up to the sum.
LEMMA SumIsThat ==
    ASSUME NEW S, IsFiniteSet(S), NEW f, NEW k, Adds(k, f, S)
    PROVE  k[S] = SumOver(f, S)
<1>1. Adds(CHOOSE g : Adds(g, f, S), f, S)
  BY SumAdds
<1> QED BY <1>1, SumUnique DEF SumOver

LEMMA SumOfScaled ==
    ASSUME NEW S, IsFiniteSet(S), NEW f, NEW e, NEW c \in Int, \A x \in S : f[x] \in Int /\ e[x] = c * f[x]
    PROVE  SumOver(e, S) = c * SumOver(f, S)
<1> DEFINE P == {T \in SUBSET S : SumOver(e, T) = c * SumOver(f, T)}
<1>1. {} \in P
  BY SumOfNothing
<1>2. ASSUME NEW T \in SUBSET S, NEW x \in S \ T, T \in P PROVE T \union {x} \in P
  <2>1. IsFiniteSet(T) /\ \A y \in T \union {x} : f[y] \in Int /\ e[y] \in Int
    BY FS_Subset
  <2>2. SumOver(e, T \union {x}) = e[x] + SumOver(e, T) /\ SumOver(f, T \union {x}) = f[x] + SumOver(f, T)
    BY <2>1, SumWith
  <2>3. SumOver(f, T) \in Int /\ f[x] \in Int /\ e[x] = c * f[x] /\ SumOver(e, T) = c * SumOver(f, T)
    BY <1>2, <2>1, SumIsInt
  <2>4. c * (f[x] + SumOver(f, T)) = c * f[x] + c * SumOver(f, T)
    BY <2>3
  <2> QED BY <2>2, <2>3, <2>4
<1> HIDE DEF P
<1>3. S \in P
  BY <1>1, <1>2, SubsetInduction
<1> QED BY <1>3 DEF P

\* A sum over the elements is the sum over the classes they fall into of the sum over each class.
LEMMA SumByClass ==
    ASSUME NEW S, IsFiniteSet(S), NEW T, IsFiniteSet(T), NEW class, \A x \in S : class[x] \in T,
           NEW f, \A x \in S : f[x] \in Int
    PROVE  SumOver(f, S) = SumOver([t \in T |-> SumOver(f, {x \in S : class[x] = t})], T)
<1> DEFINE In(U, t) == {x \in U : class[x] = t}
           ByClass(U) == [t \in T |-> SumOver(f, In(U, t))]
           P == {U \in SUBSET S : SumOver(f, U) = SumOver(ByClass(U), T)}
<1>1. {} \in P
  <2>1. \A t \in T : In({}, t) = {}
    OBVIOUS
  <2>2. \A t \in T : ByClass({})[t] = 0
    BY <2>1, SumOfNothing
  <2> HIDE DEF ByClass
  <2>3. SumOver(ByClass({}), T) = 0
    BY <2>2, SumOfZeros
  <2> QED BY <2>3, SumOfNothing
<1>2. ASSUME NEW U \in SUBSET S, NEW x \in S \ U, U \in P PROVE U \union {x} \in P
  <2>1. \A V \in SUBSET S, t \in T : IsFiniteSet(In(V, t)) /\ SumOver(f, In(V, t)) \in Int
    <3> TAKE V \in SUBSET S, t \in T
    <3>1. IsFiniteSet(In(V, t)) /\ \A y \in In(V, t) : f[y] \in Int
      BY FS_Subset
    <3> HIDE DEF In
    <3> QED BY <3>1, SumIsInt
  <2>2. \A t \in T \ {class[x]} : In(U \union {x}, t) = In(U, t)
    OBVIOUS
  <2>3. In(U \union {x}, class[x]) = In(U, class[x]) \union {x} /\ x \notin In(U, class[x])
    OBVIOUS
  <2>4. \A y \in In(U, class[x]) \union {x} : f[y] \in Int
    OBVIOUS
  <2> HIDE DEF In
  <2>5. SumOver(f, In(U \union {x}, class[x])) = f[x] + SumOver(f, In(U, class[x]))
    BY <2>1, <2>3, <2>4, SumWith
  <2>6. /\ \A t \in T : ByClass(U)[t] \in Int /\ ByClass(U \union {x})[t] \in Int
        /\ \A t \in T \ {class[x]} : ByClass(U \union {x})[t] = ByClass(U)[t]
        /\ ByClass(U \union {x})[class[x]] = f[x] + ByClass(U)[class[x]]
    BY <2>1, <2>2, <2>5
  <2> HIDE DEF ByClass
  <2>7. SumOver(ByClass(U \union {x}), T) = SumOver(ByClass(U), T) + ByClass(U \union {x})[class[x]] - ByClass(U)[class[x]]
    <3>1. class[x] \in T
      OBVIOUS
    <3> DEFINE was == ByClass(U)
               is  == ByClass(U \union {x})
    <3>2. (\A t \in T : was[t] \in Int /\ is[t] \in Int) /\ \A t \in T \ {class[x]} : is[t] = was[t]
      BY <2>6
    <3> HIDE DEF was, is
    <3>3. SumOver(is, T) = SumOver(was, T) + is[class[x]] - was[class[x]]
      BY <3>1, <3>2, SumChanged
    <3> QED BY <3>3 DEF was, is
  <2>8. SumOver(ByClass(U), T) \in Int /\ f[x] \in Int /\ ByClass(U)[class[x]] \in Int
    BY <2>6, SumIsInt
  <2>9. SumOver(f, U \union {x}) = f[x] + SumOver(f, U)
    <3>1. IsFiniteSet(U) /\ x \notin U /\ \A y \in U \union {x} : f[y] \in Int
      BY FS_Subset
    <3> QED BY <3>1, SumWith
  <2>10. SumOver(f, U) = SumOver(ByClass(U), T)
    BY <1>2
  <2>11. SumOver(f, U \union {x}) = SumOver(ByClass(U \union {x}), T)
    BY <2>6, <2>7, <2>8, <2>9, <2>10
  <2> QED BY <2>11
<1> HIDE DEF P
<1>3. S \in P
  BY <1>1, <1>2, SubsetInduction
<1> QED BY <1>3 DEF P

\* Two parts that have nothing in common.
LEMMA SumOfParts ==
    ASSUME NEW S, IsFiniteSet(S), NEW f, \A x \in S : f[x] \in Int, NEW T \in SUBSET S
    PROVE  SumOver(f, S) = SumOver(f, T) + SumOver(f, S \ T)
<1> DEFINE P == {U \in SUBSET (S \ T) : SumOver(f, T \union U) = SumOver(f, T) + SumOver(f, U)}
<1>0. IsFiniteSet(S \ T) /\ IsFiniteSet(T)
  BY FS_Subset
<1>1. {} \in P
  <2>1. T \union {} = T /\ SumOver(f, T) \in Int
    BY <1>0, SumIsInt
  <2> QED BY <2>1, SumOfNothing
<1>2. ASSUME NEW U \in SUBSET (S \ T), NEW x \in (S \ T) \ U, U \in P PROVE U \union {x} \in P
  <2>1. /\ IsFiniteSet(U) /\ IsFiniteSet(T \union U)
        /\ \A y \in (T \union U) \union {x} : f[y] \in Int
        /\ x \notin T \union U /\ T \union (U \union {x}) = (T \union U) \union {x}
    <3>1. U \subseteq S /\ T \union U \subseteq S
      OBVIOUS
    <3> QED BY <3>1, FS_Subset
  <2>2. SumOver(f, (T \union U) \union {x}) = f[x] + SumOver(f, T \union U)
    BY <2>1, SumWith
  <2>3. SumOver(f, U \union {x}) = f[x] + SumOver(f, U)
    BY <2>1, SumWith
  <2>4. SumOver(f, T) \in Int /\ SumOver(f, U) \in Int /\ f[x] \in Int
    BY <1>0, <2>1, SumIsInt
  <2>5. SumOver(f, T \union U) = SumOver(f, T) + SumOver(f, U)
    BY <1>2
  <2>6. SumOver(f, T \union (U \union {x})) = SumOver(f, T) + SumOver(f, U \union {x})
    <3>1. SumOver(f, T \union (U \union {x})) = SumOver(f, (T \union U) \union {x})
      BY <2>1
    <3> QED BY ONLY <3>1, <2>2, <2>3, <2>4, <2>5
  <2> QED BY <2>6
<1> HIDE DEF P
<1>3. S \ T \in P
  BY <1>0, <1>1, <1>2, SubsetInduction
<1>4. T \union (S \ T) = S
  OBVIOUS
<1> QED BY <1>3, <1>4 DEF P

\* Counting is adding ones.
LEMMA SumOfOnes ==
    ASSUME NEW S, IsFiniteSet(S), NEW f, \A x \in S : f[x] = 1
    PROVE  SumOver(f, S) = Cardinality(S)
<1> DEFINE P == {T \in SUBSET S : SumOver(f, T) = Cardinality(T)}
<1>1. {} \in P
  BY SumOfNothing, FS_EmptySet
<1>2. ASSUME NEW T \in SUBSET S, NEW x \in S \ T, T \in P PROVE T \union {x} \in P
  <2>1. IsFiniteSet(T) /\ \A y \in T \union {x} : f[y] \in Int
    BY FS_Subset
  <2>2. SumOver(f, T \union {x}) = f[x] + SumOver(f, T)
    BY <2>1, SumWith
  <2>3. Cardinality(T \union {x}) = Cardinality(T) + 1 /\ Cardinality(T) \in Nat
    BY <2>1, FS_AddElement, FS_CardinalityType
  <2> QED BY <1>2, <2>2, <2>3
<1> HIDE DEF P
<1>3. S \in P
  BY <1>1, <1>2, SubsetInduction
<1> QED BY <1>3 DEF P

\* A sum over the images of a function that makes no two elements the same.
LEMMA SumOverImages ==
    ASSUME NEW S, IsFiniteSet(S), NEW r, \A x, y \in S : r[x] = r[y] => x = y,
           NEW f, NEW e, \A x \in S : e[x] \in Int /\ f[r[x]] = e[x]
    PROVE  IsFiniteSet({r[x] : x \in S}) /\ SumOver(f, {r[x] : x \in S}) = SumOver(e, S)
<1> DEFINE Image(T) == {r[x] : x \in T}
           P == {T \in SUBSET S : IsFiniteSet(Image(T)) /\ SumOver(f, Image(T)) = SumOver(e, T)}
<1>1. {} \in P
  <2>1. Image({}) = {}
    OBVIOUS
  <2> HIDE DEF Image
  <2> QED BY <2>1, SumOfNothing, FS_EmptySet
<1>2. ASSUME NEW T \in SUBSET S, NEW x \in S \ T, T \in P PROVE T \union {x} \in P
  <2>1. IsFiniteSet(T) /\ \A y \in T \union {x} : e[y] \in Int
    BY FS_Subset
  <2>2. Image(T \union {x}) = Image(T) \union {r[x]} /\ r[x] \notin Image(T)
    OBVIOUS
  <2>3. \A y \in Image(T) \union {r[x]} : f[y] \in Int
    OBVIOUS
  <2>4. IsFiniteSet(Image(T)) /\ SumOver(f, Image(T)) = SumOver(e, T)
    BY <1>2
  <2> HIDE DEF Image
  <2>5. IsFiniteSet(Image(T) \union {r[x]}) /\ SumOver(f, Image(T) \union {r[x]}) = f[r[x]] + SumOver(f, Image(T))
    BY <2>2, <2>3, <2>4, FS_AddElement, SumWith
  <2>6. SumOver(e, T \union {x}) = e[x] + SumOver(e, T)
    BY <2>1, SumWith
  <2>7. f[r[x]] = e[x]
    OBVIOUS
  <2> QED BY <2>2, <2>4, <2>5, <2>6, <2>7
<1> HIDE DEF P
<1>3. S \in P
  BY <1>1, <1>2, SubsetInduction
<1> QED BY <1>3 DEF P

\* Values that are each off by half of d at most are together off by that for each.
LEMMA SumOfNear ==
    ASSUME NEW S, IsFiniteSet(S), NEW f, NEW q, NEW d \in Nat,
           \A x \in S : f[x] \in Int /\ q[x] \in Int /\ 2 * (d * q[x] - f[x]) \in -d..d
    PROVE  2 * (d * SumOver(q, S) - SumOver(f, S)) \in -(Cardinality(S) * d)..(Cardinality(S) * d)
<1> DEFINE P == {T \in SUBSET S : 2 * (d * SumOver(q, T) - SumOver(f, T)) \in -(Cardinality(T) * d)..(Cardinality(T) * d)}
<1>1. {} \in P
  BY SumOfNothing, FS_EmptySet
<1>2. ASSUME NEW T \in SUBSET S, NEW x \in S \ T, T \in P PROVE T \union {x} \in P
  <2>1. IsFiniteSet(T) /\ \A y \in T \union {x} : f[y] \in Int /\ q[y] \in Int
    BY FS_Subset
  <2>2. SumOver(f, T \union {x}) = f[x] + SumOver(f, T) /\ SumOver(q, T \union {x}) = q[x] + SumOver(q, T)
    BY <2>1, SumWith
  <2>3. Cardinality(T \union {x}) = Cardinality(T) + 1 /\ Cardinality(T) \in Nat
    BY <2>1, FS_AddElement, FS_CardinalityType
  <2>4. SumOver(f, T) \in Int /\ SumOver(q, T) \in Int
    BY <2>1, SumIsInt
  <2>5. ASSUME NEW a \in Int, NEW b \in Int, NEW u \in Int, NEW v \in Int, NEW n \in Nat,
               2 * (d * u - a) \in -d..d, 2 * (d * v - b) \in -(n * d)..(n * d)
        PROVE  2 * (d * (u + v) - (a + b)) \in -((n + 1) * d)..((n + 1) * d)
    <3>1. d * (u + v) = d * u + d * v /\ (n + 1) * d = n * d + d
      BY <2>5
    <3>2. d * u \in Int /\ d * v \in Int /\ n * d \in Int /\ d * (u + v) \in Int /\ (n + 1) * d \in Int
      BY <2>5
    <3> QED BY <2>5, <3>1, <3>2
  <2>6. 2 * (d * SumOver(q, T) - SumOver(f, T)) \in -(Cardinality(T) * d)..(Cardinality(T) * d)
    BY <1>2
  <2>7. f[x] \in Int /\ q[x] \in Int /\ 2 * (d * q[x] - f[x]) \in -d..d
    OBVIOUS
  <2>8. 2 * (d * (q[x] + SumOver(q, T)) - (f[x] + SumOver(f, T))) \in -((Cardinality(T) + 1) * d)..((Cardinality(T) + 1) * d)
    BY <2>3, <2>4, <2>5, <2>6, <2>7
  <2> QED BY <2>2, <2>3, <2>8
<1> HIDE DEF P
<1>3. S \in P
  BY <1>1, <1>2, SubsetInduction
<1> QED BY <1>3 DEF P

-----------------------------------------------------------------------------
(* The product of f over S                                                 *)

Multiplies(g, f, S) == g = [s \in SUBSET S |-> IF s = {} THEN 1 ELSE f[Some(s)] * g[s \ {Some(s)}]]

\* There is such a function, by the argument of SumExists.
LEMMA ProductExists ==
    ASSUME NEW S, IsFiniteSet(S), NEW f
    PROVE  \E g : Multiplies(g, f, S)
<1> DEFINE Next(g) == [s \in SUBSET S |-> IF s = {} THEN 1 ELSE f[Some(s)] * g[s \ {Some(s)}]]
           RightTo(g, n) == \A s \in SUBSET S : Cardinality(s) <= n => g[s] = Next(g)[s]
           P == {n \in Nat : \E h : RightTo(Next(h), n)}
<1>1. 0 \in P
  <2>1. \A s \in SUBSET S : Cardinality(s) <= 0 => s = {}
    BY FS_Subset, FS_EmptySet, FS_CardinalityType
  <2>2. RightTo(Next(f), 0)
    BY <2>1
  <2> QED BY <2>2
<1>2. ASSUME NEW n \in Nat, n \in P PROVE n + 1 \in P
  <2>1. PICK h : RightTo(Next(h), n)
    BY <1>2
  <2> DEFINE g == Next(h)
  <2>2. ASSUME NEW s \in SUBSET S, Cardinality(s) <= n + 1 PROVE Next(g)[s] = Next(Next(g))[s]
    <3>1. CASE s = {}
      BY <3>1
    <3>2. CASE s # {}
      <4>1. s \ {Some(s)} \in SUBSET S /\ Cardinality(s \ {Some(s)}) <= n
        BY <2>2, <3>2, SmallerByOne
      <4>2. g[s \ {Some(s)}] = Next(g)[s \ {Some(s)}]
        BY <2>1, <4>1
      <4> QED BY <3>2, <4>2
    <3> QED BY <3>1, <3>2
  <2>3. RightTo(Next(g), n + 1)
    BY <2>2
  <2>4. \E f1 : RightTo(Next(f1), n + 1)
    <3> HIDE DEF RightTo, Next
    <3> WITNESS g
    <3> QED BY <2>3
  <2>5. n + 1 \in Nat
    OBVIOUS
  <2> HIDE DEF RightTo, Next, g
  <2> QED BY <2>4, <2>5
<1> HIDE DEF P
<1>3. Nat \subseteq P
  BY <1>1, <1>2, CountingInduction
<1>4. Cardinality(S) \in P
  BY <1>3, FS_CardinalityType
<1>5. PICK h : RightTo(Next(h), Cardinality(S))
  BY <1>4 DEF P
<1>6. \A s \in SUBSET S : Next(h)[s] = Next(Next(h))[s]
  BY <1>5, FS_Subset
<1>7. Next(h) = Next(Next(h))
  BY <1>6
<1> QED BY <1>7 DEF Multiplies

\* Every factor divides the product.
LEMMA ProductHasFactors ==
    ASSUME NEW S, IsFiniteSet(S), NEW f, \A x \in S : f[x] \in Nat \ {0}, NEW g, Multiplies(g, f, S)
    PROVE  g[S] \in Nat \ {0} /\ \A x \in S : \E k \in Nat : g[S] = k * f[x]
<1> DEFINE Divided(T) == g[T] \in Nat \ {0} /\ \A x \in T : \E k \in Nat : g[T] = k * f[x]
           P == {n \in Nat : \A T \in SUBSET S : Cardinality(T) <= n => Divided(T)}
<1>1. 0 \in P
  <2>1. \A T \in SUBSET S : Cardinality(T) <= 0 => T = {}
    BY FS_Subset, FS_EmptySet, FS_CardinalityType
  <2>2. g[{}] = 1
    BY DEF Multiplies
  <2> QED BY <2>1, <2>2
<1>2. ASSUME NEW n \in Nat, n \in P PROVE n + 1 \in P
  <2>1. ASSUME NEW T \in SUBSET S, Cardinality(T) <= n + 1 PROVE Divided(T)
    <3>1. CASE T = {}
      BY <3>1 DEF Multiplies
    <3>2. CASE T # {}
      <4> DEFINE c == Some(T)
                 rest == T \ {c}
      <4>1. rest \in SUBSET S /\ Cardinality(rest) <= n /\ c \in T
        BY <2>1, <3>2, SmallerByOne, SomeIsIn
      <4>2. Divided(rest)
        BY <1>2, <4>1
      <4>3. g[T] = f[c] * g[rest]
        BY <3>2 DEF Multiplies
      <4> HIDE DEF c
      <4>4. f[c] \in Nat \ {0} /\ g[rest] \in Nat \ {0}
        BY <4>1, <4>2
      <4>5. g[T] \in Nat \ {0}
        BY ONLY <4>3, <4>4
      <4>6. ASSUME NEW x \in T PROVE \E k \in Nat : g[T] = k * f[x]
        <5>1. CASE x = c
          <6>1. g[T] = g[rest] * f[x]
            BY <4>3, <4>4, <5>1
          <6> QED BY <4>4, <6>1
        <5>2. CASE x # c
          <6>1. PICK k \in Nat : g[rest] = k * f[x]
            BY <4>2, <5>2
          <6>2. f[x] \in Nat
            OBVIOUS
          <6>3. f[c] * (k * f[x]) = (f[c] * k) * f[x] /\ f[c] * k \in Nat
            BY ONLY <4>4, <6>2, k \in Nat
          <6>4. g[T] = (f[c] * k) * f[x]
            BY <4>3, <6>1, <6>3
          <6> QED BY <6>3, <6>4
        <5> QED BY <5>1, <5>2
      <4> QED BY <4>5, <4>6
    <3> QED BY <3>1, <3>2
  <2> QED BY <2>1
<1> HIDE DEF P
<1>3. Nat \subseteq P
  BY <1>1, <1>2, CountingInduction
<1>4. Cardinality(S) \in P
  BY <1>3, FS_CardinalityType
<1> QED BY <1>4, FS_CardinalityType DEF P
=============================================================================
