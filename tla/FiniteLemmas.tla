---------------------------- MODULE FiniteLemmas ----------------------------
(***************************************************************************)
(* Facts about finite sets that the proofs of several components need.     *)
(* Induction is stated over a set P of the things that have the property,  *)
(* and follows from a minimal element outside of P.                        *)
(***************************************************************************)
EXTENDS Integers, FiniteSets, FiniteSetsExt, FiniteSetTheorems, WellFoundedInduction, TLAPS

\* What holds of the empty set, and of a set with one more element, holds of
\* every subset of a finite set.
LEMMA FiniteInduction ==
  ASSUME NEW S, IsFiniteSet(S), NEW P, {} \in P,
         \A T \in SUBSET S, x \in S : T \in P /\ x \notin T => T \cup {x} \in P
  PROVE  SUBSET S \subseteq P
  <1> DEFINE B == {T \in SUBSET S : T \notin P}
  <1>1. SUFFICES ASSUME B # {} PROVE FALSE
    OBVIOUS
  <1>2. IsWellFoundedOn(StrictSubsetOrdering(S), SUBSET S)
    BY FS_StrictSubsetOrderingWellFounded, FS_FiniteSubsetsOfFinite
  <1>3. PICK m \in B : \A y \in B : <<y, m>> \notin StrictSubsetOrdering(S)
    <2> HIDE DEF B
    <2>1. B \subseteq SUBSET S
      BY DEF B
    <2> QED BY <1>1, <1>2, <2>1, WFMin
  <1>4. PICK x : x \in m
    OBVIOUS
  <1>5. m \ {x} \in SUBSET S /\ x \in S /\ (m \ {x}) \cup {x} = m /\ x \notin m \ {x}
    BY <1>4
  <1>6. <<m \ {x}, m>> \in StrictSubsetOrdering(S)
    BY <1>4, <1>5 DEF StrictSubsetOrdering
  <1>7. m \ {x} \in P
    BY <1>3, <1>5, <1>6
  <1> QED BY <1>5, <1>7

\* A set of numbers with 0, and with n + 1 whenever it has n, has them all.
LEMMA NumberInduction ==
  ASSUME NEW P, 0 \in P, \A n \in Nat : n \in P => n + 1 \in P
  PROVE  Nat \subseteq P
  <1> DEFINE B == {n \in Nat : n \notin P}
  <1>1. SUFFICES ASSUME B # {} PROVE FALSE
    OBVIOUS
  <1>2. IsWellFoundedOn(OpToRel(<, Nat), Nat)
    BY NatLessThanWellFounded
  <1>3. PICK m \in B : \A y \in B : <<y, m>> \notin OpToRel(<, Nat)
    <2> HIDE DEF B
    <2>1. B \subseteq Nat
      BY DEF B
    <2> QED BY <1>1, <1>2, <2>1, WFMin
  <1>4. m - 1 \in Nat /\ m - 1 < m /\ (m - 1) + 1 = m
    OBVIOUS
  <1>5. m - 1 \in P
    BY <1>3, <1>4 DEF OpToRel
  <1> QED BY <1>4, <1>5

-----------------------------------------------------------------------------
(* The sum of a function with a finite domain.                             *)

SumOf(f, S) == MapThenSumSet(LAMBDA x : f[x], S)

\* The equation the recursion of the sum is defined by.
Some(s) == CHOOSE x \in s : TRUE
SumStep(f, g, s) == IF s = {} THEN 0 ELSE f[Some(s)] + g[s \ {Some(s)}]
PartialSums(f, S) == CHOOSE g : g = [s \in SUBSET S |-> SumStep(f, g, s)]

\* The sum of a set is a partial sum in some order of it.
LEMMA SumIsPartialSum ==
  ASSUME NEW f, NEW S
  PROVE  SumOf(f, S) = PartialSums(f, S)[S]
  BY DEF SumOf, MapThenSumSet, MapThenFoldSet, PartialSums, SumStep, Some

\* Functions that satisfy the equation on the sets of at most n elements exist
\* for every n.
LEMMA PartialSumsExist ==
  ASSUME NEW f, NEW S, IsFiniteSet(S)
  PROVE  /\ PartialSums(f, S) = [s \in SUBSET S |-> PartialSums(f, S)[s]]
         /\ \A s \in SUBSET S : PartialSums(f, S)[s] = SumStep(f, PartialSums(f, S), s)
  <1> DEFINE D(n) == {s \in SUBSET S : Cardinality(s) <= n}
             P == {n \in Nat : \E g : g = [s \in D(n) |-> SumStep(f, g, s)]}
  <1>0. \A s \in SUBSET S : IsFiniteSet(s) /\ Cardinality(s) \in Nat /\ (Cardinality(s) = 0 <=> s = {})
    BY FS_Subset, FS_CardinalityType, FS_EmptySet
  <1>1. 0 \in P
    <2>1. \A s \in D(0) : s = {}
      BY <1>0
    <2> DEFINE g == [s \in D(0) |-> 0]
    <2>2. g = [s \in D(0) |-> SumStep(f, g, s)]
      BY <2>1 DEF SumStep
    <2> QED BY <2>2
  <1>2. ASSUME NEW n \in Nat, n \in P PROVE n + 1 \in P
    <2>1. PICK g : g = [s \in D(n) |-> SumStep(f, g, s)]
      BY <1>2
    <2> DEFINE h == [s \in D(n + 1) |-> SumStep(f, g, s)]
    <2>2. \A s \in D(n + 1) : s # {} => s \ {Some(s)} \in D(n)
      <3> SUFFICES ASSUME NEW s \in D(n + 1), s # {} PROVE s \ {Some(s)} \in D(n)
        OBVIOUS
      <3>1. Some(s) \in s
        BY DEF Some
      <3>2. Cardinality(s \ {Some(s)}) = Cardinality(s) - 1
        BY <1>0, <3>1, FS_RemoveElement
      <3> QED BY <1>0, <3>2
    <2>3. \A s \in D(n) : s \in D(n + 1)
      BY <1>0
    <2>4. \A s \in D(n) : h[s] = g[s]
      BY <2>1, <2>3
    <2>5. \A s \in D(n + 1) : SumStep(f, g, s) = SumStep(f, h, s)
      <3> HIDE DEF h, D
      <3> QED BY <2>2, <2>4 DEF SumStep
    <2>6. h = [s \in D(n + 1) |-> SumStep(f, h, s)]
      BY <2>5
    <2> HIDE DEF h, D
    <2> QED BY <2>6
  <1>3. Nat \subseteq P
    <2> HIDE DEF P
    <2> QED BY <1>1, <1>2, NumberInduction
  <1>4. Cardinality(S) \in P
    BY <1>0, <1>3
  <1>5. D(Cardinality(S)) = SUBSET S
    BY <1>0, FS_Subset
  <1>6. PICK g : g = [s \in SUBSET S |-> SumStep(f, g, s)]
    BY <1>4, <1>5
  <1> DEFINE p == PartialSums(f, S)
  <1>7. p = [s \in SUBSET S |-> SumStep(f, p, s)]
    BY <1>6 DEF PartialSums
  <1> HIDE DEF p
  <1>8. p = [s \in SUBSET S |-> p[s]] /\ \A s \in SUBSET S : p[s] = SumStep(f, p, s)
    BY <1>7
  <1> QED BY <1>8 DEF p

\* The order in which the elements are added does not matter.
LEMMA AnyOrder ==
  ASSUME NEW S, IsFiniteSet(S), NEW f \in [S -> Int]
  PROVE  /\ PartialSums(f, S) \in [SUBSET S -> Int] /\ PartialSums(f, S)[{}] = 0
         /\ \A T \in SUBSET S : \A x \in S \ T :
              PartialSums(f, S)[T \cup {x}] = PartialSums(f, S)[T] + f[x]
  <1> DEFINE g == PartialSums(f, S)
  <1>1. g = [s \in SUBSET S |-> g[s]] /\ \A s \in SUBSET S : g[s] = SumStep(f, g, s)
    BY PartialSumsExist
  <1> HIDE DEF g
  <1>2. \A s \in SUBSET S : s # {} => /\ Some(s) \in s /\ s \ {Some(s)} \in SUBSET S
                                     /\ g[s] = f[Some(s)] + g[s \ {Some(s)}]
    <2> SUFFICES ASSUME NEW s \in SUBSET S, s # {}
                 PROVE  /\ Some(s) \in s /\ s \ {Some(s)} \in SUBSET S
                        /\ g[s] = f[Some(s)] + g[s \ {Some(s)}]
      OBVIOUS
    <2>1. Some(s) \in s
      BY DEF Some
    <2>2. g[s] = SumStep(f, g, s)
      BY <1>1
    <2> QED BY <2>1, <2>2 DEF SumStep
  <1>3. g[{}] = 0
    BY <1>1 DEF SumStep
  <1>0. \A s \in SUBSET S : IsFiniteSet(s) /\ Cardinality(s) \in Nat /\ (Cardinality(s) = 0 <=> s = {})
    BY FS_Subset, FS_CardinalityType, FS_EmptySet
  <1> DEFINE Good(s) == g[s] \in Int /\ \A x \in s : g[s] = g[s \ {x}] + f[x]
             P == {n \in Nat : \A s \in SUBSET S : Cardinality(s) <= n => Good(s)}
  <1>4. 0 \in P
    BY <1>0, <1>3
  <1>5. ASSUME NEW n \in Nat, n \in P PROVE n + 1 \in P
    <2>0. Good({})
      BY <1>3
    <2> SUFFICES ASSUME NEW s \in SUBSET S, Cardinality(s) <= n + 1, s # {} PROVE Good(s)
      <3> HIDE DEF Good
      <3> QED BY <2>0
    <2>1. ASSUME NEW x \in s PROVE s \ {x} \in SUBSET S /\ Cardinality(s \ {x}) <= n
      BY <1>0, FS_RemoveElement
    <2>2. \A x \in s : Good(s \ {x})
      BY <1>5, <2>1
    <2> DEFINE c == Some(s)
    <2>3. c \in s /\ g[s] = f[c] + g[s \ {c}]
      BY <1>2
    <2>4. f[c] \in Int /\ g[s \ {c}] \in Int
      BY <2>2, <2>3
    <2>5. ASSUME NEW x \in s PROVE g[s] = g[s \ {x}] + f[x]
      <3> HIDE DEF c
      <3>1. CASE x = c
        BY <2>3, <2>4, <3>1
      <3>2. CASE x # c
        <4>1. g[s \ {c}] = g[(s \ {c}) \ {x}] + f[x]
          BY <2>2, <2>3, <3>2
        <4>2. g[s \ {x}] = g[(s \ {x}) \ {c}] + f[c]
          BY <2>2, <2>3, <3>2
        <4>3. (s \ {c}) \ {x} = (s \ {x}) \ {c}
          OBVIOUS
        <4>4. f[x] \in Int /\ g[s \ {x}] \in Int
          BY <2>2
        <4>5. g[(s \ {x}) \ {c}] \in Int
          <5>1. (s \ {x}) \ {c} \in SUBSET S /\ Cardinality((s \ {x}) \ {c}) <= n
            BY <1>0, <2>1, FS_Subset
          <5> QED BY <1>5, <5>1
        <4> DEFINE g0 == g[(s \ {x}) \ {c}] g1 == g[s \ {x}] g2 == g[s \ {c}] gs == g[s]
                   fx == f[x] fc == f[c]
        <4>6. gs = fc + g2 /\ g2 = g0 + fx /\ g1 = g0 + fc
          BY <2>3, <4>1, <4>2, <4>3
        <4>7. g0 \in Int /\ fx \in Int /\ fc \in Int
          BY <2>4, <4>4, <4>5
        <4>8. gs = g1 + fx
          <5> HIDE DEF g0, g1, g2, gs, fx, fc
          <5> QED BY <4>6, <4>7
        <4> QED BY <4>8
      <3> QED BY <3>1, <3>2
    <2>6. g[s] \in Int
      BY <2>3, <2>4
    <2> QED BY <2>5, <2>6
  <1>6. Nat \subseteq P
    <2> HIDE DEF P
    <2> QED BY <1>4, <1>5, NumberInduction
  <1>7. \A s \in SUBSET S : Good(s)
    BY <1>0, <1>6
  <1>8. g \in [SUBSET S -> Int]
    BY <1>1, <1>7
  <1>9. ASSUME NEW T \in SUBSET S, NEW x \in S \ T
        PROVE  g[T \cup {x}] = g[T] + f[x]
    <2>1. T \cup {x} \in SUBSET S /\ (T \cup {x}) \ {x} = T
      OBVIOUS
    <2> QED BY <1>7, <2>1
  <1> QED BY <1>3, <1>8, <1>9 DEF g

\* What the sums of f over the subsets of S are; the last is SumOf(f, S).
Adds(g, f, S) ==
  /\ g \in [SUBSET S -> Int] /\ g[{}] = 0 /\ g[S] = SumOf(f, S)
  /\ \A T \in SUBSET S : \A x \in S \ T : g[T \cup {x}] = g[T] + f[x]

\* A finite set has partial sums that end with its sum.
LEMMA SumsAre ==
  ASSUME NEW S, IsFiniteSet(S), NEW f \in [S -> Int]
  PROVE  \E g : Adds(g, f, S)
  <1> WITNESS PartialSums(f, S)
  <1> QED BY AnyOrder, SumIsPartialSum, Zenon DEF Adds

\* The function h is f with k added to the values at the elements of C: its
\* sum has k added as often as there are elements in C.
Shifts(h, f, S, C, k) ==
  /\ f \in [S -> Int] /\ h \in [S -> Int] /\ C \in SUBSET S /\ k \in Int
  /\ \A x \in S : h[x] = IF x \in C THEN f[x] + k ELSE f[x]

\* One element more adds its value.
LEMMA SumShifts ==
  ASSUME NEW S, IsFiniteSet(S), NEW f, NEW h, NEW C, NEW k, Shifts(h, f, S, C, k)
  PROVE  SumOf(h, S) = SumOf(f, S) + k * Cardinality(C) /\ SumOf(f, S) \in Int
  <1>0. /\ f \in [S -> Int] /\ h \in [S -> Int] /\ C \in SUBSET S /\ k \in Int
        /\ \A x \in S : h[x] = IF x \in C THEN f[x] + k ELSE f[x]
    BY DEF Shifts
  <1>1. PICK g : Adds(g, f, S)
    BY <1>0, SumsAre
  <1>2. PICK e : Adds(e, h, S)
    BY <1>0, SumsAre
  <1> DEFINE P == {T \in SUBSET S : e[T] = g[T] + k * Cardinality(T \cap C)}
  <1>3. {} \in P
    <2>1. {} \cap C = {} /\ Cardinality({}) = 0 /\ k * 0 = 0
      BY <1>0, FS_EmptySet
    <2> QED BY <1>1, <1>2, <2>1 DEF Adds
  <1>4. ASSUME NEW T \in SUBSET S, NEW x \in S, T \in P, x \notin T PROVE T \cup {x} \in P
    <2>1. g[T \cup {x}] = g[T] + f[x] /\ g[T] \in Int /\ f[x] \in Int
      BY <1>0, <1>1, <1>4 DEF Adds
    <2>2. e[T \cup {x}] = e[T] + h[x] /\ e[T] = g[T] + k * Cardinality(T \cap C)
      BY <1>2, <1>4 DEF Adds
    <2>3. IsFiniteSet(T \cap C) /\ Cardinality(T \cap C) \in Nat
      BY <1>0, FS_Subset, FS_CardinalityType
    <2>4. CASE x \in C
      <3>1. (T \cup {x}) \cap C = (T \cap C) \cup {x} /\ x \notin T \cap C
        BY <1>4, <2>4
      <3>2. Cardinality((T \cup {x}) \cap C) = Cardinality(T \cap C) + 1
        BY <2>3, <3>1, FS_AddElement
      <3>3. h[x] = f[x] + k
        BY <1>0, <2>4
      <3> DEFINE n == Cardinality(T \cap C) m == Cardinality((T \cup {x}) \cap C)
                 fx == f[x] gT == g[T] eT == e[T] gx == g[T \cup {x}] ex == e[T \cup {x}]
      <3>4. gx = gT + fx /\ ex = eT + (fx + k) /\ eT = gT + k * n /\ m = n + 1
        BY <2>1, <2>2, <3>2, <3>3
      <3>5. gT \in Int /\ fx \in Int /\ n \in Nat
        BY <2>1, <2>3
      <3>6. ex = gx + k * m
        <4> HIDE DEF n, m, fx, gT, eT, gx, ex
        <4>1. k * (n + 1) = k * n + k /\ k * n \in Int
          BY <1>0, <3>5
        <4> QED BY <1>0, <3>4, <3>5, <4>1
      <3> QED BY <3>6
    <2>5. CASE x \notin C
      <3>1. (T \cup {x}) \cap C = T \cap C /\ h[x] = f[x]
        BY <1>0, <2>5
      <3> DEFINE n == k * Cardinality(T \cap C)
                 fx == f[x] gT == g[T] eT == e[T] gx == g[T \cup {x}] ex == e[T \cup {x}]
      <3>4. gx = gT + fx /\ ex = eT + fx /\ eT = gT + n
        BY <2>1, <2>2, <3>1
      <3>5. gT \in Int /\ fx \in Int /\ n \in Int
        BY <1>0, <2>1, <2>3
      <3>6. ex = gx + n
        <4> HIDE DEF n, fx, gT, eT, gx, ex
        <4> QED BY <3>4, <3>5
      <3> QED BY <3>1, <3>6
    <2> QED BY <2>4, <2>5
  <1>5. S \in P
    <2> HIDE DEF P
    <2> QED BY <1>3, <1>4, FiniteInduction
  <1>6. S \cap C = C
    BY <1>0
  <1>7. e[S] = g[S] + k * Cardinality(C)
    BY <1>5, <1>6
  <1>8. e[S] = SumOf(h, S) /\ g[S] = SumOf(f, S) /\ g[S] \in Int
    BY <1>1, <1>2 DEF Adds
  <1> QED BY <1>7, <1>8

\* One value changes.
LEMMA SumChanges ==
  ASSUME NEW S, IsFiniteSet(S), NEW f \in [S -> Int], NEW h \in [S -> Int],
         NEW x \in S, \A y \in S \ {x} : h[y] = f[y]
  PROVE  SumOf(h, S) = SumOf(f, S) + (h[x] - f[x]) /\ SumOf(f, S) \in Int
  <1> DEFINE k == h[x] - f[x]
  <1>1. k \in Int /\ {x} \in SUBSET S /\ Cardinality({x}) = 1
    BY FS_Singleton
  <1>2. \A y \in S : h[y] = IF y \in {x} THEN f[y] + k ELSE f[y]
    OBVIOUS
  <1> HIDE DEF k
  <1>3. SumOf(h, S) = SumOf(f, S) + k * 1 /\ SumOf(f, S) \in Int
    <2>1. Shifts(h, f, S, {x}, k)
      BY <1>1, <1>2 DEF Shifts
    <2> QED BY <1>1, <2>1, SumShifts
  <1> QED BY <1>1, <1>3 DEF k

\* The sum of the function that is zero everywhere, and of one that is not
\* negative; no value is greater than the sum.
LEMMA SumOfZeros ==
  ASSUME NEW S, IsFiniteSet(S), NEW f \in [S -> Int], \A x \in S : f[x] = 0
  PROVE  SumOf(f, S) = 0
  <1>1. PICK g : Adds(g, f, S)
    BY SumsAre
  <1> DEFINE P == {T \in SUBSET S : g[T] = 0}
  <1>2. {} \in P
    BY <1>1 DEF Adds
  <1>3. ASSUME NEW T \in SUBSET S, NEW x \in S, T \in P, x \notin T PROVE T \cup {x} \in P
    <2>1. g[T \cup {x}] = g[T] + f[x] /\ g[T] = 0 /\ f[x] = 0
      BY <1>1, <1>3 DEF Adds
    <2> QED BY <2>1
  <1>4. S \in P
    <2> HIDE DEF P
    <2> QED BY <1>2, <1>3, FiniteInduction
  <1> QED BY <1>1, <1>4 DEF Adds

\* A sum of naturals is one.
LEMMA SumIsNat ==
  ASSUME NEW S, IsFiniteSet(S), NEW f \in [S -> Nat]
  PROVE  SumOf(f, S) \in Nat
  <1>1. PICK g : Adds(g, f, S)
    BY SumsAre
  <1> DEFINE P == {T \in SUBSET S : g[T] \in Nat}
  <1>2. {} \in P
    BY <1>1 DEF Adds
  <1>3. ASSUME NEW T \in SUBSET S, NEW x \in S, T \in P, x \notin T PROVE T \cup {x} \in P
    <2>1. g[T \cup {x}] = g[T] + f[x] /\ g[T] \in Nat /\ f[x] \in Nat
      BY <1>1, <1>3 DEF Adds
    <2> QED BY <2>1
  <1>4. S \in P
    <2> HIDE DEF P
    <2> QED BY <1>2, <1>3, FiniteInduction
  <1> QED BY <1>1, <1>4 DEF Adds

\* A sum of naturals is at least each of its terms.
LEMMA SumBounds ==
  ASSUME NEW S, IsFiniteSet(S), NEW f \in [S -> Nat], NEW x \in S
  PROVE  f[x] <= SumOf(f, S)
  <1> DEFINE h == [f EXCEPT ![x] = 0]
  <1>1. h \in [S -> Nat] /\ h[x] = 0 /\ \A y \in S \ {x} : h[y] = f[y]
    OBVIOUS
  <1> HIDE DEF h
  <1>2. h \in [S -> Int] /\ f \in [S -> Int] /\ f[x] \in Nat
    BY <1>1
  <1>3. SumOf(h, S) = SumOf(f, S) + (h[x] - f[x]) /\ SumOf(f, S) \in Int
    BY <1>1, <1>2, SumChanges
  <1>4. SumOf(h, S) \in Nat
    BY <1>1, SumIsNat
  <1> QED BY <1>1, <1>2, <1>3, <1>4-----------------------------------------------------------------------------
(* Strict orders, as sets of pairs, and the place of an element in one.    *)

StrictOrder(S, R) ==
  /\ \A x \in S : <<x, x>> \notin R
  /\ \A x, y, z \in S : <<x, y>> \in R /\ <<y, z>> \in R => <<x, z>> \in R
  /\ \A x, y \in S : x = y \/ <<x, y>> \in R \/ <<y, x>> \in R

Preceding(S, R, x) == {y \in S : <<y, x>> \in R}
Place(S, R, x) == Cardinality(Preceding(S, R, x))

\* Places are numbers below the size of the set.
LEMMA PlaceRange ==
  ASSUME NEW S, NEW R, NEW x, IsFiniteSet(S), StrictOrder(S, R), x \in S
  PROVE  /\ IsFiniteSet(Preceding(S, R, x))
         /\ Place(S, R, x) \in 0..(Cardinality(S) - 1)
  <1>1. Preceding(S, R, x) \in SUBSET (S \ {x})
    BY DEF Preceding, StrictOrder
  <1>2. IsFiniteSet(S \ {x}) /\ Cardinality(S \ {x}) = Cardinality(S) - 1
    BY FS_RemoveElement
  <1>3. /\ IsFiniteSet(Preceding(S, R, x))
        /\ Cardinality(Preceding(S, R, x)) <= Cardinality(S \ {x})
    BY <1>1, <1>2, FS_Subset
  <1>4. Cardinality(Preceding(S, R, x)) \in Nat /\ Cardinality(S) \in Nat
    BY <1>3, FS_CardinalityType
  <1> QED BY <1>2, <1>3, <1>4 DEF Place

\* Who comes first has the lower place.
LEMMA PlaceGrows ==
  ASSUME NEW S, NEW R, NEW x, NEW y, IsFiniteSet(S), StrictOrder(S, R),
         x \in S, y \in S, <<x, y>> \in R
  PROVE  Place(S, R, x) < Place(S, R, y)
  <1>1. Preceding(S, R, x) \in SUBSET Preceding(S, R, y)
    BY DEF Preceding, StrictOrder
  <1>2. x \in Preceding(S, R, y) /\ x \notin Preceding(S, R, x)
    BY DEF Preceding, StrictOrder
  <1>3. IsFiniteSet(Preceding(S, R, y))
    BY PlaceRange
  <1>4. /\ Cardinality(Preceding(S, R, x)) <= Cardinality(Preceding(S, R, y))
        /\ Cardinality(Preceding(S, R, x)) # Cardinality(Preceding(S, R, y))
    BY <1>1, <1>2, <1>3, FS_Subset
  <1>5. Place(S, R, x) \in Int /\ Place(S, R, y) \in Int
    BY PlaceRange
  <1> QED BY <1>4, <1>5 DEF Place

\* Places tell the elements apart and tell their order.
LEMMA PlaceIsOwn ==
  ASSUME NEW S, NEW R, NEW x, NEW y, IsFiniteSet(S), StrictOrder(S, R), x \in S, y \in S,
         Place(S, R, x) = Place(S, R, y)
  PROVE  x = y
  <1>1. x = y \/ <<x, y>> \in R \/ <<y, x>> \in R
    BY DEF StrictOrder
  <1>2. Place(S, R, x) \in Int /\ Place(S, R, y) \in Int
    BY PlaceRange
  <1>3. ASSUME <<x, y>> \in R PROVE FALSE
    BY <1>2, <1>3, PlaceGrows
  <1>4. ASSUME <<y, x>> \in R PROVE FALSE
    BY <1>2, <1>4, PlaceGrows
  <1> QED BY <1>1, <1>3, <1>4

\* Places order as the elements do.
LEMMA PlaceOrders ==
  ASSUME NEW S, NEW R, NEW x, NEW y, IsFiniteSet(S), StrictOrder(S, R), x \in S, y \in S
  PROVE  Place(S, R, x) < Place(S, R, y) <=> <<x, y>> \in R
  <1>1. x = y \/ <<x, y>> \in R \/ <<y, x>> \in R
    BY DEF StrictOrder
  <1>2. Place(S, R, x) \in Int /\ Place(S, R, y) \in Int
    BY PlaceRange
  <1>3. CASE x = y
    BY <1>2, <1>3 DEF StrictOrder
  <1>4. CASE <<x, y>> \in R
    <2>1. Place(S, R, x) < Place(S, R, y)
      BY <1>4, PlaceGrows
    <2> QED BY <1>2, <1>4, <2>1
  <1>5. CASE <<y, x>> \in R
    <2>1. Place(S, R, y) < Place(S, R, x)
      BY <1>5, PlaceGrows
    <2>2. <<x, y>> \notin R
      BY <1>5 DEF StrictOrder
    <2> QED BY <1>2, <2>1, <2>2
  <1> QED BY <1>1, <1>3, <1>4, <1>5

\* Every place below the size of the set is taken.
LEMMA PlaceIsTaken ==
  ASSUME NEW S, NEW R, NEW k, IsFiniteSet(S), StrictOrder(S, R),
         k \in 0..(Cardinality(S) - 1)
  PROVE  \E x \in S : Place(S, R, x) = k
  <1> DEFINE T == 0..(Cardinality(S) - 1)
             f == [x \in S |-> Place(S, R, x)]
  <1>1. Cardinality(S) \in Nat
    BY FS_CardinalityType
  <1>2. IsFiniteSet(T) /\ Cardinality(T) = Cardinality(S)
    BY <1>1, FS_Interval
  <1>3. f \in [S -> T]
    BY PlaceRange
  <1>4. ASSUME NEW x \in S, NEW y \in S, f[x] = f[y] PROVE x = y
    <2>1. Place(S, R, x) = Place(S, R, y)
      BY <1>4
    <2> QED BY <2>1, PlaceIsOwn
  <1>5. f \in Injection(S, T)
    BY <1>3, <1>4 DEF Injection, IsInjective
  <1>6. f \in Surjection(S, T)
    <2> HIDE DEF f, T
    <2> QED BY <1>2, <1>5, FS_Injection
  <1> QED BY <1>6 DEF Surjection

\* The elements with the first n places: no more than n of them, and some when
\* there is one to choose from.
Leading(S, R, n) == {x \in S : Place(S, R, x) < n}

\* There are as many elements up to place n as n says.
LEMMA LeadingSize ==
  ASSUME NEW S, NEW R, NEW n, IsFiniteSet(S), StrictOrder(S, R), n \in Nat
  PROVE  /\ IsFiniteSet(Leading(S, R, n)) /\ Cardinality(Leading(S, R, n)) <= n
         /\ S # {} /\ n > 0 => Leading(S, R, n) # {}
  <1> DEFINE L == Leading(S, R, n)
             T == 0..(n - 1)
             f == [x \in L |-> Place(S, R, x)]
  <1>1. IsFiniteSet(T) /\ Cardinality(T) = n
    BY FS_Interval
  <1>2. \A x \in L : x \in S /\ Place(S, R, x) \in T
    BY PlaceRange DEF Leading
  <1>3. ASSUME NEW x \in L, NEW y \in L, f[x] = f[y] PROVE x = y
    <2>1. Place(S, R, x) = Place(S, R, y) /\ x \in S /\ y \in S
      BY <1>2, <1>3
    <2> QED BY <2>1, PlaceIsOwn
  <1>4. f \in Injection(L, T)
    BY <1>2, <1>3 DEF Injection, IsInjective
  <1>5. IsFiniteSet(L) /\ Cardinality(L) <= n
    <2> HIDE DEF f, T, L
    <2> QED BY <1>1, <1>4, FS_Injection
  <1>6. ASSUME S # {}, n > 0 PROVE L # {}
    <2>1. Cardinality(S) \in Nat /\ Cardinality(S) # 0
      BY <1>6, FS_CardinalityType, FS_EmptySet
    <2>2. 0 \in 0..(Cardinality(S) - 1)
      BY <2>1
    <2>3. PICK x \in S : Place(S, R, x) = 0
      BY <2>2, PlaceIsTaken
    <2> QED BY <1>6, <2>3 DEF Leading
  <1> QED BY <1>5, <1>6

\* The elements of S one after the other.
Enumerates(s, S, R) ==
  /\ s = [k \in 1..Cardinality(S) |-> s[k]]
  /\ \A k \in 1..Cardinality(S) : s[k] \in S /\ Place(S, R, s[k]) = k - 1
  /\ \A x \in S : Place(S, R, x) + 1 \in 1..Cardinality(S) /\ s[Place(S, R, x) + 1] = x

\* Listing a set by place lists each element once.
LEMMA Enumeration ==
  ASSUME NEW S, NEW R, NEW s, IsFiniteSet(S), StrictOrder(S, R),
         s = [k \in 1..Cardinality(S) |-> CHOOSE x \in S : Place(S, R, x) = k - 1]
  PROVE  Enumerates(s, S, R)
  <1>1. Cardinality(S) \in Nat
    BY FS_CardinalityType
  <1>2. ASSUME NEW k \in 1..Cardinality(S)
        PROVE  s[k] \in S /\ Place(S, R, s[k]) = k - 1
    <2>1. k - 1 \in 0..(Cardinality(S) - 1)
      BY <1>1
    <2>2. \E x \in S : Place(S, R, x) = k - 1
      BY <2>1, PlaceIsTaken
    <2> QED BY <2>2
  <1>3. ASSUME NEW x \in S
        PROVE  Place(S, R, x) + 1 \in 1..Cardinality(S) /\ s[Place(S, R, x) + 1] = x
    <2> DEFINE k == Place(S, R, x) + 1
    <2>1. k \in 1..Cardinality(S) /\ k - 1 = Place(S, R, x)
      BY <1>1, PlaceRange
    <2>2. s[k] \in S /\ Place(S, R, s[k]) = Place(S, R, x)
      BY <1>2, <2>1
    <2> QED BY <2>1, <2>2, PlaceIsOwn
  <1>4. s = [k \in 1..Cardinality(S) |-> s[k]]
    <2> DEFINE c(k) == CHOOSE x \in S : Place(S, R, x) = k - 1
    <2>1. s = [k \in 1..Cardinality(S) |-> c(k)]
      OBVIOUS
    <2> HIDE DEF c
    <2> QED BY <2>1
  <1> QED BY <1>2, <1>3, <1>4 DEF Enumerates
=============================================================================
