------------------------ MODULE ExportStaking_proofs ------------------------
(***************************************************************************)
(* Theorems of ExportStaking for every number of validators, every limit,  *)
(* every power and every allow list.                                       *)
(***************************************************************************)
EXTENDS ExportStaking, FiniteLemmas, SequenceTheorems

-----------------------------------------------------------------------------
(* The orders of the validators, and the sequences that follow them.       *)

PowerType == power \in [Validator -> 0..MaxPower]
byPower == {p \in Validator \X Validator : Stronger(p[1], p[2])}
byAddress == {p \in Validator \X Validator : p[1] < p[2]}

\* Validators are a finite set of numbers.
LEMMA Validators ==
  /\ IsFiniteSet(Validator) /\ Validator \subseteq Int
  /\ \A S \in SUBSET Validator : IsFiniteSet(S) /\ Cardinality(S) \in Nat
  <1>1. IsFiniteSet(Validator)
    BY FS_Interval, ExportAssumption DEF Validator
  <1>2. \A S \in SUBSET Validator : IsFiniteSet(S)
    BY <1>1, FS_Subset
  <1>3. \A S \in SUBSET Validator : Cardinality(S) \in Nat
    BY <1>2, FS_CardinalityType
  <1> QED BY <1>1, <1>2, <1>3, ExportAssumption DEF Validator

\* The power index is a strict order, because no two addresses are equal.
LEMMA PowerOrder ==
  ASSUME PowerType, NEW S \in SUBSET Validator
  PROVE  StrictOrder(S, byPower)
  <1>1. \A v \in S : v \in Validator /\ v \in Int /\ power[v] \in Int
    BY Validators, ExportAssumption DEF PowerType
  <1>2. \A v, w \in S : <<v, w>> \in byPower <=> Stronger(v, w)
    BY <1>1 DEF byPower
  <1>3. \A v \in S : ~Stronger(v, v)
    BY <1>1 DEF Stronger
  <1>4. \A u, v, w \in S : Stronger(u, v) /\ Stronger(v, w) => Stronger(u, w)
    BY <1>1 DEF Stronger
  <1>5. \A v, w \in S : v = w \/ Stronger(v, w) \/ Stronger(w, v)
    BY <1>1 DEF Stronger
  <1> QED BY <1>2, <1>3, <1>4, <1>5 DEF StrictOrder

\* Addresses are ordered strictly.
LEMMA AddressOrder ==
  ASSUME NEW S \in SUBSET Validator
  PROVE  StrictOrder(S, byAddress)
  <1>1. \A v \in S : v \in Validator /\ v \in Int
    BY Validators
  <1>2. \A v, w \in S : <<v, w>> \in byAddress <=> v < w
    BY <1>1 DEF byAddress
  <1> QED BY <1>1, <1>2 DEF StrictOrder

\* The two ways the validators are listed visit each of them once, in order.
LEMMA ByPowerEnumerates ==
  ASSUME PowerType, NEW S \in SUBSET Validator
  PROVE  Enumerates(ByPower(S), S, byPower)
  <1>1. \A x \in S : Preceding(S, byPower, x) = {y \in S : Stronger(y, x)}
    BY DEF Preceding, byPower
  <1>2. ByPower(S) = [k \in 1..Cardinality(S) |->
                        CHOOSE x \in S : Place(S, byPower, x) = k - 1]
    <2>1. \A x \in S : Cardinality({y \in S : Stronger(y, x)}) = Place(S, byPower, x)
      BY <1>1 DEF Place
    <2>2. ASSUME NEW k
          PROVE  (CHOOSE x \in S : Cardinality({y \in S : Stronger(y, x)}) = k - 1)
                   = CHOOSE x \in S : Place(S, byPower, x) = k - 1
      BY <2>1
    <2>3. ByPower(S) = [k \in 1..Cardinality(S) |->
                          CHOOSE x \in S : Cardinality({y \in S : Stronger(y, x)}) = k - 1]
      BY DEF ByPower, Ranked
    <2> QED BY <2>2, <2>3, Zenon
  <1> QED BY <1>2, Enumeration, Validators, PowerOrder

\* The iteration by address visits each validator once.
LEMMA ByAddressEnumerates ==
  ASSUME NEW S \in SUBSET Validator
  PROVE  Enumerates(Ranked(S, <), S, byAddress)
  <1>1. \A x \in S : Preceding(S, byAddress, x) = {y \in S : y < x}
    BY DEF Preceding, byAddress
  <1>2. Ranked(S, <) = [k \in 1..Cardinality(S) |->
                          CHOOSE x \in S : Place(S, byAddress, x) = k - 1]
    <2>1. \A x \in S : Cardinality({y \in S : y < x}) = Place(S, byAddress, x)
      BY <1>1 DEF Place
    <2>2. ASSUME NEW k
          PROVE  (CHOOSE x \in S : Cardinality({y \in S : y < x}) = k - 1)
                   = CHOOSE x \in S : Place(S, byAddress, x) = k - 1
      BY <2>1
    <2>3. Ranked(S, <) = [k \in 1..Cardinality(S) |->
                            CHOOSE x \in S : Cardinality({y \in S : y < x}) = k - 1]
      BY DEF Ranked
    <2> QED BY <2>2, <2>3, Zenon
  <1> QED BY <1>2, Enumeration, Validators, AddressOrder
\* How the stable sort compares the positions of a list.
Positions(s, n) ==
  {p \in (1..n) \X (1..n) :
     \/ power[s[p[1]]] > power[s[p[2]]]
     \/ power[s[p[1]]] = power[s[p[2]]] /\ p[1] < p[2]}

\* In a list in the order of addresses, positions compare as validators do.
LEMMA PositionsAre ==
  ASSUME PowerType, NEW S \in SUBSET Validator, NEW n, NEW s,
         n = Cardinality(S), Enumerates(s, S, byAddress), NEW i \in 1..n, NEW j \in 1..n
  PROVE  /\ <<i, j>> \in Positions(s, n) <=> <<s[i], s[j]>> \in byPower
         /\ s[i] = s[j] => i = j
  <1>1. /\ s[i] \in S /\ Place(S, byAddress, s[i]) = i - 1
        /\ s[j] \in S /\ Place(S, byAddress, s[j]) = j - 1
    BY DEF Enumerates
  <1>2. IsFiniteSet(S) /\ StrictOrder(S, byAddress) /\ n \in Nat
    BY Validators, AddressOrder
  <1>3. Place(S, byAddress, s[i]) < Place(S, byAddress, s[j]) <=> <<s[i], s[j]>> \in byAddress
    BY <1>1, <1>2, PlaceOrders
  <1>4. <<s[i], s[j]>> \in byAddress <=> s[i] < s[j]
    BY <1>1 DEF byAddress
  <1>5. i \in Int /\ j \in Int
    BY <1>2
  <1>6. i < j <=> s[i] < s[j]
    BY <1>1, <1>3, <1>4, <1>5
  <1>7. <<s[i], s[j]>> \in byPower <=> Stronger(s[i], s[j])
    BY <1>1 DEF byPower
  <1>8. <<i, j>> \in Positions(s, n) <=> Stronger(s[i], s[j])
    BY <1>6 DEF Positions, Stronger
  <1> QED BY <1>1, <1>5, <1>7, <1>8

\* The positions that come first are those of the validators that do.
LEMMA PositionPlace ==
  ASSUME PowerType, NEW S \in SUBSET Validator, NEW n, NEW s,
         n = Cardinality(S), Enumerates(s, S, byAddress), NEW i \in 1..n
  PROVE  Place(1..n, Positions(s, n), i) = Place(S, byPower, s[i])
  <1> DEFINE P == Preceding(1..n, Positions(s, n), i)
             Q == Preceding(S, byPower, s[i])
             f == [j \in P |-> s[j]]
  <1>1. \A j \in P : j \in 1..n /\ s[j] \in Q
    <2> SUFFICES ASSUME NEW j \in P PROVE j \in 1..n /\ s[j] \in Q
      OBVIOUS
    <2>1. j \in 1..n /\ <<j, i>> \in Positions(s, n)
      BY DEF Preceding
    <2>2. <<s[j], s[i]>> \in byPower
      BY <2>1, PositionsAre
    <2>3. s[j] \in S
      BY <2>1 DEF Enumerates
    <2> QED BY <2>1, <2>2, <2>3 DEF Preceding
  <1>2. ASSUME NEW j \in P, NEW k \in P, s[j] = s[k] PROVE j = k
    <2>1. j \in 1..n /\ k \in 1..n
      BY <1>1
    <2>2. Place(S, byAddress, s[j]) = j - 1 /\ Place(S, byAddress, s[k]) = k - 1
      BY <2>1 DEF Enumerates
    <2>3. j \in Int /\ k \in Int
      BY <2>1
    <2> HIDE DEF P
    <2> QED BY <1>2, <2>2, <2>3
  <1>3. ASSUME NEW v \in Q PROVE \E j \in P : s[j] = v
    <2>1. v \in S /\ <<v, s[i]>> \in byPower
      BY DEF Preceding
    <2>2. PICK j \in 1..n : s[j] = v
      BY <2>1 DEF Enumerates
    <2>3. <<j, i>> \in Positions(s, n)
      BY <2>1, <2>2, PositionsAre
    <2> QED BY <2>2, <2>3 DEF Preceding
  <1>4. f \in [P -> Q] /\ \A j \in P : f[j] = s[j]
    BY <1>1
  <1>5. f \in Bijection(P, Q)
    <2> HIDE DEF f, P, Q
    <2> QED BY <1>2, <1>3, <1>4 DEF Bijection, Injection, IsInjective, Surjection
  <1>6. IsFiniteSet(P)
    <2>1. n \in Nat
      BY Validators
    <2>2. IsFiniteSet(1..n) /\ P \in SUBSET (1..n)
      BY <2>1, FS_Interval DEF Preceding
    <2> QED BY <2>2, FS_Subset
  <1>7. Cardinality(Q) = Cardinality(P)
    <2> HIDE DEF f, P, Q
    <2> QED BY <1>5, <1>6, FS_Bijection DEF ExistsBijection
  <1> QED BY <1>7 DEF Place

\* The stable sort by power of the list in the order of addresses is the order
\* of the power index.
LEMMA StableSortIsByPower ==
  ASSUME PowerType, NEW S \in SUBSET Validator
  PROVE  StableByPower(Ranked(S, <)) = ByPower(S)
  <1> DEFINE s == Ranked(S, <)
             n == Cardinality(S)
             R == Positions(s, n)
             order == Ranked(DOMAIN s, LAMBDA i, j :
                        power[s[i]] > power[s[j]] \/ (power[s[i]] = power[s[j]] /\ i < j))
  <1>1. Enumerates(s, S, byAddress) /\ n \in Nat
    BY ByAddressEnumerates, Validators
  <1> HIDE DEF s
  <1>2. DOMAIN s = 1..n /\ IsFiniteSet(1..n) /\ Cardinality(1..n) = n
    <2>1. DOMAIN s = 1..n
      BY <1>1 DEF Enumerates
    <2> HIDE DEF n
    <2> QED BY <1>1, <2>1, FS_Interval
  <1> HIDE DEF n
  <1>3. StableByPower(s) = [k \in DOMAIN s |-> s[order[k]]]
    BY DEF StableByPower
  <1>4. \A i, j \in 1..n : /\ <<i, j>> \in R <=> <<s[i], s[j]>> \in byPower
                           /\ s[i] = s[j] => i = j
    <2> HIDE DEF R
    <2> SUFFICES ASSUME NEW i \in 1..n, NEW j \in 1..n
                 PROVE  /\ <<i, j>> \in R <=> <<s[i], s[j]>> \in byPower
                        /\ s[i] = s[j] => i = j
      OBVIOUS
    <2>1. n = Cardinality(S)
      BY DEF n
    <2> QED BY <1>1, <2>1, PositionsAre DEF R
  <1>5. StrictOrder(1..n, R)
    <2>1. \A i \in 1..n : s[i] \in S
      BY <1>1 DEF Enumerates, n
    <2>2. StrictOrder(S, byPower)
      BY PowerOrder
    <2> HIDE DEF R
    <2> QED BY <1>4, <2>1, <2>2 DEF StrictOrder
  <1>6. order = [k \in 1..n |-> CHOOSE i \in 1..n : Place(1..n, R, i) = k - 1]
    <2> DEFINE c(k) == CHOOSE i \in 1..n : Cardinality({j \in 1..n :
                         power[s[j]] > power[s[i]] \/ (power[s[j]] = power[s[i]] /\ j < i)}) = k - 1
               d(k) == CHOOSE i \in 1..n : Place(1..n, R, i) = k - 1
    <2>1. order = [k \in 1..n |-> c(k)]
      BY <1>2 DEF Ranked
    <2>2. \A i \in 1..n : Preceding(1..n, R, i) = {j \in 1..n :
            power[s[j]] > power[s[i]] \/ (power[s[j]] = power[s[i]] /\ j < i)}
      BY DEF Preceding, Positions
    <2>3. \A i \in 1..n : Cardinality({j \in 1..n :
            power[s[j]] > power[s[i]] \/ (power[s[j]] = power[s[i]] /\ j < i)}) = Place(1..n, R, i)
      BY <2>2 DEF Place
    <2> HIDE DEF R, order
    <2>4. ASSUME NEW k PROVE c(k) = d(k)
      BY <2>3
    <2>5. order = [k \in 1..n |-> d(k)]
      <3> HIDE DEF c, d
      <3> QED BY <2>1, <2>4
    <2> QED BY <2>5
  <1>7. Enumerates(order, 1..n, R)
    <2> HIDE DEF R, order
    <2> QED BY <1>2, <1>5, <1>6, Enumeration
  <1>8. Enumerates(ByPower(S), S, byPower)
    BY ByPowerEnumerates
  <1>9. ASSUME NEW k \in 1..n PROVE s[order[k]] = ByPower(S)[k]
    <2>1. order[k] \in 1..n /\ Place(1..n, R, order[k]) = k - 1
      <3> HIDE DEF R, order
      <3> QED BY <1>2, <1>7 DEF Enumerates
    <2> HIDE DEF order
    <2>2. s[order[k]] \in S /\ Place(S, byPower, s[order[k]]) = k - 1
      <3>1. s[order[k]] \in S
        BY <1>1, <2>1 DEF Enumerates, n
      <3>2. n = Cardinality(S)
        BY DEF n
      <3>3. Place(1..n, R, order[k]) = Place(S, byPower, s[order[k]])
        BY <1>1, <2>1, <3>2, PositionPlace
      <3> QED BY <2>1, <3>1, <3>3
    <2>3. ByPower(S)[k] \in S /\ Place(S, byPower, ByPower(S)[k]) = k - 1
      BY <1>8 DEF Enumerates, n
    <2> QED BY <2>2, <2>3, PlaceIsOwn, PowerOrder, Validators
  <1>10. ByPower(S) = [k \in 1..n |-> ByPower(S)[k]]
    BY <1>8 DEF Enumerates, n
  <1> HIDE DEF order
  <1>11. StableByPower(s) = ByPower(S)
    BY <1>2, <1>3, <1>9, <1>10
  <1> QED BY <1>11 DEF s
-----------------------------------------------------------------------------
(* The head of the power index.                                            *)

Least(m, n) == IF m < n THEN m ELSE n

\* A list of n elements of S.
ListOf(s, S, n) == s = [k \in 1..n |-> s[k]] /\ \A k \in 1..n : s[k] \in S

\* The list t is the first n elements of s.
Prefix(t, s, n) == DOMAIN t = 1..n /\ \A k \in 1..n : t[k] = s[k]

\* What Take takes of a list.
LEMMA TakeIs ==
  ASSUME NEW S, NEW n, NEW m, NEW s, n \in Nat, m \in Nat, ListOf(s, S, n)
  PROVE  /\ Take(s, m) \in Seq(S) /\ Len(Take(s, m)) <= m
         /\ Prefix(Take(s, m), s, Least(n, m))
  <1>1. s \in Seq(S) /\ Len(s) = n
    BY DEF ListOf
  <1>2. Take(s, m) = SubSeq(s, 1, Least(n, m))
    BY <1>1 DEF Take, Least
  <1>3. Least(n, m) \in 0..n /\ Least(n, m) <= m
    BY DEF Least
  <1> DEFINE t == SubSeq(s, 1, Least(n, m))
  <1>4. /\ t \in Seq(S) /\ Len(t) = Least(n, m)
        /\ \A k \in 1..Least(n, m) : t[k] = s[k]
    <2> HIDE DEF Least
    <2> QED BY <1>1, <1>3, SubSeqProperties
  <1>5. DOMAIN t = 1..Len(t)
    <2> HIDE DEF t
    <2> QED BY <1>4
  <1> HIDE DEF t
  <1> QED BY <1>2, <1>3, <1>4, <1>5 DEF t, Prefix

Pos(v) == Place(index, byPower, v)

\* What ApplyAndReturnValidatorSetUpdates scans: the validators of the index
\* that fewer than MaxValidators others come before.
LEMMA ScannedAre ==
  ASSUME PowerType, index \in SUBSET Validator
  PROVE  /\ DOMAIN Scanned = 1..Least(Cardinality(index), MaxValidators)
         /\ \A k \in DOMAIN Scanned : Scanned[k] \in index /\ Pos(Scanned[k]) = k - 1
         /\ \A v \in index : Pos(v) < MaxValidators =>
              Pos(v) + 1 \in DOMAIN Scanned /\ Scanned[Pos(v) + 1] = v
  <1> DEFINE s == ByPower(index)
             n == Cardinality(index)
             m == Least(n, MaxValidators)
  <1>1. Enumerates(s, index, byPower) /\ n \in Nat /\ MaxValidators \in Nat
    BY ByPowerEnumerates, Validators, ExportAssumption
  <1>2. /\ s = [k \in 1..n |-> s[k]]
        /\ \A k \in 1..n : s[k] \in index /\ Pos(s[k]) = k - 1
        /\ \A v \in index : Pos(v) + 1 \in 1..n /\ s[Pos(v) + 1] = v
    <2> HIDE DEF s
    <2> QED BY <1>1 DEF Enumerates, Pos
  <1> HIDE DEF s, n
  <1>3. DOMAIN Take(s, MaxValidators) = 1..m /\ \A k \in 1..m : Take(s, MaxValidators)[k] = s[k]
    <2>1. ListOf(s, index, n)
      BY <1>2 DEF ListOf
    <2>2. Prefix(Take(s, MaxValidators), s, m)
      BY <1>1, <2>1, TakeIs
    <2> QED BY <2>2 DEF Prefix
  <1>4. \A k \in 1..m : k \in 1..n
    BY <1>1 DEF Least
  <1>5. Scanned = Take(s, MaxValidators)
    BY DEF Scanned, s
  <1>6. \A v \in index : Pos(v) < MaxValidators => Pos(v) + 1 \in 1..m
    BY <1>1, <1>2 DEF Least
  <1> HIDE DEF m
  <1>7. /\ DOMAIN Scanned = 1..m
        /\ \A k \in 1..m : Scanned[k] \in index /\ Pos(Scanned[k]) = k - 1
        /\ \A v \in index : Pos(v) < MaxValidators => Pos(v) + 1 \in 1..m /\ Scanned[Pos(v) + 1] = v
    BY <1>2, <1>3, <1>4, <1>5, <1>6
  <1> QED BY <1>7 DEF m, n

\* Who is bonded at the end of a block.
LEMMA TopIs ==
  ASSUME PowerType, index \in SUBSET Validator
  PROVE  Top = {v \in index : power[v] > 0 /\ Pos(v) < MaxValidators}
  <1>1. \A v \in index : Pos(v) \in Int /\ MaxValidators \in Int
    BY PlaceRange, PowerOrder, Validators, ExportAssumption DEF Pos
  <1>2. ASSUME NEW k \in DOMAIN Scanned
        PROVE  Scanned[k] \in index /\ Pos(Scanned[k]) < MaxValidators
    <2>1. DOMAIN Scanned = 1..Least(Cardinality(index), MaxValidators)
      BY ScannedAre
    <2>2. k \in Int /\ k <= MaxValidators
      BY <2>1, Validators, ExportAssumption DEF Least
    <2>3. Scanned[k] \in index /\ Pos(Scanned[k]) = k - 1
      BY ScannedAre
    <2> QED BY <2>2, <2>3, ExportAssumption
  <1>3. \A v \in index : Pos(v) < MaxValidators => \E k \in DOMAIN Scanned : Scanned[k] = v
    BY ScannedAre
  <1>4. \A v : v \in ToSet(Scanned) <=> \E k \in DOMAIN Scanned : Scanned[k] = v
    BY DEF ToSet
  <1> QED BY <1>2, <1>3, <1>4 DEF Top

\* Where the others that come before a validator of the index are.
LEMMA StrongerAre ==
  ASSUME PowerType, index \in SUBSET Validator, NEW v \in index
  PROVE  {w \in index : Stronger(w, v)} = Preceding(index, byPower, v)
  BY DEF Preceding, byPower

\* A bonded validator is next in line: those that come before have power too.
LEMMA TopIsNext ==
  ASSUME PowerType, index \in SUBSET Validator, NEW v \in Top
  PROVE  NextInLine(v)
  <1>1. v \in index /\ power[v] > 0 /\ Pos(v) < MaxValidators
    BY TopIs
  <1>2. Cardinality({w \in index : Stronger(w, v)}) < MaxValidators
    BY <1>1, StrongerAre DEF Pos, Place
  <1>3. \A w \in index : Stronger(w, v) => power[w] > 0
    <2>1. \A w \in index : power[w] \in Int
      BY ExportAssumption DEF PowerType
    <2> QED BY <1>1, <2>1 DEF Stronger
  <1> QED BY <1>1, <1>2, <1>3 DEF NextInLine

\* The scan meets a jailed validator exactly when one is next in line.
LEMMA MeetsJailedIs ==
  ASSUME PowerType, index \in SUBSET Validator
  PROVE  MeetsJailed <=> \E v \in Validator : jailed[v] /\ NextInLine(v)
  <1> USE DEF Pos
  <1>0. IsFiniteSet(index) /\ StrictOrder(index, byPower) /\ MaxValidators \in Nat
    BY PowerOrder, Validators, ExportAssumption
  <1>1. ASSUME NEW i \in DOMAIN Scanned
        PROVE  (\A j \in 1..(i - 1) : power[Scanned[j]] > 0) <=> NextInLine(Scanned[i])
    <2> DEFINE v == Scanned[i]
    <2>1. v \in index /\ Pos(v) = i - 1
      BY ScannedAre
    <2>2. DOMAIN Scanned = 1..Least(Cardinality(index), MaxValidators) /\ Cardinality(index) \in Nat
      BY ScannedAre, Validators
    <2>3. i \in Int /\ i <= MaxValidators /\ \A j \in 1..(i - 1) : j \in DOMAIN Scanned
      BY <1>0, <2>2 DEF Least
    <2>4. Cardinality({w \in index : Stronger(w, v)}) < MaxValidators
      BY <1>0, <2>1, <2>3, StrongerAre DEF Place
    <2>5. ASSUME NEW j \in 1..(i - 1) PROVE Scanned[j] \in index /\ Stronger(Scanned[j], v)
      <3>1. Scanned[j] \in index /\ Pos(Scanned[j]) = j - 1 /\ j - 1 < i - 1
        BY <2>3, ScannedAre
      <3>2. <<Scanned[j], v>> \in byPower
        BY <1>0, <2>1, <3>1, PlaceOrders
      <3> QED BY <3>1, <3>2 DEF byPower
    <2>6. ASSUME NEW w \in index, Stronger(w, v) PROVE \E j \in 1..(i - 1) : Scanned[j] = w
      <3>1. <<w, v>> \in byPower
        BY <2>1, <2>6 DEF byPower
      <3>2. Pos(w) < i - 1
        BY <1>0, <2>1, <3>1, PlaceGrows
      <3>3. Pos(w) \in Int /\ Pos(w) >= 0
        BY <1>0, PlaceRange
      <3>4. Scanned[Pos(w) + 1] = w
        BY <1>0, <2>3, <3>2, <3>3, ScannedAre
      <3> QED BY <2>3, <3>2, <3>3, <3>4
    <2> HIDE DEF v
    <2>7. (\A j \in 1..(i - 1) : power[Scanned[j]] > 0)
            <=> \A w \in index : Stronger(w, v) => power[w] > 0
      BY <2>5, <2>6
    <2>8. NextInLine(v) <=> \A w \in index : Stronger(w, v) => power[w] > 0
      BY <2>1, <2>4 DEF NextInLine
    <2> QED BY <2>7, <2>8 DEF v
  <1>2. ASSUME MeetsJailed PROVE \E v \in Validator : jailed[v] /\ NextInLine(v)
    <2>1. PICK i \in DOMAIN Scanned : jailed[Scanned[i]] /\ \A j \in 1..(i - 1) : power[Scanned[j]] > 0
      BY <1>2 DEF MeetsJailed
    <2>2. Scanned[i] \in Validator
      BY ScannedAre
    <2> QED BY <1>1, <2>1, <2>2
  <1>3. ASSUME NEW v \in Validator, jailed[v], NextInLine(v) PROVE MeetsJailed
    <2>1. v \in index /\ Cardinality({w \in index : Stronger(w, v)}) < MaxValidators
      BY <1>3 DEF NextInLine
    <2>2. Pos(v) < MaxValidators
      BY <2>1, StrongerAre DEF Place
    <2>3. Pos(v) + 1 \in DOMAIN Scanned /\ Scanned[Pos(v) + 1] = v
      BY <2>1, <2>2, ScannedAre
    <2> QED BY <1>1, <1>3, <2>3 DEF MeetsJailed
  <1> QED BY <1>2, <1>3
-----------------------------------------------------------------------------
(* What is exported.                                                       *)

\* The list that is exported is the strongest of the bonded validators, as
\* many of them as may sign.
LEMMA ExportedAre ==
  ASSUME PowerType
  PROVE  /\ ExportedValidators = ConsensusSet
         /\ ConsensusSet \in Seq(Validator) /\ Len(ConsensusSet) <= MaxProviderConsensusValidators
         /\ \A v \in ToSet(ConsensusSet) : v \in Validator /\ bonded[v]
  <1> DEFINE B == {v \in Validator : bonded[v]}
             s == ByPower(B)
             n == Cardinality(B)
             m == MaxProviderConsensusValidators
  <1>1. B \in SUBSET Validator
    OBVIOUS
  <1> HIDE DEF B
  <1>2. StableByPower(Ranked(B, <)) = s
    BY <1>1, StableSortIsByPower
  <1>3. ExportedValidators = Take(s, m) /\ ConsensusSet = Take(s, m)
    BY <1>2 DEF ExportedValidators, WriteValidators, ConsensusSet, B
  <1>4. Enumerates(s, B, byPower) /\ n \in Nat /\ m \in Nat
    BY <1>1, ByPowerEnumerates, Validators, ExportAssumption
  <1> HIDE DEF s
  <1>5. ListOf(s, B, n)
    BY <1>4 DEF Enumerates, ListOf
  <1> HIDE DEF n
  <1>6. Take(s, m) \in Seq(B) /\ Len(Take(s, m)) <= m
    BY <1>4, <1>5, TakeIs
  <1> DEFINE t == Take(s, m)
  <1>7. ToSet(t) \subseteq B /\ t \in Seq(Validator)
    <2> HIDE DEF t
    <2> QED BY <1>1, <1>6 DEF ToSet, t
  <1>8. \A v \in ToSet(t) : v \in Validator /\ bonded[v]
    BY <1>7 DEF B
  <1> QED BY <1>3, <1>6, <1>7, <1>8

-----------------------------------------------------------------------------
(* The inductive invariant.                                                *)

\* The preparation for height zero is over, and so is all of its loops.
Finishing == phase \in {"genesis", "write", "done", "failed"} /\ request.forZeroHeight

\* A stage of the preparation is over; the loop of the stage has visited v.
Past(stage) ==
  \/ Finishing
  \/ stage = "redelegations" /\ phase \in {"unbondings", "validators", "apply", "infos"}
  \/ stage = "unbondings" /\ phase \in {"validators", "apply", "infos"}
  \/ stage = "validators" /\ phase \in {"apply", "infos"}
  \/ stage = "apply" /\ phase = "infos"
Visited(stage, v) == Past(stage) \/ (phase = stage /\ v \notin todo)

\* What the loops have visited has no old height, and who was left out is jailed.
RecordsInv ==
  \A v \in Validator :
    /\ Visited("redelegations", v) => red[v] \subseteq {0}
    /\ Visited("unbondings", v) => ubd[v] \subseteq {0}
    /\ Visited("validators", v) => unbHeight[v] = 0 /\ (LeavesOut(v) => jailed[v])
    /\ Visited("infos", v) => info[v] \in {0, NoInfo}

\* On chain no jailed validator is in the index; the export leaves one there
\* only when the allow list leaves it out.
JailedInv ==
  \A v \in index : jailed[v] => phase \notin Chain /\ request.forZeroHeight /\ LeavesOut(v)

\* Except within a block, the bonded validators are the head of the index.
BondedInv == phase # "running" => \A v \in Validator : bonded[v] <=> v \in Top

\* The preparation is for height zero, with an allow list that parses, and has
\* met no jailed validator once its validator set update is over.
StageInv ==
  /\ phase \in {"redelegations", "unbondings", "validators", "apply", "infos"} => request.forZeroHeight
  /\ Past("redelegations") \/ phase = "redelegations" => Malformed \notin request.jailAllowedAddrs
  /\ Past("apply") => ~MeetsJailed

\* How the export ends.
EndInv ==
  /\ phase = "panicked" => BadList
  /\ phase = "done" => exported.validators = ConsensusSet

IInv == TypeOK /\ RecordsInv /\ JailedInv /\ BondedInv /\ StageInv /\ EndInv

-----------------------------------------------------------------------------
(* Types.                                                                  *)

\* The types hold initially.
LEMMA InitTypes == Init => TypeOK
  <1> SUFFICES ASSUME Init PROVE TypeOK
    OBVIOUS
  <1> USE ExportAssumption DEF Init
  <1>1. request \in Request \cup {NoRequest} /\ phase \in Chain
    BY DEF Chain
  <1>2. /\ exported.height \in {NoInfo, 0} \cup 2..(MaxHeight + 1)
        /\ exported.validators \in Seq(Validator)
        /\ Len(exported.validators) <= MaxProviderConsensusValidators
    BY DEF Nothing
  <1>3. /\ height \in 1..MaxHeight /\ power \in [Validator -> 0..MaxPower]
        /\ jailed \in [Validator -> BOOLEAN] /\ bonded \in [Validator -> BOOLEAN]
        /\ unbHeight \in [Validator -> 0..MaxHeight]
        /\ index \in SUBSET Validator /\ todo \in SUBSET Validator
    OBVIOUS
  <1>4. /\ red \in [Validator -> SUBSET (0..MaxHeight)]
        /\ ubd \in [Validator -> SUBSET (0..MaxHeight)]
        /\ info \in [Validator -> 0..MaxHeight \cup {NoInfo}]
    OBVIOUS
  <1> QED BY <1>1, <1>2, <1>3, <1>4 DEF TypeOK

\* A stage is one of the phases, and a loop has the validators to visit.
LEMMA GotoTypes ==
  ASSUME NEW stage \in Stages \cup Ends, Goto(stage)
  PROVE  phase' \in Chain \cup Stages \cup Ends /\ todo' \in SUBSET Validator
  BY DEF Goto

\* A function with one value replaced.
LEMMA Replaced ==
  ASSUME NEW S, NEW T, NEW x, NEW e, NEW f \in [S -> T], x \in S => e \in T
  PROVE  [f EXCEPT ![x] = e] \in [S -> T]
  OBVIOUS

TransactionTypes ==
  /\ power' \in [Validator -> 0..MaxPower] /\ jailed' \in [Validator -> BOOLEAN]
  /\ index' \in SUBSET Validator
  /\ red' \in [Validator -> SUBSET (0..MaxHeight)]
  /\ ubd' \in [Validator -> SUBSET (0..MaxHeight)]

\* Every step keeps the types.
LEMMA TypeStep == TypeOK /\ [Next]_vars => TypeOK'
  <1> SUFFICES ASSUME TypeOK, [Next]_vars PROVE TypeOK'
    OBVIOUS
  <1> USE DEF TypeOK
  <1>1. CASE BeginBlock
    <2>1. phase' \in Chain /\ height' \in 1..MaxHeight
      BY <1>1, ExportAssumption DEF BeginBlock, Chain
    <2>2. UNCHANGED <<power, jailed, bonded, unbHeight, index, red, ubd, info, request, todo, exported>>
      BY <1>1 DEF BeginBlock, staking, records
    <2> QED BY <2>1, <2>2
  <1>2. CASE Transaction
    <2>1. UNCHANGED <<phase, height, bonded, unbHeight, info, request, todo, exported>>
      BY <1>2 DEF Transaction
    <2>2. /\ height \in 0..MaxHeight /\ power \in [Validator -> 0..MaxPower]
          /\ red \in [Validator -> SUBSET (0..MaxHeight)]
          /\ ubd \in [Validator -> SUBSET (0..MaxHeight)]
          /\ jailed \in [Validator -> BOOLEAN] /\ index \in SUBSET Validator
      BY ExportAssumption
    <2>3. ASSUME NEW v \in Validator, Delegate(v) \/ Undelegate(v) \/ Jail(v) \/ Unjail(v)
          PROVE  TransactionTypes
      <3> USE DEF TransactionTypes
      <3> HIDE DEF TypeOK
      <3>1. CASE Delegate(v)
        BY <2>2, <3>1, ExportAssumption, Replaced DEF Delegate
      <3>2. CASE Undelegate(v)
        BY <2>2, <3>2, ExportAssumption, Replaced DEF Undelegate
      <3>3. CASE Jail(v)
        BY <2>2, <3>3, Replaced DEF Jail
      <3>4. CASE Unjail(v)
        BY <2>2, <3>4, Replaced DEF Unjail
      <3> QED BY <2>3, <3>1, <3>2, <3>3, <3>4
    <2>4. ASSUME NEW v \in Validator, NEW w \in Validator, Redelegate(v, w)
          PROVE  TransactionTypes
      <3> HIDE DEF TypeOK
      <3>1. power' \in [Validator -> 0..MaxPower]
        BY <2>2, <2>4, ExportAssumption DEF Redelegate
      <3>2. red' \in [Validator -> SUBSET (0..MaxHeight)]
        BY <2>2, <2>4, Replaced DEF Redelegate
      <3> QED BY <2>2, <2>4, <3>1, <3>2 DEF Redelegate, TransactionTypes
    <2>5. TransactionTypes
      BY <1>2, <2>3, <2>4 DEF Transaction
    <2> QED BY <2>1, <2>5 DEF TransactionTypes
  <1>3. CASE EndBlock
    BY <1>3 DEF EndBlock, ApplyAndReturnValidatorSetUpdates, Chain
  <1>4. CASE Export
    <2>1. phase' \in Chain \cup Stages \cup Ends /\ todo' \in SUBSET Validator
      BY <1>4, GotoTypes DEF Export, Stages, Ends
    <2> QED BY <1>4, <2>1 DEF Export, staking, records
  <1>5. CASE LoopEnds
    <2>1. phase' \in Chain \cup Stages \cup Ends /\ todo' \in SUBSET Validator
      BY <1>5, GotoTypes DEF LoopEnds, Stages
    <2> QED BY <1>5, <2>1 DEF LoopEnds, staking, records
  <1>6. CASE ResetRedelegation
    <2>1. phase' = phase /\ todo' \in SUBSET Validator /\ UNCHANGED <<height, request, exported>>
      BY <1>6 DEF ResetRedelegation, Visit
    <2>2. red' \in [Validator -> SUBSET (0..MaxHeight)]
      <3>1. red \in [Validator -> SUBSET (0..MaxHeight)] /\ 0 \in 0..MaxHeight
        BY ExportAssumption
      <3>2. red' = [red EXCEPT ![Lowest] = {0 : h \in red[Lowest]}]
        BY <1>6 DEF ResetRedelegation
      <3>3. {0 : h \in red[Lowest]} \in SUBSET (0..MaxHeight)
        BY <3>1
      <3> HIDE DEF TypeOK
      <3> QED BY <3>1, <3>2, <3>3, Replaced
    <2>3. UNCHANGED <<staking, ubd, info>>
      BY <1>6 DEF ResetRedelegation
    <2> QED BY <2>1, <2>2, <2>3 DEF staking
  <1>7. CASE ResetUnbonding
    <2>1. phase' = phase /\ todo' \in SUBSET Validator /\ UNCHANGED <<height, request, exported>>
      BY <1>7 DEF ResetUnbonding, Visit
    <2>2. ubd' \in [Validator -> SUBSET (0..MaxHeight)]
      <3>1. ubd \in [Validator -> SUBSET (0..MaxHeight)] /\ 0 \in 0..MaxHeight
        BY ExportAssumption
      <3>2. ubd' = [ubd EXCEPT ![Lowest] = {0 : h \in ubd[Lowest]}]
        BY <1>7 DEF ResetUnbonding
      <3>3. {0 : h \in ubd[Lowest]} \in SUBSET (0..MaxHeight)
        BY <3>1
      <3> HIDE DEF TypeOK
      <3> QED BY <3>1, <3>2, <3>3, Replaced
    <2>3. UNCHANGED <<staking, red, info>>
      BY <1>7 DEF ResetUnbonding
    <2> QED BY <2>1, <2>2, <2>3 DEF staking
  <1>8. CASE ResetValidator
    <2>1. phase' = phase /\ todo' \in SUBSET Validator /\ UNCHANGED <<height, request, exported>>
      BY <1>8 DEF ResetValidator, Visit
    <2>2. unbHeight' \in [Validator -> 0..MaxHeight]
      <3>1. unbHeight \in [Validator -> 0..MaxHeight] /\ 0 \in 0..MaxHeight
        BY ExportAssumption
      <3>2. unbHeight' = [unbHeight EXCEPT ![Highest] = 0]
        BY <1>8 DEF ResetValidator
      <3> HIDE DEF TypeOK
      <3> QED BY <3>1, <3>2, Replaced
    <2>3. jailed' \in [Validator -> BOOLEAN]
      <3>1. jailed \in [Validator -> BOOLEAN]
        OBVIOUS
      <3>2. jailed' = [jailed EXCEPT ![Highest] = jailed[Highest] \/ ToBeJailed(Highest)]
        BY <1>8 DEF ResetValidator
      <3>3. (jailed[Highest] \/ ToBeJailed(Highest)) \in BOOLEAN
        OBVIOUS
      <3> QED BY <3>1, <3>2, <3>3
    <2>4. UNCHANGED <<power, bonded, index, red, ubd, info>>
      BY <1>8 DEF ResetValidator, records
    <2> QED BY <2>1, <2>2, <2>3, <2>4
  <1>9. CASE ApplyUpdates
    <2>1. phase' \in Chain \cup Stages \cup Ends /\ todo' \in SUBSET Validator
      BY <1>9, GotoTypes DEF ApplyUpdates, Stages, Ends
    <2>2. /\ bonded' \in [Validator -> BOOLEAN] /\ unbHeight' \in [Validator -> 0..MaxHeight]
          /\ info' \in [Validator -> 0..MaxHeight \cup {NoInfo}]
          /\ UNCHANGED <<power, jailed, index>>
      <3>1. CASE ApplyAndReturnValidatorSetUpdates
        BY <3>1, ExportAssumption DEF ApplyAndReturnValidatorSetUpdates
      <3>2. CASE UNCHANGED <<staking, info>>
        BY <3>2 DEF staking
      <3> QED BY <1>9, <3>1, <3>2 DEF ApplyUpdates
    <2> QED BY <1>9, <2>1, <2>2 DEF ApplyUpdates
  <1>10. CASE ResetSigningInfo
    <2>1. phase' = phase /\ todo' \in SUBSET Validator /\ UNCHANGED <<height, request, exported>>
      BY <1>10 DEF ResetSigningInfo, Visit
    <2>2. info' \in [Validator -> 0..MaxHeight \cup {NoInfo}]
      <3> DEFINE e == IF info[Lowest] = NoInfo THEN NoInfo ELSE 0
      <3>1. info \in [Validator -> 0..MaxHeight \cup {NoInfo}] /\ e \in 0..MaxHeight \cup {NoInfo}
        BY ExportAssumption
      <3>2. info' = [info EXCEPT ![Lowest] = e]
        BY <1>10 DEF ResetSigningInfo
      <3> HIDE DEF TypeOK, e
      <3> QED BY <3>1, <3>2, Replaced
    <2>3. UNCHANGED <<staking, red, ubd>>
      BY <1>10 DEF ResetSigningInfo
    <2> QED BY <2>1, <2>2, <2>3 DEF staking
  <1>11. CASE ExportGenesis
    <2>1. phase' \in Chain \cup Stages \cup Ends /\ todo' \in SUBSET Validator
      BY <1>11, GotoTypes DEF ExportGenesis, Stages, Ends
    <2> QED BY <1>11, <2>1 DEF ExportGenesis, staking, records
  <1>12. CASE WriteExport
    <2>1. phase' \in Chain \cup Stages \cup Ends /\ todo' \in SUBSET Validator
      BY <1>12, GotoTypes DEF WriteExport, Ends
    <2>2. /\ exported'.height \in {NoInfo, 0} \cup 2..(MaxHeight + 1)
          /\ exported'.validators = ConsensusSet
      <3>1. exported' = [height |-> IF request.forZeroHeight THEN 0 ELSE height + 1,
                         validators |-> ExportedValidators]
        BY <1>12 DEF WriteExport
      <3>2. ExportedValidators = ConsensusSet
        BY ExportedAre DEF PowerType
      <3>3. height + 1 \in 2..(MaxHeight + 1)
        BY ExportAssumption
      <3> QED BY <3>1, <3>2, <3>3
    <2>3. ConsensusSet \in Seq(Validator) /\ Len(ConsensusSet) <= MaxProviderConsensusValidators
      BY ExportedAre DEF PowerType
    <2> QED BY <1>12, <2>1, <2>2, <2>3 DEF WriteExport, staking, records
  <1>13. CASE Ended \/ UNCHANGED vars
    BY <1>13 DEF Ended, vars, staking, records
  <1> QED BY <1>1, <1>2, <1>3, <1>4, <1>5, <1>6, <1>7, <1>8, <1>9, <1>10, <1>11, <1>12, <1>13
      DEF Next
-----------------------------------------------------------------------------
(* The head of the index and the records.                                  *)

\* What the head of the index, the scan and the consensus set depend on.
LEMMA SameHead ==
  /\ UNCHANGED <<power, index>> => Top' = Top
  /\ UNCHANGED <<power, index, jailed>> => MeetsJailed' = MeetsJailed
  /\ UNCHANGED <<power, bonded>> => ConsensusSet' = ConsensusSet
  /\ UNCHANGED request => \A v : LeavesOut(v)' = LeavesOut(v)
  <1>1. UNCHANGED <<power, index>> => Scanned' = Scanned
    BY DEF Scanned, ByPower, Ranked, Stronger, Take
  <1>2. UNCHANGED <<power, index>> => Top' = Top
    BY <1>1 DEF Top
  <1>3. UNCHANGED <<power, index, jailed>> => MeetsJailed' = MeetsJailed
    <2> SUFFICES ASSUME UNCHANGED <<power, index, jailed>> PROVE MeetsJailed' = MeetsJailed
      OBVIOUS
    <2>1. Scanned' = Scanned /\ jailed' = jailed /\ power' = power
      BY <1>1
    <2> QED BY <2>1 DEF MeetsJailed
  <1>4. UNCHANGED <<power, bonded>> => ConsensusSet' = ConsensusSet
    BY DEF ConsensusSet, ByPower, Ranked, Stronger, Take
  <1>5. UNCHANGED request => \A v : LeavesOut(v)' = LeavesOut(v)
    BY DEF LeavesOut
  <1> QED BY <1>2, <1>3, <1>4, <1>5

\* A jailed validator leaves the index on chain; the export jails without
\* taking it out.
LEMMA JailedStep == IInv /\ [Next]_vars => JailedInv'
  <1> SUFFICES ASSUME IInv, [Next]_vars, NEW v \in index', jailed'[v]
               PROVE  phase' \notin Chain /\ request'.forZeroHeight /\ LeavesOut(v)'
    BY DEF JailedInv
  <1>0. /\ jailed \in [Validator -> BOOLEAN] /\ index \in SUBSET Validator
        /\ \A w \in index : jailed[w] => phase \notin Chain /\ request.forZeroHeight /\ LeavesOut(w)
    BY DEF IInv, TypeOK, JailedInv
  <1>1. CASE UNCHANGED <<index, jailed, request>> /\ (phase' \notin Chain \/ phase \in Chain)
    BY <1>0, <1>1, SameHead
  <1>2. CASE BeginBlock \/ EndBlock
    BY <1>1, <1>2 DEF BeginBlock, EndBlock, ApplyAndReturnValidatorSetUpdates, Chain, staking
  <1>3. CASE Transaction
    <2>1. phase \in Chain
      BY <1>3 DEF Transaction, Chain
    <2>2. \A w \in index : ~jailed[w]
      BY <1>0, <2>1
    <2>3. ASSUME NEW w \in Validator, Delegate(w) \/ Undelegate(w) \/ Jail(w) \/ Unjail(w)
          PROVE  FALSE
      BY <1>0, <2>2, <2>3 DEF Delegate, Undelegate, Jail, Unjail
    <2>4. ASSUME NEW w \in Validator, NEW x \in Validator, Redelegate(w, x)
          PROVE  FALSE
      BY <2>2, <2>4 DEF Redelegate
    <2> QED BY <1>3, <2>3, <2>4 DEF Transaction
  <1>4. CASE Export
    <2>1. phase \in Chain /\ UNCHANGED <<index, jailed>>
      BY <1>4 DEF Export, Chain, staking
    <2> QED BY <1>0, <2>1
  <1>5. CASE ResetValidator
    <2>1. /\ UNCHANGED <<phase, request, index>> /\ phase = "validators"
          /\ jailed' = [jailed EXCEPT ![Highest] = jailed[Highest] \/ ToBeJailed(Highest)]
      BY <1>5 DEF ResetValidator, Visit
    <2>2. request.forZeroHeight /\ phase \notin Chain
      BY <2>1 DEF IInv, StageInv, Chain
    <2>3. jailed[v] \/ ToBeJailed(v)
      BY <1>0, <2>1
    <2>4. ToBeJailed(v) => LeavesOut(v)
      BY DEF ToBeJailed, Listed, LeavesOut
    <2> QED BY <1>0, <2>1, <2>2, <2>3, <2>4, SameHead
  <1>6. CASE LoopEnds \/ ApplyUpdates \/ ExportGenesis \/ WriteExport
    <2>1. phase' \notin Chain
      BY <1>6 DEF LoopEnds, ApplyUpdates, ExportGenesis, WriteExport, Goto, Chain
    <2>2. UNCHANGED <<index, jailed, request>>
      BY <1>6 DEF LoopEnds, ApplyUpdates, ExportGenesis, WriteExport, staking,
                  ApplyAndReturnValidatorSetUpdates
    <2> QED BY <1>1, <2>1, <2>2
  <1>7. CASE ResetRedelegation \/ ResetUnbonding \/ ResetSigningInfo
    BY <1>1, <1>7 DEF ResetRedelegation, ResetUnbonding, ResetSigningInfo, Visit, staking, Chain
  <1>8. CASE Ended \/ UNCHANGED vars
    BY <1>1, <1>8 DEF Ended, vars, staking
  <1> QED BY <1>2, <1>3, <1>4, <1>5, <1>6, <1>7, <1>8 DEF Next

\* The validator set update bonds the head of the index, and until the next
\* block neither the index nor a power changes.
LEMMA BondedStep == IInv /\ [Next]_vars => BondedInv'
  <1> SUFFICES ASSUME IInv, [Next]_vars, phase' # "running"
               PROVE  \A v \in Validator : bonded'[v] <=> v \in Top'
    BY DEF BondedInv
  <1>1. CASE UNCHANGED <<power, index, bonded>> /\ phase # "running"
    BY <1>1, SameHead DEF IInv, BondedInv
  <1>2. CASE ApplyAndReturnValidatorSetUpdates
    <2>1. Top' = Top /\ bonded' = [v \in Validator |-> v \in Top]
      BY <1>2, SameHead DEF ApplyAndReturnValidatorSetUpdates
    <2> QED BY <2>1
  <1>3. CASE BeginBlock \/ Transaction
    BY <1>3 DEF BeginBlock, Transaction
  <1>4. CASE EndBlock
    BY <1>2, <1>4 DEF EndBlock
  <1>5. CASE ApplyUpdates
    BY <1>1, <1>2, <1>5 DEF ApplyUpdates, staking
  <1>6. CASE Export \/ LoopEnds \/ ExportGenesis \/ WriteExport
    BY <1>1, <1>6 DEF Export, LoopEnds, ExportGenesis, WriteExport, staking
  <1>7. CASE ResetRedelegation \/ ResetUnbonding \/ ResetValidator \/ ResetSigningInfo
    BY <1>1, <1>7 DEF ResetRedelegation, ResetUnbonding, ResetValidator, ResetSigningInfo,
                      Visit, staking
  <1>8. CASE Ended \/ UNCHANGED vars
    BY <1>1, <1>8 DEF Ended, vars, staking
  <1> QED BY <1>3, <1>4, <1>5, <1>6, <1>7, <1>8 DEF Next
\* The stages follow each other: the preparation is for height zero, with a
\* list that parses, and goes on only when the scan met no jailed validator.
LEMMA StageStep == IInv /\ [Next]_vars => StageInv'
  <1> SUFFICES ASSUME IInv, [Next]_vars PROVE StageInv'
    OBVIOUS
  <1> USE DEF StageInv, Past, Finishing
  <1>0. StageInv
    BY DEF IInv
  <1>1. CASE BeginBlock \/ Transaction \/ EndBlock
    BY <1>1 DEF BeginBlock, Transaction, EndBlock
  <1>2. CASE Export
    BY <1>2 DEF Export, Goto
  <1>3. CASE UNCHANGED <<phase, request, power, index, jailed>>
    BY <1>0, <1>3, SameHead
  <1>4. CASE LoopEnds
    <2>1. UNCHANGED <<request, power, index, jailed>> /\ MeetsJailed' = MeetsJailed
      BY <1>4, SameHead DEF LoopEnds, staking
    <2> QED BY <1>0, <1>4, <2>1 DEF LoopEnds, Goto
  <1>5. CASE ApplyUpdates
    <2>1. UNCHANGED <<request, power, index, jailed>> /\ MeetsJailed' = MeetsJailed
      BY <1>5, SameHead DEF ApplyUpdates, ApplyAndReturnValidatorSetUpdates, staking
    <2> QED BY <1>0, <1>5, <2>1 DEF ApplyUpdates, Goto
  <1>6. CASE ExportGenesis \/ WriteExport
    <2>1. UNCHANGED <<request, power, index, jailed>> /\ MeetsJailed' = MeetsJailed
      BY <1>6, SameHead DEF ExportGenesis, WriteExport, staking
    <2> QED BY <1>0, <1>6, <2>1 DEF ExportGenesis, WriteExport, Goto
  <1>7. CASE ResetValidator
    BY <1>0, <1>7 DEF ResetValidator, Visit
  <1>8. CASE ResetRedelegation \/ ResetUnbonding \/ ResetSigningInfo
    BY <1>3, <1>8 DEF ResetRedelegation, ResetUnbonding, ResetSigningInfo, Visit, staking
  <1>9. CASE Ended \/ UNCHANGED vars
    BY <1>3, <1>9 DEF Ended, vars, staking
  <1> QED BY <1>1, <1>2, <1>4, <1>5, <1>6, <1>7, <1>8, <1>9 DEF Next

\* What the loops have visited of one validator.
RecordsOf(v) ==
  /\ Visited("redelegations", v) => red[v] \subseteq {0}
  /\ Visited("unbondings", v) => ubd[v] \subseteq {0}
  /\ Visited("validators", v) => unbHeight[v] = 0 /\ (LeavesOut(v) => jailed[v])
  /\ Visited("infos", v) => info[v] \in {0, NoInfo}

\* Every loop resets what it visits and touches nothing an earlier one has
\* reset; the validator set update finds the head of the index bonded, and so
\* writes no height.
LEMMA RecordsStep == IInv /\ [Next]_vars => RecordsInv'
  <1> SUFFICES ASSUME IInv, [Next]_vars, NEW v \in Validator PROVE RecordsOf(v)'
    BY DEF RecordsInv, RecordsOf
  <1>0. /\ RecordsOf(v)
        /\ red \in [Validator -> SUBSET (0..MaxHeight)] /\ ubd \in [Validator -> SUBSET (0..MaxHeight)]
        /\ unbHeight \in [Validator -> 0..MaxHeight] /\ jailed \in [Validator -> BOOLEAN]
        /\ info \in [Validator -> 0..MaxHeight \cup {NoInfo}]
    BY DEF IInv, RecordsInv, RecordsOf, TypeOK
  <1> USE DEF RecordsOf, Visited, Past, Finishing
  <1>1. CASE BeginBlock \/ Transaction \/ EndBlock
    BY <1>1 DEF BeginBlock, Transaction, EndBlock
  <1>2. CASE Export
    BY <1>2 DEF Export, Goto
  <1>3. CASE UNCHANGED <<phase, request, todo, staking, records>>
    BY <1>0, <1>3, SameHead DEF staking, records
  <1>4. CASE LoopEnds
    <2>1. UNCHANGED <<request, staking, records>> /\ LeavesOut(v)' = LeavesOut(v)
      BY <1>4, SameHead DEF LoopEnds
    <2> QED BY <1>0, <1>4, <2>1 DEF LoopEnds, Goto, staking, records
  <1>5. CASE ApplyUpdates
    <2>1. UNCHANGED <<request, power, jailed, index, red, ubd>> /\ LeavesOut(v)' = LeavesOut(v)
      BY <1>5, SameHead DEF ApplyUpdates, ApplyAndReturnValidatorSetUpdates, staking
    <2>2. unbHeight'[v] = unbHeight[v]
      <3>1. bonded[v] <=> v \in Top
        BY <1>5 DEF ApplyUpdates, IInv, BondedInv
      <3>2. CASE ApplyAndReturnValidatorSetUpdates
        BY <3>1, <3>2 DEF ApplyAndReturnValidatorSetUpdates
      <3>3. CASE UNCHANGED staking
        BY <3>3 DEF staking
      <3> QED BY <1>5, <3>2, <3>3 DEF ApplyUpdates
    <2> QED BY <1>0, <1>5, <2>1, <2>2 DEF ApplyUpdates, Goto
  <1>6. CASE ExportGenesis \/ WriteExport
    <2>1. UNCHANGED <<request, staking, records>> /\ LeavesOut(v)' = LeavesOut(v)
      BY <1>6, SameHead DEF ExportGenesis, WriteExport
    <2> QED BY <1>0, <1>6, <2>1 DEF ExportGenesis, WriteExport, Goto, staking, records
  <1>7. CASE ResetRedelegation
    <2>1. /\ UNCHANGED <<phase, request>> /\ phase = "redelegations" /\ todo' = todo \ {Lowest}
          /\ red' = [red EXCEPT ![Lowest] = {0 : h \in red[Lowest]}]
      BY <1>7 DEF ResetRedelegation, Visit
    <2>2. v \notin todo' => red'[v] \subseteq {0}
      BY <1>0, <2>1
    <2> QED BY <2>1, <2>2
  <1>8. CASE ResetUnbonding
    <2>1. /\ UNCHANGED <<phase, request, red>> /\ phase = "unbondings" /\ todo' = todo \ {Lowest}
          /\ ubd' = [ubd EXCEPT ![Lowest] = {0 : h \in ubd[Lowest]}]
      BY <1>8 DEF ResetUnbonding, Visit
    <2>2. v \notin todo' => ubd'[v] \subseteq {0}
      BY <1>0, <2>1
    <2> QED BY <1>0, <2>1, <2>2
  <1>9. CASE ResetValidator
    <2>1. /\ UNCHANGED <<phase, request, red, ubd>> /\ phase = "validators"
          /\ todo' = todo \ {Highest} /\ LeavesOut(v)' = LeavesOut(v)
          /\ unbHeight' = [unbHeight EXCEPT ![Highest] = 0]
          /\ jailed' = [jailed EXCEPT ![Highest] = jailed[Highest] \/ ToBeJailed(Highest)]
      BY <1>9, SameHead DEF ResetValidator, Visit, records
    <2>2. v \notin todo' => unbHeight'[v] = 0
      BY <1>0, <2>1
    <2>3. LeavesOut(v) => ToBeJailed(v)
      BY DEF LeavesOut, ToBeJailed, Listed
    <2>4. v \notin todo' /\ LeavesOut(v) => jailed'[v]
      BY <1>0, <2>1, <2>3
    <2> QED BY <1>0, <2>1, <2>2, <2>4
  <1>10. CASE ResetSigningInfo
    <2>1. /\ UNCHANGED <<phase, request, red, ubd, unbHeight, jailed>> /\ phase = "infos"
          /\ todo' = todo \ {Lowest} /\ LeavesOut(v)' = LeavesOut(v)
          /\ info' = [info EXCEPT ![Lowest] = IF info[Lowest] = NoInfo THEN NoInfo ELSE 0]
      BY <1>10, SameHead DEF ResetSigningInfo, Visit, staking
    <2>2. v \notin todo' => info'[v] \in {0, NoInfo}
      BY <1>0, <2>1
    <2> QED BY <1>0, <2>1, <2>2
  <1>11. CASE Ended \/ UNCHANGED vars
    BY <1>3, <1>11 DEF Ended, vars
  <1> QED BY <1>1, <1>2, <1>4, <1>5, <1>6, <1>7, <1>8, <1>9, <1>10, <1>11 DEF Next

\* The validator set update of the preparation panics only when the list leaves
\* out a validator that is next in line.
LEMMA MeetingIsForCause ==
  ASSUME IInv, phase = "apply", MeetsJailed
  PROVE  BadList
  <1>1. PowerType /\ index \in SUBSET Validator
    BY DEF IInv, TypeOK, PowerType
  <1>2. PICK v \in Validator : jailed[v] /\ NextInLine(v)
    BY <1>1, MeetsJailedIs
  <1>3. v \in index
    BY <1>2 DEF NextInLine
  <1>4. request.forZeroHeight /\ LeavesOut(v)
    BY <1>2, <1>3 DEF IInv, JailedInv
  <1> QED BY <1>2, <1>4 DEF BadList

\* Every step keeps what is known of a finished export.
LEMMA EndStep == IInv /\ [Next]_vars => EndInv'
  <1> SUFFICES ASSUME IInv, [Next]_vars PROVE EndInv'
    OBVIOUS
  <1>1. CASE UNCHANGED vars
    <2>1. UNCHANGED <<phase, exported, request, power, index, jailed, bonded>>
      BY <1>1 DEF vars, staking
    <2>2. BadList' = BadList
      BY <2>1 DEF BadList, NextInLine, Stronger, LeavesOut
    <2> QED BY <2>1, <2>2, SameHead DEF IInv, EndInv
  <1>2. CASE phase' \notin {"panicked", "done"}
    BY <1>2 DEF EndInv
  <1>3. CASE Export
    BY <1>3 DEF Export, Goto, EndInv, BadList
  <1>4. CASE ApplyUpdates
    <2> SUFFICES ASSUME phase' = "panicked" PROVE BadList'
      BY <1>4 DEF EndInv, ApplyUpdates, Goto
    <2>1. MeetsJailed /\ phase = "apply" /\ UNCHANGED <<staking, request>>
      BY <1>4 DEF ApplyUpdates, Goto
    <2>2. BadList
      BY <2>1, MeetingIsForCause
    <2> QED BY <2>1, <2>2 DEF staking, BadList, NextInLine, Stronger, LeavesOut
  <1>5. CASE WriteExport
    <2>1. phase' = "done" /\ UNCHANGED <<power, bonded>>
      BY <1>5 DEF WriteExport, Goto, staking
    <2>2. exported'.validators = ExportedValidators
      BY <1>5 DEF WriteExport
    <2>3. ExportedValidators = ConsensusSet
      BY ExportedAre DEF IInv, TypeOK, PowerType
    <2> QED BY <2>1, <2>2, <2>3, SameHead DEF EndInv
  <1>6. CASE BeginBlock \/ Transaction \/ EndBlock \/ LoopEnds \/ ExportGenesis
    BY <1>2, <1>6 DEF BeginBlock, Transaction, EndBlock, LoopEnds, ExportGenesis, Goto
  <1>7. CASE ResetRedelegation \/ ResetUnbonding \/ ResetValidator \/ ResetSigningInfo
    BY <1>2, <1>7 DEF ResetRedelegation, ResetUnbonding, ResetValidator, ResetSigningInfo, Visit
  <1>8. CASE Ended
    BY <1>1, <1>8 DEF Ended
  <1> QED BY <1>1, <1>3, <1>4, <1>5, <1>6, <1>7, <1>8 DEF Next

-----------------------------------------------------------------------------
(* The theorems.                                                           *)

\* At first all validators have the same power, and the first MaxValidators
\* addresses are bonded.
LEMMA InitHolds == Init => IInv
  <1> SUFFICES ASSUME Init PROVE IInv
    OBVIOUS
  <1>1. TypeOK
    BY InitTypes
  <1>2. phase = "committed" /\ index = Validator /\ \A v \in Validator : power[v] = 1 /\ ~jailed[v]
    BY DEF Init
  <1>3. RecordsInv /\ JailedInv /\ StageInv /\ EndInv
    BY <1>2 DEF RecordsInv, Visited, Past, Finishing, JailedInv, StageInv, EndInv
  <1>4. ASSUME NEW v \in Validator PROVE Pos(v) = v - 1
    <2>1. v \in Int /\ v >= 1 /\ v <= N /\ N \in Int
      BY ExportAssumption DEF Validator
    <2>2. \A w \in Validator : Stronger(w, v) <=> w < v
      BY <1>2 DEF Stronger
    <2>3. Preceding(index, byPower, v) = {w \in Validator : w < v}
      BY <1>2, <2>2 DEF Preceding, byPower
    <2>4. {w \in Validator : w < v} = 1..(v - 1)
      BY <2>1 DEF Validator
    <2>5. Cardinality(1..(v - 1)) = v - 1
      BY <2>1, FS_Interval
    <2> QED BY <2>3, <2>4, <2>5 DEF Pos, Place
  <1>5. BondedInv
    <2>1. Top = {v \in index : power[v] > 0 /\ Pos(v) < MaxValidators}
      BY <1>1, TopIs DEF TypeOK, PowerType
    <2>2. ASSUME NEW v \in Validator PROVE bonded[v] <=> v \in Top
      <3>1. v \in Int /\ MaxValidators \in Int
        BY Validators, ExportAssumption
      <3>2. bonded[v] <=> v <= MaxValidators
        BY DEF Init
      <3> QED BY <1>2, <1>4, <2>1, <3>1, <3>2
    <2> QED BY <2>2 DEF BondedInv
  <1> QED BY <1>1, <1>3, <1>5 DEF IInv

\* The export goes from stage to stage with everything it has reset still
\* reset, and with the head of the index bonded.
THEOREM Invariance == Spec => []IInv
  <1>1. IInv /\ [Next]_vars => IInv'
    BY TypeStep, RecordsStep, JailedStep, BondedStep, StageStep, EndStep DEF IInv
  <1> QED BY <1>1, InitHolds, PTL DEF Spec

\* Every variable keeps its type; no more validators are exported than sign.
THEOREM TypeCorrect == Spec => []TypeOK
  <1>1. IInv => TypeOK
    BY DEF IInv
  <1> QED BY <1>1, Invariance, PTL

\* The list of the genesis file is the consensus set, in the order of power:
\* the stable sort by power of the address-ordered list, then the trim
\* (app/export.go:46-57).
THEOREM ExportIsConsensusSet == Spec => []ExportedSetIsConsensusSet
  <1>1. IInv => ExportedSetIsConsensusSet
    BY DEF IInv, EndInv, ExportedSetIsConsensusSet
  <1> QED BY <1>1, Invariance, PTL

\* No staking or slashing record of a prepared genesis file has a height of
\* the old chain (app/export.go:199-279).
THEOREM HeightsAreReset == Spec => []NoOldHeights
  <1>1. IInv => NoOldHeights
    <2> SUFFICES ASSUME IInv, phase = "done", request.forZeroHeight, NEW v \in Validator
                 PROVE  /\ unbHeight[v] = 0 /\ info[v] \in {0, NoInfo}
                        /\ (red[v] \cup ubd[v]) \subseteq {0}
      BY DEF NoOldHeights
    <2> QED BY DEF IInv, RecordsInv, Visited, Past, Finishing
  <1> QED BY <1>1, Invariance, PTL

\* The export panics exactly for an allow list that does not parse or leaves
\* out a validator that is bonded or next in line (app/export.go:77-80,
\* 247-249, 259-262).
THEOREM OnlyBadListsPanic == Spec => []PanicsForCause
  <1>1. ASSUME IInv, phase \in {"failed", "done"}, BadList PROVE FALSE
    <2>1. PowerType /\ index \in SUBSET Validator
      BY <1>1 DEF IInv, TypeOK, PowerType
    <2>2. request.forZeroHeight /\ Finishing
      BY <1>1 DEF BadList, Finishing
    <2>3. Malformed \notin request.jailAllowedAddrs /\ ~MeetsJailed
      BY <1>1, <2>2 DEF IInv, StageInv, Past
    <2>4. PICK v \in Validator : (bonded[v] \/ NextInLine(v)) /\ LeavesOut(v)
      BY <1>1, <2>3 DEF BadList
    <2>5. jailed[v]
      BY <1>1, <2>2, <2>4 DEF IInv, RecordsInv, Visited, Past
    <2>6. bonded[v] => v \in Top
      BY <1>1 DEF IInv, BondedInv
    <2>7. NextInLine(v)
      BY <2>1, <2>4, <2>6, TopIsNext
    <2> QED BY <2>1, <2>3, <2>5, <2>7, MeetsJailedIs
  <1>2. IInv => PanicsForCause
    BY <1>1 DEF IInv, EndInv, PanicsForCause
  <1> QED BY <1>2, Invariance, PTL

\* Who is left out by the allow list, or is jailed, is not in the genesis file
\* of a prepared export (app/export.go:247-249 with 46-57).
THEOREM NobodyLeftOutIsExported == Spec => []ExportedAreAllowed
  <1>1. ASSUME IInv, phase = "done", request.forZeroHeight, NEW v \in ToSet(exported.validators)
        PROVE  ~LeavesOut(v) /\ ~jailed[v]
    <2>1. PowerType /\ index \in SUBSET Validator /\ Finishing
      BY <1>1 DEF IInv, TypeOK, PowerType, Finishing
    <2>2. exported.validators = ConsensusSet
      BY <1>1 DEF IInv, EndInv
    <2>3. v \in Validator /\ bonded[v]
      BY <2>1, <2>2, ExportedAre
    <2>4. v \in Top
      BY <1>1, <2>3 DEF IInv, BondedInv
    <2>5. NextInLine(v) /\ ~MeetsJailed
      BY <1>1, <2>1, <2>4, TopIsNext DEF IInv, StageInv, Past
    <2>6. ~jailed[v]
      BY <2>1, <2>3, <2>5, MeetsJailedIs
    <2>7. LeavesOut(v) => jailed[v]
      BY <1>1, <2>1, <2>3 DEF IInv, RecordsInv, Visited, Past
    <2> QED BY <2>6, <2>7
  <1>2. IInv => ExportedAreAllowed
    BY <1>1 DEF ExportedAreAllowed
  <1> QED BY <1>2, Invariance, PTL
=============================================================================
