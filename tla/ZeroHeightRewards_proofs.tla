------------------------ MODULE ZeroHeightRewards_proofs ------------------------
(***************************************************************************)
(* Theorems of ZeroHeightRewards for every finite set of validators and of *)
(* delegators, every scale and any length of the chain before the export.  *)
(***************************************************************************)
EXTENDS ZeroHeightRewards, FiniteLemmas

Record == [period : 1..(MaxPeriod + 1), refs : [Period -> Nat],
           commission : Nat, outstanding : Nat]

Typed ==
  /\ phase \in {"running", "clear", "reset", "done"} \cup Loops
  /\ height \in 0..MaxHeight /\ saved \in 0..MaxHeight
  /\ dels \in SUBSET Pair
  /\ start \in [Pair -> [period : Period, height : 0..MaxHeight] \cup {NoInfo}]
  /\ slashes \in [Validator -> SUBSET Period]
  /\ rwd \in [Validator -> Record]
  /\ pool \in Nat /\ bank \in Int
  /\ owed \in [Pair -> Nat] /\ due \in [Pair -> Nat] /\ sent \in [Pair -> Nat]

TodoInv ==
  /\ phase \in {"running", "clear", "reset", "done"} => todo = {}
  /\ phase \in {"commissions", "validators"} => todo \in SUBSET Validator
  /\ phase \in {"rewards", "delegations"} => todo \in SUBSET dels

\* The chain's records are in use up to "clear", the new ones from
\* "delegations" on.
OldPhases == {"running", "commissions", "rewards", "clear"}
NewPhases == {"delegations", "reset", "done"}

\* Who has a delegation to v, and whose delegations the loop has visited.
DelsOf(v) == {d \in Delegator : <<d, v>> \in dels}
Visited(v) == {d \in Delegator : <<d, v>> \in dels /\ <<d, v>> \notin todo}

-----------------------------------------------------------------------------
(* The reference counts of a validator.                                    *)

StartsAt(v) == [d \in Delegator |-> start[<<d, v>>].period]

Starts(C, s, p) == {d \in C : s[d] = p}
NStarts(C, s, p) == Cardinality(Starts(C, s, p))
NSlashes(S, p) == Cardinality(S \cap {p})

\* The record r counts one reference for the validator itself, one for each
\* delegator of C, whose rewards count from the period s says, and one for
\* each slash event of S.
Consistent(r, C, s, S) ==
  /\ \A d \in C : s[d] \in 0..(r.period - 1)
  /\ \A d, e \in C : d # e => s[d] # s[e]
  /\ S \in SUBSET (0..(r.period - 1))
  /\ \A p \in Period :
       r.refs[p] = NStarts(C, s, p) + NSlashes(S, p) + (IF r.period = p + 1 THEN 1 ELSE 0)

\* The delegators whose references v's records count.
Counted(v) == IF phase \in OldPhases THEN DelsOf(v)
              ELSE IF phase = "validators" THEN {}
              ELSE Visited(v)

RefsInv ==
  /\ \A v \in Validator :
       IF phase = "validators" /\ v \in todo THEN \A p \in Period : rwd[v].refs[p] = 0
       ELSE Consistent(rwd[v], Counted(v), StartsAt(v), slashes[v])
  /\ \A q \in Pair : q \notin dels => start[q] = NoInfo
  /\ \A q \in dels : start[q] # NoInfo
  /\ phase \notin OldPhases => \A v \in Validator : slashes[v] = {}

\* How far the current period of a validator can have come.
PeriodInv ==
  \A v \in Validator :
    /\ phase \in {"running", "commissions"} => rwd[v].period <= MaxRunPeriod + 1
    /\ phase = "rewards" =>
         rwd[v].period <= MaxRunPeriod + 1 + Cardinality(Visited(v))
    /\ phase = "validators" /\ v \notin todo => rwd[v].period = 1
    /\ phase \in NewPhases => rwd[v].period = 1 + Cardinality(Visited(v))

-----------------------------------------------------------------------------
(* What is owed.                                                           *)

OwedTo(v) == [d \in Delegator |-> owed[<<d, v>>]]

\* The outstanding rewards of a validator cover its commission and what its
\* delegators are owed.
Covered ==
  \A v \in Validator : rwd[v].commission + SumOf(OwedTo(v), Delegator) <= rwd[v].outstanding

\* Nothing is owed to a delegation of this very block.
OwedInv ==
  /\ Covered
  /\ \A q \in Pair : q \notin dels => owed[q] = 0
  /\ phase \in OldPhases =>
       \A q \in dels : start[q].height <= height /\ (start[q].height = height => owed[q] = 0)

PaidInv ==
  /\ phase = "commissions" => due = owed
  /\ phase = "rewards" => \A q \in todo : owed[q] = due[q]
  /\ phase \in {"rewards", "clear", "validators"} \cup NewPhases =>
       \A q \in dels : phase # "rewards" \/ q \notin todo =>
         owed[q] = 0 /\ sent[q] = due[q] \div Scale

\* What the preparation has built anew.
FreshInv ==
  /\ phase \in {"validators", "delegations", "reset"} => height = 0
  /\ \A v \in Validator :
       phase \in NewPhases \/ (phase = "validators" /\ v \notin todo) =>
         rwd[v].commission = 0 /\ rwd[v].outstanding = 0
  /\ phase \in NewPhases =>
       \A q \in dels : q \notin todo => start[q].height = 0

IInv == Typed /\ TodoInv /\ RefsInv /\ PeriodInv /\ BooksBalance /\ OwedInv /\ PaidInv /\ FreshInv

-----------------------------------------------------------------------------
(* Lemmas about the records of one validator.                              *)

\* The constants, and the periods they bound.
LEMMA Constants ==
  /\ Cardinality(Delegator) \in Nat /\ MaxPeriod \in Nat /\ MaxRunPeriod \in Nat
  /\ MaxPeriod = MaxRunPeriod + Cardinality(Delegator)
  /\ Period = 0..MaxPeriod /\ Scale \in Nat /\ Scale >= 2 /\ MaxHeight \in Nat
  <1>1. Cardinality(Delegator) \in Nat
    BY RewardsAssumption, FS_CardinalityType
  <1> QED BY <1>1, RewardsAssumption DEF MaxPeriod, Period

\* The references a set of delegators makes to a period.
LEMMA StartsCount ==
  ASSUME NEW C \in SUBSET Delegator, NEW s, NEW p
  PROVE  /\ IsFiniteSet(Starts(C, s, p)) /\ NStarts(C, s, p) \in Nat
         /\ (\A d \in C : s[d] # p) => NStarts(C, s, p) = 0
  <1>1. IsFiniteSet(Starts(C, s, p))
    <2>1. Starts(C, s, p) \in SUBSET Delegator
      BY DEF Starts
    <2> QED BY <2>1, RewardsAssumption, FS_Subset
  <1>2. NStarts(C, s, p) \in Nat
    BY <1>1, FS_CardinalityType DEF NStarts
  <1>3. (\A d \in C : s[d] # p) => NStarts(C, s, p) = 0
    <2> SUFFICES ASSUME \A d \in C : s[d] # p PROVE Cardinality(Starts(C, s, p)) = 0
      BY DEF NStarts
    <2>1. Starts(C, s, p) = {}
      BY DEF Starts
    <2> QED BY <2>1, FS_EmptySet
  <1> QED BY <1>1, <1>2, <1>3

\* The references of slash events.
LEMMA SlashesCount ==
  ASSUME NEW S, NEW p
  PROVE  /\ NSlashes(S, p) = (IF p \in S THEN 1 ELSE 0)
         /\ NSlashes(S, p) \in Nat
  <1>1. CASE p \in S
    <2>1. S \cap {p} = {p}
      BY <1>1
    <2> QED BY <1>1, <2>1, FS_Singleton DEF NSlashes
  <1>2. CASE p \notin S
    <2>1. S \cap {p} = {}
      BY <1>2
    <2> QED BY <1>2, <2>1, FS_EmptySet DEF NSlashes
  <1> QED BY <1>1, <1>2

\* IncrementValidatorPeriod moves the validator's own reference to the period
\* that ends, which nothing refers to yet.
LEMMA IncrementKeeps ==
  ASSUME NEW r \in Record, NEW C \in SUBSET Delegator, NEW s, NEW S,
         Consistent(r, C, s, S), r.period <= MaxPeriod
  PROVE  /\ MayIncrement(r) /\ Incremented(r) \in Record
         /\ Incremented(r).period = r.period + 1
         /\ Incremented(r).commission = r.commission
         /\ Incremented(r).outstanding = r.outstanding
         /\ Consistent(Incremented(r), C, s, S)
         /\ \A d \in C : s[d] # r.period
         /\ r.period \notin S
  <1> DEFINE n == r.period
             i == Incremented(r)
             f == [r.refs EXCEPT ![n - 1] = @ - 1, ![n] = 1]
  <1>1. n \in Nat /\ n >= 1 /\ n - 1 \in Period /\ n \in Period /\ n <= MaxPeriod
    BY Constants DEF Record
  <1>2. r.refs \in [Period -> Nat]
    BY DEF Record
  <1>3. (\A d \in C : s[d] # n) /\ n \notin S
    BY <1>1 DEF Consistent
  <1>4. r.refs[n - 1] >= 1
    <2>1. r.refs[n - 1] = NStarts(C, s, n - 1) + NSlashes(S, n - 1) + 1
      BY <1>1 DEF Consistent
    <2>2. NStarts(C, s, n - 1) \in Nat /\ NSlashes(S, n - 1) \in Nat
      BY StartsCount, SlashesCount
    <2> QED BY <2>1, <2>2
  <1>5. r.refs[n] = 0
    <2>1. r.refs[n] = NStarts(C, s, n) + NSlashes(S, n) + 0
      BY <1>1 DEF Consistent
    <2>2. NStarts(C, s, n) = 0 /\ NSlashes(S, n) = 0
      BY <1>3, StartsCount, SlashesCount
    <2> QED BY <2>1, <2>2
  <1>6. /\ f \in [Period -> Nat] /\ f[n - 1] = r.refs[n - 1] - 1 /\ f[n] = 1
        /\ \A p \in Period : p # n /\ p # n - 1 => f[p] = r.refs[p]
    BY <1>1, <1>2, <1>4
  <1>7. /\ i.period = n + 1 /\ i.refs = f /\ i.commission = r.commission
        /\ i.outstanding = r.outstanding /\ i \in Record
    <2>1. i = [period |-> n + 1, refs |-> f, commission |-> r.commission,
               outstanding |-> r.outstanding]
      <3>1. r = [period |-> r.period, refs |-> r.refs, commission |-> r.commission,
                 outstanding |-> r.outstanding]
        BY DEF Record
      <3>2. i = [r EXCEPT !.period = n + 1, !.refs = f]
        BY DEF Incremented
      <3> HIDE DEF n, f, i
      <3> QED BY <3>1, <3>2
    <2>2. n + 1 \in 1..(MaxPeriod + 1)
      BY <1>1, Constants
    <2>3. r.commission \in Nat /\ r.outstanding \in Nat
      BY DEF Record
    <2> HIDE DEF f, i
    <2> QED BY <1>6, <2>1, <2>2, <2>3 DEF Record
  <1> HIDE DEF f, i
  <1>8. Consistent(i, C, s, S)
    <2>1. ASSUME NEW p \in Period
          PROVE  i.refs[p] = NStarts(C, s, p) + NSlashes(S, p) + (IF i.period = p + 1 THEN 1 ELSE 0)
      <3>1. r.refs[p] = NStarts(C, s, p) + NSlashes(S, p) + (IF n = p + 1 THEN 1 ELSE 0)
        BY DEF Consistent
      <3>2. NStarts(C, s, p) \in Nat /\ NSlashes(S, p) \in Nat
        BY StartsCount, SlashesCount
      <3>3. p \in Int
        BY Constants
      <3>4. CASE p = n
        BY <1>1, <1>5, <1>6, <1>7, <3>1, <3>2, <3>4
      <3>5. CASE p = n - 1
        BY <1>1, <1>6, <1>7, <3>1, <3>2, <3>5
      <3>6. CASE p # n /\ p # n - 1
        BY <1>1, <1>6, <1>7, <3>1, <3>2, <3>3, <3>6
      <3> QED BY <3>4, <3>5, <3>6
    <2>2. \A d \in C : s[d] \in 0..(i.period - 1)
      BY <1>1, <1>7 DEF Consistent
    <2>3. S \in SUBSET (0..(i.period - 1))
      BY <1>1, <1>7 DEF Consistent
    <2>4. \A d, e \in C : d # e => s[d] # s[e]
      BY DEF Consistent
    <2> QED BY <2>1, <2>2, <2>3, <2>4 DEF Consistent
  <1>9. MayIncrement(r)
    BY <1>1, <1>2, <1>4 DEF MayIncrement
  <1> QED BY <1>3, <1>7, <1>8, <1>9 DEF i
\* What is consistent depends on the period and the reference counts, and on
\* the starting periods of the delegators counted.
LEMMA ConsistentAlike ==
  ASSUME NEW r, NEW q, NEW C \in SUBSET Delegator, NEW s, NEW t, NEW S,
         Consistent(r, C, s, S), q.period = r.period, q.refs = r.refs,
         \A d \in C : t[d] = s[d]
  PROVE  Consistent(q, C, t, S)
  <1>1. \A p : NStarts(C, t, p) = NStarts(C, s, p)
    <2> SUFFICES ASSUME NEW p PROVE Starts(C, t, p) = Starts(C, s, p)
      BY DEF NStarts
    <2> QED BY DEF Starts
  <1>2. \A p \in Period :
          q.refs[p] = NStarts(C, t, p) + NSlashes(S, p) + (IF q.period = p + 1 THEN 1 ELSE 0)
    BY <1>1 DEF Consistent
  <1>3. /\ \A d \in C : t[d] \in 0..(q.period - 1)
        /\ \A d, e \in C : d # e => t[d] # t[e]
        /\ S \in SUBSET (0..(q.period - 1))
    BY DEF Consistent
  <1> QED BY <1>2, <1>3 DEF Consistent

\* One delegator more.
LEMMA StartsJoin ==
  ASSUME NEW C \in SUBSET Delegator, NEW d \in Delegator \ C, NEW s, NEW t, NEW p,
         \A e \in C : t[e] = s[e]
  PROVE  NStarts(C \cup {d}, t, p) = NStarts(C, s, p) + (IF t[d] = p THEN 1 ELSE 0)
  <1>1. IsFiniteSet(Starts(C, s, p)) /\ Cardinality(Starts(C, s, p)) \in Nat
    BY StartsCount DEF NStarts
  <1>2. CASE t[d] = p
    <2>1. Starts(C \cup {d}, t, p) = Starts(C, s, p) \cup {d} /\ d \notin Starts(C, s, p)
      BY <1>2 DEF Starts
    <2> QED BY <1>1, <1>2, <2>1, FS_AddElement DEF NStarts
  <1>3. CASE t[d] # p
    <2>1. Starts(C \cup {d}, t, p) = Starts(C, s, p)
      BY <1>3 DEF Starts
    <2> QED BY <1>1, <1>3, <2>1 DEF NStarts
  <1> QED BY <1>2, <1>3

\* A period at most one delegator starts at.
LEMMA StartsAtMostOne ==
  ASSUME NEW C \in SUBSET Delegator, NEW s, NEW p, \A d, e \in C : d # e => s[d] # s[e]
  PROVE  NStarts(C, s, p) <= 1
  <1>1. CASE Starts(C, s, p) = {}
    BY <1>1, FS_EmptySet DEF NStarts
  <1>2. CASE Starts(C, s, p) # {}
    <2>1. PICK d \in C : s[d] = p
      BY <1>2 DEF Starts
    <2>2. Starts(C, s, p) = {d}
      BY <2>1 DEF Starts
    <2> QED BY <2>2, FS_Singleton DEF NStarts
  <1> QED BY <1>1, <1>2

\* The counts stay below the limits of the type, and of the hooks.
LEMMA CountsAreBounded ==
  ASSUME NEW r \in Record, NEW C \in SUBSET Delegator, NEW s, NEW S, Consistent(r, C, s, S)
  PROVE  \A p \in Period : r.refs[p] \in 0..3
  <1> TAKE p \in Period
  <1>1. r.refs[p] = NStarts(C, s, p) + NSlashes(S, p) + (IF r.period = p + 1 THEN 1 ELSE 0)
    BY DEF Consistent
  <1>2. NStarts(C, s, p) \in Nat /\ NStarts(C, s, p) <= 1
    BY StartsCount, StartsAtMostOne DEF Consistent
  <1>3. NSlashes(S, p) \in {0, 1}
    BY SlashesCount
  <1> QED BY <1>1, <1>2, <1>3

\* The delegator d joins those of C, starting at a period n of its own.
JoinsAt(C, d, s, t, n) ==
  /\ d \in Delegator \ C /\ t[d] = n
  /\ \A e \in C : t[e] = s[e] /\ s[e] # n

\* initializeDelegation: a delegator more refers to the last ended period.
LEMMA ReferenceKeeps ==
  ASSUME NEW r \in Record, NEW C \in SUBSET Delegator, NEW d, NEW s, NEW t, NEW S,
         Consistent(r, C, s, S), JoinsAt(C, d, s, t, r.period - 1)
  PROVE  /\ MayReference(r) /\ Referenced(r) \in Record
         /\ Referenced(r).period = r.period
         /\ Referenced(r).commission = r.commission
         /\ Referenced(r).outstanding = r.outstanding
         /\ Consistent(Referenced(r), C \cup {d}, t, S)
  <1> DEFINE n == r.period - 1
             i == Referenced(r)
             f == [r.refs EXCEPT ![n] = @ + 1]
  <1>0. d \in Delegator \ C /\ t[d] = n /\ \A e \in C : t[e] = s[e] /\ s[e] # n
    BY DEF JoinsAt
  <1>1. n \in Period /\ n \in Nat /\ r.period = n + 1 /\ r.refs \in [Period -> Nat]
    BY Constants DEF Record
  <1>2. r.refs[n] = NSlashes(S, n) + 1
    <2>1. r.refs[n] = NStarts(C, s, n) + NSlashes(S, n) + 1
      BY <1>1 DEF Consistent
    <2>2. NStarts(C, s, n) = 0 /\ NSlashes(S, n) \in Nat
      BY <1>0, StartsCount, SlashesCount
    <2> QED BY <2>1, <2>2
  <1>3. MayReference(r)
    <2>1. NSlashes(S, n) \in {0, 1}
      BY SlashesCount
    <2> QED BY <1>2, <2>1 DEF MayReference
  <1>4. /\ f \in [Period -> Nat] /\ f[n] = r.refs[n] + 1
        /\ \A p \in Period : p # n => f[p] = r.refs[p]
    BY <1>1
  <1>5. i = [period |-> n + 1, refs |-> f, commission |-> r.commission,
             outstanding |-> r.outstanding]
    <2>1. r = [period |-> n + 1, refs |-> r.refs, commission |-> r.commission,
               outstanding |-> r.outstanding]
      BY <1>1 DEF Record
    <2>2. i = [r EXCEPT !.refs = f]
      BY DEF Referenced
    <2> HIDE DEF n, f, i
    <2> QED BY <2>1, <2>2
  <1> HIDE DEF f, i
  <1>6. i \in Record
    <2>1. r.commission \in Nat /\ r.outstanding \in Nat /\ n + 1 \in 1..(MaxPeriod + 1)
      BY <1>1 DEF Record
    <2> QED BY <1>4, <1>5, <2>1 DEF Record
  <1> DEFINE D == C \cup {d}
  <1>7. ASSUME NEW p \in Period
        PROVE  i.refs[p] = NStarts(D, t, p) + NSlashes(S, p) + (IF i.period = p + 1 THEN 1 ELSE 0)
    <2>1. r.refs[p] = NStarts(C, s, p) + NSlashes(S, p) + (IF n + 1 = p + 1 THEN 1 ELSE 0)
      BY <1>1 DEF Consistent
    <2>2. NStarts(C, s, p) \in Nat /\ NSlashes(S, p) \in Nat
      BY StartsCount, SlashesCount
    <2>3. NStarts(D, t, p) = NStarts(C, s, p) + (IF n = p THEN 1 ELSE 0)
      BY <1>0, StartsJoin
    <2> HIDE DEF D, n
    <2>4. CASE p = n
      BY <1>1, <1>4, <1>5, <2>1, <2>2, <2>3, <2>4
    <2>5. CASE p # n
      BY <1>1, <1>4, <1>5, <2>1, <2>2, <2>3, <2>5
    <2> QED BY <2>4, <2>5
  <1>8. /\ \A e \in D : t[e] \in 0..(i.period - 1)
        /\ \A e, g \in D : e # g => t[e] # t[g]
        /\ S \in SUBSET (0..(i.period - 1))
    <2>1. i.period = r.period
      BY <1>1, <1>5
    <2> QED BY <1>0, <1>1, <2>1 DEF Consistent
  <1>9. Consistent(i, D, t, S)
    <2> HIDE DEF D
    <2> QED BY <1>7, <1>8 DEF Consistent
  <1> QED BY <1>1, <1>3, <1>5, <1>6, <1>9 DEF i

\* withdrawDelegationRewards: a delegator gives its reference up.
LEMMA ReleaseKeeps ==
  ASSUME NEW r \in Record, NEW C \in SUBSET Delegator, NEW d \in C, NEW s, NEW S,
         Consistent(r, C, s, S)
  PROVE  /\ MayRelease(r, s[d]) /\ Released(r, s[d]) \in Record
         /\ Released(r, s[d]).period = r.period
         /\ Released(r, s[d]).commission = r.commission
         /\ Released(r, s[d]).outstanding = r.outstanding
         /\ Consistent(Released(r, s[d]), C \ {d}, s, S)
  <1> DEFINE m == s[d]
             i == Released(r, m)
             f == [r.refs EXCEPT ![m] = @ - 1]
             D == C \ {d}
  <1>1. /\ r.period \in Nat /\ r.refs \in [Period -> Nat] /\ m \in Nat /\ m \in Period
        /\ m # r.period
    <2>1. r.period \in 1..(MaxPeriod + 1) /\ m \in 0..(r.period - 1)
      BY DEF Record, Consistent
    <2> QED BY <2>1, Constants DEF Record
  <1>2. ASSUME NEW p \in Period
        PROVE  NStarts(C, s, p) = NStarts(D, s, p) + (IF m = p THEN 1 ELSE 0)
    <2>1. D \in SUBSET Delegator /\ d \in Delegator \ D /\ D \cup {d} = C
      OBVIOUS
    <2> HIDE DEF D
    <2> QED BY <2>1, StartsJoin
  <1>3. ASSUME NEW p \in Period
        PROVE  /\ r.refs[p] = NStarts(C, s, p) + NSlashes(S, p) + (IF r.period = p + 1 THEN 1 ELSE 0)
               /\ NStarts(D, s, p) \in Nat /\ NSlashes(S, p) \in Nat
    BY StartsCount, SlashesCount DEF Consistent
  <1>4. r.refs[m] >= 1
    <2> HIDE DEF m, D
    <2> QED BY <1>1, <1>2, <1>3
  <1>5. /\ f \in [Period -> Nat] /\ f[m] = r.refs[m] - 1
        /\ \A p \in Period : p # m => f[p] = r.refs[p]
    <2> HIDE DEF m
    <2> QED BY <1>1, <1>4
  <1>6. i = [period |-> r.period, refs |-> f, commission |-> r.commission,
             outstanding |-> r.outstanding]
    <2>1. r = [period |-> r.period, refs |-> r.refs, commission |-> r.commission,
               outstanding |-> r.outstanding]
      BY DEF Record
    <2>2. i = [r EXCEPT !.refs = f]
      BY DEF Released
    <2> HIDE DEF m, f, i
    <2> QED BY <2>1, <2>2
  <1> HIDE DEF m, f, i
  <1>7. i \in Record
    BY <1>5, <1>6 DEF Record
  <1>8. ASSUME NEW p \in Period
        PROVE  i.refs[p] = NStarts(D, s, p) + NSlashes(S, p) + (IF i.period = p + 1 THEN 1 ELSE 0)
    <2> HIDE DEF D
    <2>1. CASE p = m
      BY <1>1, <1>2, <1>3, <1>5, <1>6, <2>1
    <2>2. CASE p # m
      BY <1>1, <1>2, <1>3, <1>5, <1>6, <2>2
    <2> QED BY <2>1, <2>2
  <1>9. Consistent(i, D, s, S)
    <2>1. /\ \A e \in D : s[e] \in 0..(i.period - 1)
          /\ \A e, g \in D : e # g => s[e] # s[g]
          /\ S \in SUBSET (0..(i.period - 1))
      BY <1>6 DEF Consistent
    <2> HIDE DEF D
    <2> QED BY <1>8, <2>1 DEF Consistent
  <1>10. MayRelease(r, m)
    BY <1>1, <1>4 DEF MayRelease
  <1> QED BY <1>6, <1>7, <1>9, <1>10 DEF i, m

\* A slash event refers to the last ended period.
LEMMA SlashKeeps ==
  ASSUME NEW r \in Record, NEW C \in SUBSET Delegator, NEW s, NEW S,
         Consistent(r, C, s, S), r.period - 1 \notin S
  PROVE  /\ Referenced(r) \in Record
         /\ Referenced(r).period = r.period
         /\ Referenced(r).commission = r.commission
         /\ Referenced(r).outstanding = r.outstanding
         /\ Consistent(Referenced(r), C, s, S \cup {r.period - 1})
  <1> DEFINE n == r.period - 1
             i == Referenced(r)
             f == [r.refs EXCEPT ![n] = @ + 1]
             T == S \cup {n}
  <1>1. n \in Period /\ n \in Nat /\ r.period = n + 1 /\ r.refs \in [Period -> Nat]
    BY Constants DEF Record
  <1>2. /\ f \in [Period -> Nat] /\ f[n] = r.refs[n] + 1
        /\ \A p \in Period : p # n => f[p] = r.refs[p]
    BY <1>1
  <1>3. i = [period |-> n + 1, refs |-> f, commission |-> r.commission,
             outstanding |-> r.outstanding]
    <2>1. r = [period |-> n + 1, refs |-> r.refs, commission |-> r.commission,
               outstanding |-> r.outstanding]
      BY <1>1 DEF Record
    <2>2. i = [r EXCEPT !.refs = f]
      BY DEF Referenced
    <2> HIDE DEF n, f, i
    <2> QED BY <2>1, <2>2
  <1> HIDE DEF f, i
  <1>4. i \in Record
    <2>1. r.commission \in Nat /\ r.outstanding \in Nat /\ n + 1 \in 1..(MaxPeriod + 1)
      BY <1>1 DEF Record
    <2> QED BY <1>2, <1>3, <2>1 DEF Record
  <1>5. ASSUME NEW p \in Period
        PROVE  i.refs[p] = NStarts(C, s, p) + NSlashes(T, p) + (IF i.period = p + 1 THEN 1 ELSE 0)
    <2>1. r.refs[p] = NStarts(C, s, p) + NSlashes(S, p) + (IF n + 1 = p + 1 THEN 1 ELSE 0)
      BY <1>1 DEF Consistent
    <2>2. NStarts(C, s, p) \in Nat
      BY StartsCount
    <2>3. NSlashes(S, p) = (IF p \in S THEN 1 ELSE 0) /\ NSlashes(T, p) = (IF p \in T THEN 1 ELSE 0)
      BY SlashesCount
    <2>4. (p \in T <=> p \in S \/ p = n) /\ n \notin S
      OBVIOUS
    <2> HIDE DEF T, n
    <2>5. CASE p = n
      BY <1>1, <1>2, <1>3, <2>1, <2>2, <2>3, <2>4, <2>5
    <2>6. CASE p # n
      BY <1>1, <1>2, <1>3, <2>1, <2>2, <2>3, <2>4, <2>6
    <2> QED BY <2>5, <2>6
  <1>6. Consistent(i, C, s, T)
    <2>1. /\ \A e \in C : s[e] \in 0..(i.period - 1)
          /\ \A e, g \in C : e # g => s[e] # s[g]
          /\ T \in SUBSET (0..(i.period - 1))
      <3>1. i.period = r.period /\ n \in 0..(i.period - 1)
        BY <1>1, <1>3
      <3>2. S \in SUBSET (0..(i.period - 1))
        BY <3>1 DEF Consistent
      <3>3. T \in SUBSET (0..(i.period - 1))
        BY <3>1, <3>2
      <3> QED BY <3>1, <3>3 DEF Consistent
    <2> HIDE DEF T
    <2> QED BY <1>5, <2>1 DEF Consistent
  <1> QED BY <1>1, <1>3, <1>4, <1>6 DEF i
-----------------------------------------------------------------------------
(* Lemmas about the operations of x/distribution.                          *)

\* The delegator d starts anew at n, the others of C stay where they are.
Restarts(C, d, s, t, n) == t[d] = n /\ \A e \in C \ {d} : t[e] = s[e]

\* A delegation is initialized: the counters allow it, and count it.
LEMMA NewDelegationCounts ==
  ASSUME NEW r \in Record, NEW C \in SUBSET Delegator, NEW d \in Delegator \ C,
         NEW s, NEW t, NEW S, Consistent(r, C, s, S), r.period <= MaxPeriod,
         Restarts(C, d, s, t, r.period)
  PROVE  LET i == Incremented(r) q == Referenced(i) IN
         /\ MayIncrement(r) /\ MayReference(i) /\ i.period - 1 = r.period
         /\ q \in Record /\ q.period = r.period + 1
         /\ q.commission = r.commission /\ q.outstanding = r.outstanding
         /\ Consistent(q, C \cup {d}, t, S)
  <1> DEFINE i == Incremented(r) q == Referenced(i)
  <1>1. /\ MayIncrement(r) /\ i \in Record /\ i.period = r.period + 1
        /\ i.commission = r.commission /\ i.outstanding = r.outstanding
        /\ Consistent(i, C, s, S) /\ \A e \in C : s[e] # r.period
    BY IncrementKeeps
  <1>2. i.period - 1 = r.period
    BY <1>1 DEF Record
  <1> HIDE DEF i
  <1>3. /\ MayReference(i) /\ q \in Record /\ q.period = i.period
        /\ q.commission = i.commission /\ q.outstanding = i.outstanding
        /\ Consistent(q, C \cup {d}, t, S)
    <2>1. JoinsAt(C, d, s, t, i.period - 1)
      BY <1>1, <1>2 DEF JoinsAt, Restarts
    <2> HIDE DEF q
    <2>2. /\ MayReference(i) /\ Referenced(i) \in Record /\ Referenced(i).period = i.period
          /\ Referenced(i).commission = i.commission
          /\ Referenced(i).outstanding = i.outstanding
          /\ Consistent(Referenced(i), C \cup {d}, t, S)
      BY <1>1, <2>1, ReferenceKeeps
    <2> QED BY <2>2 DEF q
  <1> QED BY <1>1, <1>2, <1>3 DEF i

\* A slash: the counters count it.
LEMMA SlashCounts ==
  ASSUME NEW r \in Record, NEW C \in SUBSET Delegator, NEW s, NEW S,
         Consistent(r, C, s, S), r.period <= MaxPeriod
  PROVE  LET q == Referenced(Incremented(r)) IN
         /\ q \in Record /\ q.period = r.period + 1
         /\ q.commission = r.commission /\ q.outstanding = r.outstanding
         /\ Consistent(q, C, s, S \cup {r.period})
  <1> DEFINE i == Incremented(r) q == Referenced(i)
  <1>1. /\ i \in Record /\ i.period = r.period + 1
        /\ i.commission = r.commission /\ i.outstanding = r.outstanding
        /\ Consistent(i, C, s, S) /\ r.period \notin S
    BY IncrementKeeps
  <1>2. i.period - 1 = r.period
    BY <1>1 DEF Record
  <1> HIDE DEF i
  <1>3. /\ q \in Record /\ q.period = i.period
        /\ q.commission = i.commission /\ q.outstanding = i.outstanding
        /\ Consistent(q, C, s, S \cup {i.period - 1})
    BY <1>1, <1>2, SlashKeeps
  <1> QED BY <1>1, <1>2, <1>3 DEF i

\* A delegation withdraws what it is paid, and starts anew.
LEMMA WithdrawCounts ==
  ASSUME NEW d \in Delegator, NEW v \in Validator, NEW C \in SUBSET Delegator, d \in C,
         NEW s, NEW t, NEW S, rwd[v] \in Record, Consistent(rwd[v], C, s, S),
         s[d] = start[<<d, v>>].period, rwd[v].period <= MaxPeriod,
         Reward(d, v) \in Nat, Reward(d, v) <= rwd[v].outstanding,
         Restarts(C, d, s, t, rwd[v].period)
  PROVE  LET a == AfterWithdraw(d, v) q == Referenced(a) IN
         /\ start[<<d, v>>] # NoInfo => MayWithdraw(d, v)
         /\ a \in Record /\ a.period = rwd[v].period + 1 /\ a.period - 1 = rwd[v].period
         /\ a.commission = rwd[v].commission
         /\ a.outstanding = rwd[v].outstanding - Reward(d, v)
         /\ Consistent(a, C \ {d}, s, S)
         /\ MayReference(a)
         /\ q \in Record /\ q.period = a.period
         /\ q.commission = a.commission /\ q.outstanding = a.outstanding
         /\ Consistent(q, C, t, S)
  <1> DEFINE r == rwd[v] i == Incremented(r) R == Reward(d, v)
             o == [i EXCEPT !.outstanding = @ - R]
             a == AfterWithdraw(d, v) q == Referenced(a)
  <1>1. /\ MayIncrement(r) /\ i \in Record /\ i.period = r.period + 1
        /\ i.commission = r.commission /\ i.outstanding = r.outstanding
        /\ Consistent(i, C, s, S) /\ \A e \in C : s[e] # r.period
    BY IncrementKeeps
  <1>2. /\ o \in Record /\ o.period = i.period /\ o.commission = i.commission
        /\ o.outstanding = i.outstanding - R /\ o.refs = i.refs
    <2>1. i.outstanding - R \in Nat
      BY <1>1 DEF Record
    <2> HIDE DEF i, R
    <2> QED BY <1>1, <2>1 DEF Record
  <1> HIDE DEF i, o
  <1>3. Consistent(o, C, s, S)
    BY <1>1, <1>2, ConsistentAlike
  <1>4. MayRelease(i, s[d])
    BY <1>1, ReleaseKeeps
  <1>5. a = Released(o, s[d])
    BY DEF AfterWithdraw, o, i
  <1>6. /\ a \in Record /\ a.period = o.period /\ a.commission = o.commission
        /\ a.outstanding = o.outstanding /\ Consistent(a, C \ {d}, s, S)
    <2> DEFINE l == Released(o, s[d])
    <2>1. /\ l \in Record /\ l.period = o.period /\ l.commission = o.commission
          /\ l.outstanding = o.outstanding /\ Consistent(l, C \ {d}, s, S)
      BY <1>2, <1>3, ReleaseKeeps
    <2> HIDE DEF a
    <2> QED BY <1>5, <2>1
  <1>7. a.period - 1 = r.period
    BY <1>1, <1>2, <1>6 DEF Record
  <1>8. start[<<d, v>>] # NoInfo => MayWithdraw(d, v)
    BY <1>1, <1>4 DEF MayWithdraw, i
  <1> HIDE DEF a
  <1>9. /\ MayReference(a) /\ q \in Record /\ q.period = a.period
        /\ q.commission = a.commission /\ q.outstanding = a.outstanding
        /\ Consistent(q, C, t, S)
    <2> DEFINE D == C \ {d}
    <2>1. D \cup {d} = C /\ d \in Delegator \ D /\ D \in SUBSET Delegator
      OBVIOUS
    <2>2. JoinsAt(D, d, s, t, a.period - 1)
      BY <1>1, <1>7 DEF JoinsAt, Restarts
    <2>3. Consistent(a, D, s, S)
      BY <1>6
    <2> HIDE DEF D, q
    <2>4. /\ MayReference(a) /\ Referenced(a) \in Record /\ Referenced(a).period = a.period
          /\ Referenced(a).commission = a.commission
          /\ Referenced(a).outstanding = a.outstanding
          /\ Consistent(Referenced(a), D \cup {d}, t, S)
      BY <1>6, <2>1, <2>2, <2>3, ReferenceKeeps
    <2> QED BY <2>1, <2>4 DEF q
  <1> QED BY <1>1, <1>2, <1>6, <1>7, <1>8, <1>9 DEF a
-----------------------------------------------------------------------------
(* Lemmas about the books.                                                 *)

\* Whole coins and fractions.
LEMMA CoinsAndFractions ==
  ASSUME NEW n \in Nat
  PROVE  /\ n \div Scale \in Nat /\ n % Scale \in Nat
         /\ n = (n \div Scale) * Scale + (n % Scale)
  BY Constants

\* A product with a difference.
LEMMA Minus ==
  ASSUME NEW a \in Int, NEW b \in Int, NEW c \in Int
  PROVE  (a - b) * c = a * c - b * c /\ (a + b) * c = a * c + b * c /\ a * c \in Int
  OBVIOUS

\* Arithmetic of the counters.
LEMMA TwiceAtLeast ==
  ASSUME NEW n \in Nat, n >= 1, NEW m \in Nat, m >= 2
  PROVE  1 + n <= n * m
  <1>1. n * (m - 2) \in Nat
    OBVIOUS
  <1>2. n * m = n * (m - 2) + 2 * n
    OBVIOUS
  <1> QED BY <1>1, <1>2

\* Arithmetic of the books.
LEMMA NotNegative ==
  ASSUME NEW n \in Int, NEW m \in Nat, m >= 2, n * m >= 0
  PROVE  n \in Nat
  OBVIOUS

\* The total the books are about is a sum over the validators.
LEMMA TotalIsSum ==
  ASSUME NEW S, NEW f \in [S -> Int]
  PROVE  Total(f) = SumOf(f, S)
  <1>1. DOMAIN f = S
    OBVIOUS
  <1> QED BY <1>1 DEF Total, SumOf

\* What a validator owes its delegators.
LEMMA OwedIsCovered ==
  ASSUME Typed, Covered, NEW d \in Delegator, NEW v \in Validator
  PROVE  /\ owed[<<d, v>>] \in Nat /\ rwd[v].outstanding \in Nat
         /\ owed[<<d, v>>] <= rwd[v].outstanding
         /\ rwd[v].commission \in Nat /\ rwd[v].commission <= rwd[v].outstanding
  <1>1. OwedTo(v) \in [Delegator -> Nat] /\ OwedTo(v)[d] = owed[<<d, v>>]
    BY DEF OwedTo, Typed, Pair
  <1>2. OwedTo(v)[d] <= SumOf(OwedTo(v), Delegator) /\ SumOf(OwedTo(v), Delegator) \in Nat
    BY <1>1, RewardsAssumption, SumBounds, SumIsNat
  <1>3. rwd[v].commission \in Nat /\ rwd[v].outstanding \in Nat /\ owed[<<d, v>>] \in Nat
    BY DEF Typed, Record, Pair
  <1>4. rwd[v].commission + SumOf(OwedTo(v), Delegator) <= rwd[v].outstanding
    BY DEF Covered
  <1> QED BY <1>1, <1>2, <1>3, <1>4

\* The books stay balanced when the outstanding rewards of one validator change
\* by as much as the account and the pool do.
LEMMA BooksMove ==
  ASSUME NEW v \in Validator, rwd \in [Validator -> Record], rwd' \in [Validator -> Record],
         BooksBalance, bank \in Int, bank' \in Int, pool \in Int, pool' \in Int,
         \A w \in Validator \ {v} : rwd'[w].outstanding = rwd[w].outstanding,
         bank' * Scale - pool' = bank * Scale - pool + (rwd'[v].outstanding - rwd[v].outstanding)
  PROVE  BooksBalance'
  <1> DEFINE f == Outstanding h == [w \in Validator |-> rwd'[w].outstanding]
  <1>1. f \in [Validator -> Int] /\ h \in [Validator -> Int]
    BY DEF Outstanding, Record
  <1>2. f[v] = rwd[v].outstanding /\ h[v] = rwd'[v].outstanding /\ \A w \in Validator \ {v} : h[w] = f[w]
    BY DEF Outstanding
  <1>3. BooksBalance' <=> bank' * Scale = pool' + Total(h)
    BY DEF BooksBalance, Outstanding
  <1>4. bank * Scale = pool + Total(f)
    BY DEF BooksBalance
  <1> HIDE DEF f, h
  <1>5. Total(f) = SumOf(f, Validator) /\ Total(h) = SumOf(h, Validator)
    BY <1>1, TotalIsSum
  <1>6. SumOf(h, Validator) = SumOf(f, Validator) + (h[v] - f[v]) /\ SumOf(f, Validator) \in Int
    BY <1>1, <1>2, RewardsAssumption, SumChanges
  <1>7. bank * Scale \in Int /\ bank' * Scale \in Int /\ f[v] \in Int /\ h[v] \in Int
    BY <1>1, Constants
  <1> DEFINE a == bank * Scale b == bank' * Scale
  <1> HIDE DEF a, b
  <1>8. b - pool' = a - pool + (h[v] - f[v]) /\ a = pool + Total(f)
    BY <1>2, <1>4 DEF a, b
  <1>9. b = pool' + Total(h)
    BY <1>5, <1>6, <1>7, <1>8 DEF a, b
  <1> QED BY <1>3, <1>9 DEF b

\* The outstanding rewards of one validator and what it owes to one delegator
\* change by the same amount; its commission may change too.
LEMMA CoverMoves ==
  ASSUME NEW d \in Delegator, NEW v \in Validator, Typed, Typed', Covered,
         \A w \in Validator \ {v} : rwd'[w] = rwd[w],
         \A q \in Pair : q # <<d, v>> => owed'[q] = owed[q],
         rwd'[v].outstanding - rwd[v].outstanding =
           (rwd'[v].commission - rwd[v].commission) + (owed'[<<d, v>>] - owed[<<d, v>>])
  PROVE  Covered'
  <1> SUFFICES ASSUME NEW w \in Validator
               PROVE  rwd'[w].commission + SumOf(OwedTo(w)', Delegator) <= rwd'[w].outstanding
    BY DEF Covered
  <1> DEFINE f == OwedTo(w) h == OwedTo(w)'
  <1>1. f \in [Delegator -> Int] /\ h \in [Delegator -> Int]
    BY DEF OwedTo, Typed, Pair
  <1>2. \A e \in Delegator : f[e] = owed[<<e, w>>] /\ h[e] = owed'[<<e, w>>]
    BY DEF OwedTo
  <1>3. \A e \in Delegator \ {d} : h[e] = f[e]
    BY <1>2 DEF Pair
  <1>4. rwd[w].commission + SumOf(f, Delegator) <= rwd[w].outstanding
    BY DEF Covered
  <1>5. /\ rwd[w].commission \in Int /\ rwd[w].outstanding \in Int
        /\ rwd'[w].commission \in Int /\ rwd'[w].outstanding \in Int
    BY DEF Typed, Record
  <1>6. f[d] \in Int /\ h[d] \in Int
    BY <1>1
  <1> HIDE DEF f, h
  <1>7. SumOf(h, Delegator) = SumOf(f, Delegator) + (h[d] - f[d]) /\ SumOf(f, Delegator) \in Int
    BY <1>1, <1>3, RewardsAssumption, SumChanges
  <1>8. CASE w = v
    <2>1. rwd'[v].outstanding - rwd[v].outstanding = (rwd'[v].commission - rwd[v].commission) + (h[d] - f[d])
      BY <1>2, <1>8
    <2> QED BY <1>4, <1>5, <1>6, <1>7, <1>8, <2>1 DEF h
  <1>9. CASE w # v
    <2>1. h[d] = f[d] /\ rwd'[w] = rwd[w]
      BY <1>2, <1>9 DEF Pair
    <2> QED BY <1>4, <1>5, <1>6, <1>7, <2>1 DEF h
  <1> QED BY <1>8, <1>9
\* The same for a commission alone: whatever is owed stays.
LEMMA CommissionCovers ==
  ASSUME NEW v \in Validator, Typed, Typed', Covered, owed' = owed,
         \A w \in Validator \ {v} : rwd'[w] = rwd[w],
         rwd'[v].outstanding - rwd[v].outstanding = rwd'[v].commission - rwd[v].commission
  PROVE  Covered'
  <1> SUFFICES ASSUME NEW w \in Validator
               PROVE  rwd'[w].commission + SumOf(OwedTo(w)', Delegator) <= rwd'[w].outstanding
    BY DEF Covered
  <1> DEFINE f == OwedTo(w)
  <1>1. OwedTo(w)' = f
    BY DEF OwedTo
  <1>2. f \in [Delegator -> Nat]
    BY DEF OwedTo, Typed, Pair
  <1>3. rwd[w].commission + SumOf(f, Delegator) <= rwd[w].outstanding
    BY DEF Covered
  <1>4. /\ rwd[w].commission \in Int /\ rwd[w].outstanding \in Int
        /\ rwd'[w].commission \in Int /\ rwd'[w].outstanding \in Int
    BY DEF Typed, Record
  <1> HIDE DEF f
  <1>5. SumOf(f, Delegator) \in Nat
    BY <1>2, RewardsAssumption, SumIsNat
  <1> DEFINE n == SumOf(f, Delegator)
  <1> HIDE DEF n
  <1>6. rwd'[w].outstanding - rwd[w].outstanding = rwd'[w].commission - rwd[w].commission
    BY <1>4
  <1>7. rwd'[w].commission + n <= rwd'[w].outstanding
    BY <1>3, <1>4, <1>5, <1>6 DEF n
  <1> QED BY <1>1, <1>7 DEF n

\* A payment of what a delegation is owed keeps the books balanced.
LEMMA PaymentBalances ==
  ASSUME NEW d \in Delegator, NEW v \in Validator, Typed, Covered, BooksBalance,
         PayOut(d, v), Reward(d, v) = owed[<<d, v>>], rwd' \in [Validator -> Record],
         \A w \in Validator \ {v} : rwd'[w] = rwd[w],
         rwd'[v].outstanding = rwd[v].outstanding - Reward(d, v)
  PROVE  /\ bank' \in Int /\ pool' \in Nat /\ owed' \in [Pair -> Nat]
         /\ owed'[<<d, v>>] = 0 /\ \A q \in Pair : q # <<d, v>> => owed'[q] = owed[q]
         /\ BooksBalance'
  <1> DEFINE R == Reward(d, v) coins == R \div Scale frac == R % Scale
  <1>1. R \in Nat /\ <<d, v>> \in Pair /\ owed \in [Pair -> Nat]
    BY OwedIsCovered DEF Pair, Typed
  <1>2. bank \in Int /\ pool \in Nat /\ rwd \in [Validator -> Record]
    BY DEF Typed
  <1>3. bank' = bank - coins /\ pool' = pool + frac /\ owed' = [owed EXCEPT ![<<d, v>>] = @ - R]
    BY DEF PayOut
  <1>4. owed'[<<d, v>>] = 0 /\ owed' \in [Pair -> Nat] /\ \A q \in Pair : q # <<d, v>> => owed'[q] = owed[q]
    <2> HIDE DEF R
    <2>1. owed[<<d, v>>] - R = 0
      BY <1>1 DEF R
    <2> QED BY <1>1, <1>3, <2>1
  <1> HIDE DEF R
  <1>5. coins \in Nat /\ frac \in Nat /\ R = coins * Scale + frac
    BY <1>1, CoinsAndFractions
  <1> HIDE DEF coins, frac
  <1>6. bank' \in Int /\ pool' \in Nat
    BY <1>2, <1>3, <1>5
  <1>7. bank' * Scale = bank * Scale - coins * Scale /\ bank * Scale \in Int /\ coins * Scale \in Int
    BY <1>2, <1>3, <1>5, Minus, Constants
  <1>8. rwd'[v].outstanding - rwd[v].outstanding = 0 - R
    <2>1. rwd[v].outstanding \in Int
      BY <1>2 DEF Record
    <2> QED BY <1>1, <2>1 DEF R
  <1>9. bank' * Scale - pool' = bank * Scale - pool + (rwd'[v].outstanding - rwd[v].outstanding)
    <2> DEFINE a == bank' * Scale b == bank * Scale c == coins * Scale
    <2> HIDE DEF a, b, c
    <2>1. a = b - c /\ b \in Int /\ c \in Int /\ R = c + frac
      BY <1>5, <1>7 DEF a, b, c
    <2>2. a - pool' = b - pool + (0 - R)
      BY <1>2, <1>3, <1>5, <1>6, <2>1
    <2> QED BY <1>8, <2>2 DEF a, b
  <1>10. BooksBalance'
    BY <1>2, <1>6, <1>9, BooksMove
  <1> QED BY <1>4, <1>6, <1>10

\* A record whose amounts are replaced.
LEMMA MoneyOfRecord ==
  ASSUME NEW r, NEW p, NEW f, NEW c, NEW o, NEW x, NEW y, NEW q,
         r = [period |-> p, refs |-> f, commission |-> c, outstanding |-> o],
         q = [r EXCEPT !.commission = x, !.outstanding = y]
  PROVE  q = [period |-> p, refs |-> f, commission |-> x, outstanding |-> y]
  OBVIOUS

\* WithdrawValidatorCommission takes the whole coins of the commission.
LEMMA CommissionBalances ==
  ASSUME NEW v \in Validator, Typed, Covered, BooksBalance, WithdrawCommission(v)
  PROVE  /\ bank' \in Int /\ rwd' \in [Validator -> Record]
         /\ \A w \in Validator \ {v} : rwd'[w] = rwd[w]
         /\ \A w \in Validator : rwd'[w].period = rwd[w].period /\ rwd'[w].refs = rwd[w].refs
         /\ rwd'[v].outstanding - rwd[v].outstanding = rwd'[v].commission - rwd[v].commission
         /\ BooksBalance'
  <1> DEFINE r == rwd[v] coins == r.commission \div Scale frac == r.commission % Scale
             q == [period |-> r.period, refs |-> r.refs, commission |-> frac,
                   outstanding |-> r.outstanding - coins * Scale]
  <1>1. /\ bank \in Int /\ pool \in Int /\ rwd \in [Validator -> Record]
        /\ r.commission \in Nat /\ r.outstanding \in Nat /\ r.period \in 1..(MaxPeriod + 1)
        /\ r.refs \in [Period -> Nat]
    BY DEF Typed, Record
  <1>2. r.commission <= r.outstanding
    <2>1. OwedTo(v) \in [Delegator -> Nat]
      BY DEF OwedTo, Typed, Pair
    <2>2. SumOf(OwedTo(v), Delegator) \in Nat
      BY <2>1, RewardsAssumption, SumIsNat
    <2>3. r.commission + SumOf(OwedTo(v), Delegator) <= r.outstanding
      BY DEF Covered
    <2> QED BY <1>1, <2>2, <2>3
  <1>3. bank' = bank - coins /\ rwd' = [rwd EXCEPT ![v] = q] /\ pool' = pool
    <2>1. r = [period |-> r.period, refs |-> r.refs, commission |-> r.commission,
               outstanding |-> r.outstanding]
      BY <1>1 DEF Record
    <2>2. rwd' = [rwd EXCEPT ![v] = [r EXCEPT !.commission = frac, !.outstanding = r.outstanding - coins * Scale]]
      BY <1>1 DEF WithdrawCommission
    <2>3. [r EXCEPT !.commission = frac, !.outstanding = r.outstanding - coins * Scale] = q
      <3> DEFINE o == r.outstanding - coins * Scale
      <3> DEFINE e == [r EXCEPT !.commission = frac, !.outstanding = o]
      <3> HIDE DEF r, frac, o
      <3>1. e = [r EXCEPT !.commission = frac, !.outstanding = o]
        OBVIOUS
      <3> HIDE DEF e
      <3>2. e = [period |-> r.period, refs |-> r.refs, commission |-> frac, outstanding |-> o]
        BY <2>1, <3>1, MoneyOfRecord
      <3> QED BY <3>2 DEF e, o
    <2> QED BY <2>2, <2>3 DEF WithdrawCommission
  <1>4. coins \in Nat /\ frac \in Nat /\ r.commission = coins * Scale + frac
    BY <1>1, CoinsAndFractions
  <1> DEFINE c == coins * Scale
  <1>5. c \in Nat
    <2> HIDE DEF coins, frac
    <2> QED BY <1>4, Constants
  <1>6. bank' * Scale = bank * Scale - c /\ bank * Scale \in Int /\ bank' \in Int
    <2> HIDE DEF coins, frac, q
    <2>1. bank' = bank - coins /\ bank \in Int /\ coins \in Int /\ Scale \in Int
      BY <1>1, <1>3, <1>4, Constants
    <2> QED BY <2>1, Minus
  <1> HIDE DEF coins, frac
  <1>7. r.commission = c + frac
    BY <1>4
  <1> HIDE DEF c
  <1>8. q \in Record
    <2>1. r.outstanding - c \in Nat
      BY <1>1, <1>2, <1>4, <1>5, <1>7
    <2> QED BY <1>1, <1>4, <2>1 DEF Record, c
  <1>9. /\ rwd' \in [Validator -> Record] /\ rwd'[v] = q
        /\ \A w \in Validator \ {v} : rwd'[w] = rwd[w]
    <2> HIDE DEF q
    <2> QED BY <1>1, <1>3, <1>8
  <1>10. \A w \in Validator : rwd'[w].period = rwd[w].period /\ rwd'[w].refs = rwd[w].refs
    BY <1>9
  <1>11. rwd'[v].outstanding = r.outstanding - c /\ rwd'[v].commission = frac
    BY <1>9 DEF c
  <1>12. rwd'[v].outstanding - rwd[v].outstanding = rwd'[v].commission - rwd[v].commission
    <2> DEFINE o == r.outstanding m == r.commission
    <2> HIDE DEF o, m
    <2>1. o \in Int /\ m = c + frac /\ c \in Int /\ frac \in Int
      BY <1>1, <1>4, <1>5, <1>7 DEF o, m
    <2>2. (o - c) - o = frac - m
      BY <2>1
    <2> QED BY <1>11, <2>2 DEF o, m
  <1>13. BooksBalance'
    <2>1. \A w \in Validator \ {v} : rwd'[w].outstanding = rwd[w].outstanding
      BY <1>9
    <2>2. bank' * Scale - pool' = bank * Scale - pool + (rwd'[v].outstanding - rwd[v].outstanding)
      <3> DEFINE a == bank' * Scale b == bank * Scale o == r.outstanding
      <3> HIDE DEF a, b, o
      <3>1. a = b - c /\ b \in Int /\ c \in Int /\ o \in Int
        BY <1>1, <1>5, <1>6 DEF a, b, o
      <3>2. a - pool = b - pool + ((o - c) - o)
        BY <1>1, <3>1
      <3> QED BY <1>3, <1>11, <3>2 DEF a, b, o
    <2>3. pool' \in Int
      BY <1>1, <1>3
    <2> QED BY <1>1, <1>6, <1>9, <2>1, <2>2, <2>3, BooksMove
  <1> QED BY <1>6, <1>9, <1>10, <1>12, <1>13
-----------------------------------------------------------------------------
(* Lemmas about the operations, on the state.                              *)

\* An operation on another validator leaves the counts of w as they are.
LEMMA OtherCounts ==
  ASSUME NEW w \in Validator, NEW C \in SUBSET Delegator,
         Consistent(rwd[w], C, StartsAt(w), slashes[w]),
         rwd'[w].period = rwd[w].period, rwd'[w].refs = rwd[w].refs, slashes'[w] = slashes[w],
         \A e \in Delegator : start'[<<e, w>>] = start[<<e, w>>]
  PROVE  Consistent(rwd'[w], C, StartsAt(w)', slashes'[w])
  <1> DEFINE t == StartsAt(w)'
  <1>1. \A e \in C : t[e] = StartsAt(w)[e]
    BY DEF StartsAt
  <1> HIDE DEF t
  <1>2. Consistent(rwd'[w], C, t, slashes[w])
    BY <1>1, ConsistentAlike
  <1> QED BY <1>2 DEF t

\* The hooks that create a delegation.
LEMMA NewDelegationStep ==
  ASSUME NEW d \in Delegator, NEW v \in Validator, NEW C \in SUBSET Delegator, d \notin C,
         Typed, Consistent(rwd[v], C, StartsAt(v), slashes[v]), rwd[v].period <= MaxPeriod
  PROVE  /\ MayIncrement(rwd[v]) /\ MayReference(Incremented(rwd[v]))
         /\ NewDelegation(d, v) =>
              /\ rwd' \in [Validator -> Record]
              /\ start' \in [Pair -> [period : Period, height : 0..MaxHeight] \cup {NoInfo}]
              /\ \A w \in Validator \ {v} : rwd'[w] = rwd[w]
              /\ \A q \in Pair : q # <<d, v>> => start'[q] = start[q]
              /\ rwd'[v].period = rwd[v].period + 1
              /\ rwd'[v].commission = rwd[v].commission
              /\ rwd'[v].outstanding = rwd[v].outstanding
              /\ start'[<<d, v>>] # NoInfo /\ start'[<<d, v>>].height = height
              /\ Consistent(rwd'[v], C \cup {d}, StartsAt(v)', slashes[v])
  <1> DEFINE r == rwd[v] i == Incremented(r) q == Referenced(i) s == StartsAt(v)
             t == [e \in Delegator |-> IF e = d THEN r.period ELSE s[e]]
  <1>1. /\ r \in Record /\ rwd \in [Validator -> Record]
        /\ start \in [Pair -> [period : Period, height : 0..MaxHeight] \cup {NoInfo}]
        /\ height \in 0..MaxHeight /\ <<d, v>> \in Pair /\ r.period \in Period
    <2>1. /\ r \in Record /\ rwd \in [Validator -> Record]
          /\ start \in [Pair -> [period : Period, height : 0..MaxHeight] \cup {NoInfo}]
          /\ height \in 0..MaxHeight /\ <<d, v>> \in Pair
      BY DEF Typed, Pair
    <2>2. r.period \in Period
      BY <2>1, Constants DEF Record
    <2> QED BY <2>1, <2>2
  <1>2. Restarts(C, d, s, t, r.period)
    BY DEF Restarts
  <1>3. d \in Delegator \ C
    OBVIOUS
  <1> HIDE DEF s, t, r
  <1>4. /\ MayIncrement(r) /\ MayReference(i) /\ i.period - 1 = r.period
        /\ q \in Record /\ q.period = r.period + 1
        /\ q.commission = r.commission /\ q.outstanding = r.outstanding
        /\ Consistent(q, C \cup {d}, t, slashes[v])
    BY <1>1, <1>2, <1>3, NewDelegationCounts DEF r, s
  <1>5. ASSUME NewDelegation(d, v)
        PROVE  /\ rwd' \in [Validator -> Record]
               /\ start' \in [Pair -> [period : Period, height : 0..MaxHeight] \cup {NoInfo}]
               /\ \A w \in Validator \ {v} : rwd'[w] = rwd[w]
               /\ \A p \in Pair : p # <<d, v>> => start'[p] = start[p]
               /\ rwd'[v] = q
               /\ start'[<<d, v>>] # NoInfo /\ start'[<<d, v>>].height = height
               /\ Consistent(rwd'[v], C \cup {d}, StartsAt(v)', slashes[v])
    <2> HIDE DEF i, q
    <2>1. rwd' = [rwd EXCEPT ![v] = q] /\ start' = [start EXCEPT ![<<d, v>>] = StartInfo(i)]
      BY <1>5 DEF NewDelegation, r, i, q
    <2>2. StartInfo(i) = [period |-> r.period, height |-> height]
      BY <1>4 DEF StartInfo
    <2>3. StartInfo(i) \in [period : Period, height : 0..MaxHeight]
      BY <1>1, <2>2
    <2>4. StartInfo(i) # NoInfo
      <3>1. StartInfo(i).period >= 0
        BY <1>1, <2>2, Constants
      <3> QED BY <3>1 DEF NoInfo
    <2>5. /\ rwd' \in [Validator -> Record] /\ rwd'[v] = q
          /\ \A w \in Validator \ {v} : rwd'[w] = rwd[w]
      BY <1>1, <1>4, <2>1
    <2>6. /\ start' \in [Pair -> [period : Period, height : 0..MaxHeight] \cup {NoInfo}]
          /\ \A p \in Pair : p # <<d, v>> => start'[p] = start[p]
          /\ start'[<<d, v>>] = StartInfo(i)
      BY <1>1, <2>1, <2>3
    <2>7. \A e \in C \cup {d} : StartsAt(v)'[e] = t[e]
      <3> SUFFICES ASSUME NEW e \in Delegator PROVE start'[<<e, v>>].period = t[e]
        BY DEF StartsAt
      <3>1. CASE e = d
        BY <1>2, <2>2, <2>6, <3>1 DEF Restarts
      <3>2. CASE e # d
        <4>1. start'[<<e, v>>] = start[<<e, v>>]
          BY <2>6, <3>2 DEF Pair
        <4> QED BY <3>2, <4>1 DEF t, s, StartsAt
      <3> QED BY <3>1, <3>2
    <2>8. Consistent(rwd'[v], C \cup {d}, StartsAt(v)', slashes[v])
      <3> DEFINE D == C \cup {d} u == StartsAt(v)'
      <3>1. D \in SUBSET Delegator
        OBVIOUS
      <3>2. \A e \in D : u[e] = t[e]
        BY <2>7
      <3>3. Consistent(q, D, t, slashes[v])
        BY <1>4
      <3> HIDE DEF D, u
      <3>4. Consistent(rwd'[v], D, u, slashes[v])
        BY <2>5, <3>1, <3>2, <3>3, ConsistentAlike
      <3> QED BY <3>4 DEF D, u
    <2> QED BY <2>2, <2>4, <2>5, <2>6, <2>8
  <1> QED BY <1>4, <1>5 DEF r

\* What a delegation is paid is what it is owed.
LEMMA RewardIsOwed ==
  ASSUME NEW d \in Delegator, NEW v \in Validator, Typed, OwedInv, phase \in OldPhases,
         <<d, v>> \in dels
  PROVE  /\ Reward(d, v) = owed[<<d, v>>] /\ Reward(d, v) \in Nat
         /\ Reward(d, v) <= rwd[v].outstanding
  <1>1. /\ owed[<<d, v>>] \in Nat /\ rwd[v].outstanding \in Nat
        /\ owed[<<d, v>>] <= rwd[v].outstanding
    BY OwedIsCovered DEF OwedInv
  <1>2. start[<<d, v>>].height = height => owed[<<d, v>>] = 0
    BY DEF OwedInv
  <1> QED BY <1>1, <1>2 DEF Reward, Least

\* The state after a withdrawal, without the new start and with it.
LEMMA WithdrawStep ==
  ASSUME NEW d \in Delegator, NEW v \in Validator, Typed, OwedInv, phase \in OldPhases,
         <<d, v>> \in dels, start[<<d, v>>] # NoInfo,
         Consistent(rwd[v], DelsOf(v), StartsAt(v), slashes[v]), rwd[v].period <= MaxPeriod
  PROVE  LET a == AfterWithdraw(d, v) IN
         /\ MayWithdraw(d, v) /\ MayReference(a)
         /\ a \in Record /\ a.period = rwd[v].period + 1
         /\ a.commission = rwd[v].commission
         /\ a.outstanding = rwd[v].outstanding - Reward(d, v)
         /\ Consistent(a, DelsOf(v) \ {d}, StartsAt(v), slashes[v])
         /\ WithdrawRewards(d, v) =>
              /\ rwd' \in [Validator -> Record]
              /\ start' \in [Pair -> [period : Period, height : 0..MaxHeight] \cup {NoInfo}]
              /\ \A w \in Validator \ {v} : rwd'[w] = rwd[w]
              /\ \A q \in Pair : q # <<d, v>> => start'[q] = start[q]
              /\ rwd'[v].period = rwd[v].period + 1
              /\ rwd'[v].commission = rwd[v].commission
              /\ rwd'[v].outstanding = rwd[v].outstanding - Reward(d, v)
              /\ start'[<<d, v>>] # NoInfo /\ start'[<<d, v>>].height = height
              /\ Consistent(rwd'[v], DelsOf(v), StartsAt(v)', slashes[v])
  <1> DEFINE a == AfterWithdraw(d, v) q == Referenced(a) s == StartsAt(v) r == rwd[v]
             C == DelsOf(v) t == [e \in Delegator |-> IF e = d THEN r.period ELSE s[e]]
  <1>1. /\ r \in Record /\ rwd \in [Validator -> Record]
        /\ start \in [Pair -> [period : Period, height : 0..MaxHeight] \cup {NoInfo}]
        /\ height \in 0..MaxHeight /\ <<d, v>> \in Pair /\ r.period \in Period
    <2>1. /\ r \in Record /\ rwd \in [Validator -> Record]
          /\ start \in [Pair -> [period : Period, height : 0..MaxHeight] \cup {NoInfo}]
          /\ height \in 0..MaxHeight /\ <<d, v>> \in Pair
      BY DEF Typed, Pair
    <2>2. r.period \in Period
      BY <2>1, Constants DEF Record
    <2> QED BY <2>1, <2>2
  <1>2. Restarts(C, d, s, t, r.period)
    BY DEF DelsOf, Restarts
  <1>3. C \in SUBSET Delegator /\ d \in C /\ s[d] = start[<<d, v>>].period
    BY DEF DelsOf, StartsAt
  <1>4. Reward(d, v) \in Nat /\ Reward(d, v) <= r.outstanding
    BY RewardIsOwed
  <1> HIDE DEF s, t, C, a
  <1>5. /\ MayWithdraw(d, v)
        /\ a \in Record /\ a.period = rwd[v].period + 1 /\ a.period - 1 = rwd[v].period
        /\ a.commission = rwd[v].commission
        /\ a.outstanding = rwd[v].outstanding - Reward(d, v)
        /\ Consistent(a, C \ {d}, s, slashes[v])
        /\ MayReference(a)
        /\ q \in Record /\ q.period = a.period
        /\ q.commission = a.commission /\ q.outstanding = a.outstanding
        /\ Consistent(q, C, t, slashes[v])
    BY <1>1, <1>2, <1>3, <1>4, WithdrawCounts DEF a, s, C
  <1>6. ASSUME WithdrawRewards(d, v)
        PROVE  /\ rwd' \in [Validator -> Record]
               /\ start' \in [Pair -> [period : Period, height : 0..MaxHeight] \cup {NoInfo}]
               /\ \A w \in Validator \ {v} : rwd'[w] = rwd[w]
               /\ \A p \in Pair : p # <<d, v>> => start'[p] = start[p]
               /\ rwd'[v] = q
               /\ start'[<<d, v>>] # NoInfo /\ start'[<<d, v>>].height = height
               /\ Consistent(rwd'[v], C, StartsAt(v)', slashes[v])
    <2> HIDE DEF q
    <2>1. rwd' = [rwd EXCEPT ![v] = q] /\ start' = [start EXCEPT ![<<d, v>>] = StartInfo(a)]
      BY <1>6 DEF WithdrawRewards, a, q
    <2>2. StartInfo(a) = [period |-> r.period, height |-> height]
      BY <1>5 DEF StartInfo
    <2>3. StartInfo(a) \in [period : Period, height : 0..MaxHeight]
      BY <1>1, <2>2
    <2>4. StartInfo(a) # NoInfo
      <3>1. StartInfo(a).period >= 0
        BY <1>1, <2>2, Constants
      <3> QED BY <3>1 DEF NoInfo
    <2>5. /\ rwd' \in [Validator -> Record] /\ rwd'[v] = q
          /\ \A w \in Validator \ {v} : rwd'[w] = rwd[w]
      BY <1>1, <1>5, <2>1
    <2>6. /\ start' \in [Pair -> [period : Period, height : 0..MaxHeight] \cup {NoInfo}]
          /\ \A p \in Pair : p # <<d, v>> => start'[p] = start[p]
          /\ start'[<<d, v>>] = StartInfo(a)
      BY <1>1, <2>1, <2>3
    <2>7. \A e \in C : StartsAt(v)'[e] = t[e]
      <3> SUFFICES ASSUME NEW e \in Delegator PROVE start'[<<e, v>>].period = t[e]
        BY <1>3 DEF StartsAt
      <3>1. CASE e = d
        BY <1>2, <2>2, <2>6, <3>1 DEF Restarts
      <3>2. CASE e # d
        <4>1. start'[<<e, v>>] = start[<<e, v>>]
          BY <2>6, <3>2 DEF Pair
        <4> QED BY <3>2, <4>1 DEF t, s, StartsAt
      <3> QED BY <3>1, <3>2
    <2>8. Consistent(rwd'[v], C, StartsAt(v)', slashes[v])
      <3> DEFINE u == StartsAt(v)'
      <3>1. \A e \in C : u[e] = t[e]
        BY <2>7
      <3> HIDE DEF u
      <3>2. Consistent(rwd'[v], C, u, slashes[v])
        BY <1>3, <1>5, <2>5, <3>1, ConsistentAlike
      <3> QED BY <3>2 DEF u
    <2> QED BY <2>2, <2>4, <2>5, <2>6, <2>8
  <1> QED BY <1>5, <1>6 DEF s, C, a
-----------------------------------------------------------------------------
(* The chain before the export keeps the invariant.                        *)

\* What is left to show of a step of the running chain.
LEMMA RunningStep ==
  ASSUME IInv, phase = "running", UNCHANGED <<phase, todo>>, Typed',
         \A w \in Validator : Consistent(rwd'[w], DelsOf(w)', StartsAt(w)', slashes'[w]),
         \A w \in Validator : rwd'[w].period <= MaxRunPeriod + 1,
         BooksBalance', Covered',
         \A q \in Pair : IF q \in dels'
                         THEN /\ start'[q] # NoInfo /\ start'[q].height <= height'
                              /\ start'[q].height = height' => owed'[q] = 0
                         ELSE start'[q] = NoInfo /\ owed'[q] = 0
  PROVE  IInv'
  <1>1. phase' = "running" /\ todo' = {} /\ dels' \in SUBSET Pair
    BY DEF IInv, TodoInv, Typed
  <1>2. TodoInv'
    BY <1>1 DEF TodoInv
  <1>3. RefsInv'
    <2>1. \A w \in Validator : Counted(w)' = DelsOf(w)'
      BY <1>1 DEF Counted, OldPhases
    <2> QED BY <1>1, <2>1 DEF RefsInv, OldPhases
  <1>4. PeriodInv'
    BY <1>1 DEF PeriodInv, NewPhases
  <1>5. OwedInv'
    BY <1>1 DEF OwedInv
  <1>6. PaidInv'
    BY <1>1 DEF PaidInv, NewPhases
  <1>7. FreshInv'
    BY <1>1 DEF FreshInv, NewPhases
  <1> QED BY <1>2, <1>3, <1>4, <1>5, <1>6, <1>7 DEF IInv

\* The invariant, of a phase the chain's records are in use in.
LEMMA OldState ==
  ASSUME IInv, phase \in OldPhases
  PROVE  /\ Typed /\ BooksBalance /\ OwedInv /\ Covered
         /\ \A v \in Validator : Consistent(rwd[v], DelsOf(v), StartsAt(v), slashes[v])
         /\ \A q \in Pair : IF q \in dels
                            THEN /\ start[q] # NoInfo /\ start[q].height <= height
                                 /\ start[q].height = height => owed[q] = 0
                            ELSE start[q] = NoInfo /\ owed[q] = 0
  <1>1. \A v \in Validator : Consistent(rwd[v], DelsOf(v), StartsAt(v), slashes[v])
    BY DEF IInv, RefsInv, OldPhases, Counted
  <1>2. \A q \in Pair : IF q \in dels
                        THEN /\ start[q] # NoInfo /\ start[q].height <= height
                             /\ start[q].height = height => owed[q] = 0
                        ELSE start[q] = NoInfo /\ owed[q] = 0
    BY DEF IInv, RefsInv, OwedInv
  <1> QED BY <1>1, <1>2 DEF IInv, OwedInv

\* A validator with room for a further period.
LEMMA Room ==
  ASSUME NEW v \in Validator, Typed, HasRoom(v)
  PROVE  rwd[v].period <= MaxPeriod /\ rwd[v].period + 1 <= MaxRunPeriod + 1
  BY Constants DEF HasRoom, Typed, Record

\* The outstanding rewards and the commission do not change.
LEMMA SameMoney ==
  ASSUME rwd \in [Validator -> Record], rwd' \in [Validator -> Record],
         \A w \in Validator : /\ rwd'[w].outstanding = rwd[w].outstanding
                              /\ rwd'[w].commission = rwd[w].commission,
         UNCHANGED <<pool, bank, owed>>
  PROVE  (BooksBalance => BooksBalance') /\ (Covered => Covered')
  <1>1. Outstanding' = Outstanding
    BY DEF Outstanding
  <1>2. BooksBalance => BooksBalance'
    BY <1>1 DEF BooksBalance
  <1>3. \A w \in Validator : OwedTo(w)' = OwedTo(w)
    BY DEF OwedTo
  <1>4. Covered => Covered'
    BY <1>3 DEF Covered
  <1> QED BY <1>2, <1>4

\* Delegate keeps the invariant.
LEMMA DelegateStep ==
  ASSUME IInv, NEW d \in Delegator, NEW v \in Validator, Delegate(d, v)
  PROVE  IInv'
  <1>1. /\ phase = "running" /\ HasRoom(v) /\ <<d, v>> \notin dels /\ NewDelegation(d, v)
        /\ dels' = dels \cup {<<d, v>>} /\ <<d, v>> \in Pair
        /\ UNCHANGED <<phase, todo, height, saved, slashes, pool, bank, owed, due, sent>>
    BY DEF Delegate, NewDelegation, Pair
  <1>2. phase \in OldPhases
    BY <1>1 DEF OldPhases
  <1>3. /\ Typed /\ BooksBalance /\ OwedInv /\ Covered
        /\ \A w \in Validator : Consistent(rwd[w], DelsOf(w), StartsAt(w), slashes[w])
        /\ \A q \in Pair : IF q \in dels
                            THEN /\ start[q] # NoInfo /\ start[q].height <= height
                                 /\ start[q].height = height => owed[q] = 0
                            ELSE start[q] = NoInfo /\ owed[q] = 0
    BY <1>2, OldState
  <1>4. DelsOf(v) \in SUBSET Delegator /\ d \notin DelsOf(v)
    BY <1>1 DEF DelsOf
  <1>5. /\ rwd' \in [Validator -> Record]
        /\ start' \in [Pair -> [period : Period, height : 0..MaxHeight] \cup {NoInfo}]
        /\ \A w \in Validator \ {v} : rwd'[w] = rwd[w]
        /\ \A q \in Pair : q # <<d, v>> => start'[q] = start[q]
        /\ rwd'[v].period = rwd[v].period + 1
        /\ rwd'[v].commission = rwd[v].commission
        /\ rwd'[v].outstanding = rwd[v].outstanding
        /\ start'[<<d, v>>] # NoInfo /\ start'[<<d, v>>].height = height
        /\ Consistent(rwd'[v], DelsOf(v) \cup {d}, StartsAt(v)', slashes[v])
    BY <1>1, <1>3, <1>4, Room, NewDelegationStep
  <1>6. Typed'
    BY <1>1, <1>3, <1>5 DEF Typed
  <1>7. ASSUME NEW w \in Validator
        PROVE  Consistent(rwd'[w], DelsOf(w)', StartsAt(w)', slashes'[w])
    <2>1. CASE w = v
      <3>1. DelsOf(v)' = DelsOf(v) \cup {d}
        BY <1>1 DEF DelsOf
      <3> QED BY <1>1, <1>5, <2>1, <3>1
    <2>2. CASE w # v
      <3>1. DelsOf(w)' = DelsOf(w) /\ DelsOf(w) \in SUBSET Delegator
        BY <1>1, <2>2 DEF DelsOf
      <3>2. rwd'[w] = rwd[w] /\ \A e \in Delegator : start'[<<e, w>>] = start[<<e, w>>]
        BY <1>5, <2>2 DEF Pair
      <3> QED BY <1>1, <1>3, <3>1, <3>2, OtherCounts
    <2> QED BY <2>1, <2>2
  <1>8. \A w \in Validator : rwd'[w].period <= MaxRunPeriod + 1
    BY <1>1, <1>3, <1>5, Room DEF IInv, PeriodInv
  <1>9. BooksBalance' /\ Covered'
    BY <1>1, <1>3, <1>5, SameMoney DEF Typed
  <1>10. \A q \in Pair : IF q \in dels'
                         THEN /\ start'[q] # NoInfo /\ start'[q].height <= height'
                              /\ start'[q].height = height' => owed'[q] = 0
                         ELSE start'[q] = NoInfo /\ owed'[q] = 0
    <2>1. height \in Int
      BY <1>3 DEF Typed
    <2> QED BY <1>1, <1>3, <1>5, <2>1
  <1> QED BY <1>1, <1>6, <1>7, <1>8, <1>9, <1>10, RunningStep
\* Claim keeps the invariant.
LEMMA ClaimStep ==
  ASSUME IInv, NEW d \in Delegator, NEW v \in Validator, Claim(d, v)
  PROVE  IInv'
  <1>1. /\ phase = "running" /\ HasRoom(v) /\ <<d, v>> \in dels /\ WithdrawRewards(d, v)
        /\ PayOut(d, v) /\ <<d, v>> \in Pair
        /\ UNCHANGED <<phase, todo, height, saved, dels, slashes, due, sent>>
    BY DEF Claim, WithdrawRewards, Pair
  <1>2. phase \in OldPhases
    BY <1>1 DEF OldPhases
  <1>3. /\ Typed /\ BooksBalance /\ OwedInv /\ Covered
        /\ \A w \in Validator : Consistent(rwd[w], DelsOf(w), StartsAt(w), slashes[w])
        /\ \A q \in Pair : IF q \in dels
                            THEN /\ start[q] # NoInfo /\ start[q].height <= height
                                 /\ start[q].height = height => owed[q] = 0
                            ELSE start[q] = NoInfo /\ owed[q] = 0
    BY <1>2, OldState
  <1>4. /\ rwd' \in [Validator -> Record]
        /\ start' \in [Pair -> [period : Period, height : 0..MaxHeight] \cup {NoInfo}]
        /\ \A w \in Validator \ {v} : rwd'[w] = rwd[w]
        /\ \A q \in Pair : q # <<d, v>> => start'[q] = start[q]
        /\ rwd'[v].period = rwd[v].period + 1
        /\ rwd'[v].commission = rwd[v].commission
        /\ rwd'[v].outstanding = rwd[v].outstanding - Reward(d, v)
        /\ start'[<<d, v>>] # NoInfo /\ start'[<<d, v>>].height = height
        /\ Consistent(rwd'[v], DelsOf(v), StartsAt(v)', slashes[v])
    <2>1. start[<<d, v>>] # NoInfo
      BY <1>1, <1>3
    <2> QED BY <1>1, <1>2, <1>3, <2>1, Room, WithdrawStep
  <1>5. Reward(d, v) = owed[<<d, v>>] /\ owed[<<d, v>>] \in Nat
    BY <1>1, <1>2, <1>3, RewardIsOwed
  <1>6. /\ bank' \in Int /\ pool' \in Nat /\ owed' \in [Pair -> Nat]
        /\ owed'[<<d, v>>] = 0 /\ \A q \in Pair : q # <<d, v>> => owed'[q] = owed[q]
        /\ BooksBalance'
    BY <1>1, <1>3, <1>4, <1>5, PaymentBalances
  <1>7. Typed'
    BY <1>1, <1>3, <1>4, <1>6 DEF Typed
  <1>8. Covered'
    <2>1. rwd[v].outstanding \in Int /\ rwd[v].commission \in Int
      BY <1>3 DEF Typed, Record
    <2>2. rwd'[v].outstanding - rwd[v].outstanding =
            (rwd'[v].commission - rwd[v].commission) + (owed'[<<d, v>>] - owed[<<d, v>>])
      BY <1>4, <1>5, <1>6, <2>1
    <2> QED BY <1>3, <1>4, <1>6, <1>7, <2>2, CoverMoves
  <1>9. ASSUME NEW w \in Validator
        PROVE  Consistent(rwd'[w], DelsOf(w)', StartsAt(w)', slashes'[w])
    <2>1. DelsOf(w)' = DelsOf(w) /\ DelsOf(w) \in SUBSET Delegator
      BY <1>1 DEF DelsOf
    <2>2. CASE w = v
      BY <1>1, <1>4, <2>1, <2>2
    <2>3. CASE w # v
      <3>1. rwd'[w] = rwd[w] /\ \A e \in Delegator : start'[<<e, w>>] = start[<<e, w>>]
        BY <1>4, <2>3 DEF Pair
      <3> QED BY <1>1, <1>3, <2>1, <3>1, OtherCounts
    <2> QED BY <2>2, <2>3
  <1>10. \A w \in Validator : rwd'[w].period <= MaxRunPeriod + 1
    BY <1>1, <1>3, <1>4, Room DEF IInv, PeriodInv
  <1>11. \A q \in Pair : IF q \in dels'
                         THEN /\ start'[q] # NoInfo /\ start'[q].height <= height'
                              /\ start'[q].height = height' => owed'[q] = 0
                         ELSE start'[q] = NoInfo /\ owed'[q] = 0
    <2>1. height \in Int
      BY <1>3 DEF Typed
    <2> QED BY <1>1, <1>3, <1>4, <1>6, <2>1
  <1> QED BY <1>1, <1>6, <1>7, <1>8, <1>9, <1>10, <1>11, RunningStep

\* Undelegate keeps the invariant.
LEMMA UndelegateStep ==
  ASSUME IInv, NEW d \in Delegator, NEW v \in Validator, Undelegate(d, v)
  PROVE  IInv'
  <1> DEFINE a == AfterWithdraw(d, v)
  <1>1. /\ phase = "running" /\ HasRoom(v) /\ <<d, v>> \in dels
        /\ PayOut(d, v) /\ <<d, v>> \in Pair /\ dels' = dels \ {<<d, v>>}
        /\ rwd' = [rwd EXCEPT ![v] = a] /\ start' = [start EXCEPT ![<<d, v>>] = NoInfo]
        /\ UNCHANGED <<phase, todo, height, saved, slashes, due, sent>>
    BY DEF Undelegate, Pair
  <1>2. phase \in OldPhases
    BY <1>1 DEF OldPhases
  <1>3. /\ Typed /\ BooksBalance /\ OwedInv /\ Covered
        /\ \A w \in Validator : Consistent(rwd[w], DelsOf(w), StartsAt(w), slashes[w])
        /\ \A q \in Pair : IF q \in dels
                            THEN /\ start[q] # NoInfo /\ start[q].height <= height
                                 /\ start[q].height = height => owed[q] = 0
                            ELSE start[q] = NoInfo /\ owed[q] = 0
    BY <1>2, OldState
  <1>4. /\ a \in Record /\ a.period = rwd[v].period + 1
        /\ a.commission = rwd[v].commission
        /\ a.outstanding = rwd[v].outstanding - Reward(d, v)
        /\ Consistent(a, DelsOf(v) \ {d}, StartsAt(v), slashes[v])
    <2>1. start[<<d, v>>] # NoInfo
      BY <1>1, <1>3
    <2> QED BY <1>1, <1>2, <1>3, <2>1, Room, WithdrawStep
  <1> HIDE DEF a
  <1>5. Reward(d, v) = owed[<<d, v>>] /\ owed[<<d, v>>] \in Nat
    BY <1>1, <1>2, <1>3, RewardIsOwed
  <1>6. rwd' \in [Validator -> Record] /\ rwd'[v] = a /\ \A w \in Validator \ {v} : rwd'[w] = rwd[w]
    BY <1>1, <1>3, <1>4 DEF Typed
  <1>7. /\ start' \in [Pair -> [period : Period, height : 0..MaxHeight] \cup {NoInfo}]
        /\ start'[<<d, v>>] = NoInfo /\ \A q \in Pair : q # <<d, v>> => start'[q] = start[q]
    BY <1>1, <1>3 DEF Typed
  <1>8. /\ bank' \in Int /\ pool' \in Nat /\ owed' \in [Pair -> Nat]
        /\ owed'[<<d, v>>] = 0 /\ \A q \in Pair : q # <<d, v>> => owed'[q] = owed[q]
        /\ BooksBalance'
    BY <1>1, <1>3, <1>4, <1>5, <1>6, PaymentBalances
  <1>9. Typed'
    BY <1>1, <1>3, <1>6, <1>7, <1>8 DEF Typed
  <1>10. Covered'
    <2>1. rwd[v].outstanding \in Int /\ rwd[v].commission \in Int
      BY <1>3 DEF Typed, Record
    <2>2. rwd'[v].outstanding - rwd[v].outstanding =
            (rwd'[v].commission - rwd[v].commission) + (owed'[<<d, v>>] - owed[<<d, v>>])
      BY <1>4, <1>5, <1>6, <1>8, <2>1
    <2> QED BY <1>3, <1>6, <1>8, <1>9, <2>2, CoverMoves
  <1>11. ASSUME NEW w \in Validator
         PROVE  Consistent(rwd'[w], DelsOf(w)', StartsAt(w)', slashes'[w])
    <2>1. CASE w = v
      <3> DEFINE D == DelsOf(v) \ {d} u == StartsAt(v)'
      <3>1. DelsOf(v)' = D /\ D \in SUBSET Delegator
        BY <1>1 DEF DelsOf
      <3>2. \A e \in D : u[e] = StartsAt(v)[e]
        BY <1>7 DEF StartsAt, Pair, DelsOf
      <3>3. Consistent(a, D, StartsAt(v), slashes[v])
        BY <1>4
      <3> HIDE DEF D, u
      <3>4. Consistent(a, D, u, slashes[v])
        BY <3>1, <3>2, <3>3, ConsistentAlike
      <3> QED BY <1>1, <1>6, <2>1, <3>1, <3>4 DEF u
    <2>2. CASE w # v
      <3>1. DelsOf(w)' = DelsOf(w) /\ DelsOf(w) \in SUBSET Delegator
        BY <1>1, <2>2 DEF DelsOf
      <3>2. rwd'[w] = rwd[w] /\ \A e \in Delegator : start'[<<e, w>>] = start[<<e, w>>]
        BY <1>6, <1>7, <2>2 DEF Pair
      <3> QED BY <1>1, <1>3, <3>1, <3>2, OtherCounts
    <2> QED BY <2>1, <2>2
  <1>12. \A w \in Validator : rwd'[w].period <= MaxRunPeriod + 1
    BY <1>1, <1>3, <1>4, <1>6, Room DEF IInv, PeriodInv
  <1>13. \A q \in Pair : IF q \in dels'
                         THEN /\ start'[q] # NoInfo /\ start'[q].height <= height'
                              /\ start'[q].height = height' => owed'[q] = 0
                         ELSE start'[q] = NoInfo /\ owed'[q] = 0
    BY <1>1, <1>3, <1>7, <1>8
  <1> QED BY <1>1, <1>8, <1>9, <1>10, <1>11, <1>12, <1>13, RunningStep

\* Slash keeps the invariant.
LEMMA SlashStep ==
  ASSUME IInv, NEW v \in Validator, Slash(v)
  PROVE  IInv'
  <1> DEFINE q == Referenced(Incremented(rwd[v]))
  <1>1. /\ phase = "running" /\ HasRoom(v) /\ rwd' = [rwd EXCEPT ![v] = q]
        /\ slashes' = [slashes EXCEPT ![v] = @ \cup {rwd[v].period}]
        /\ UNCHANGED <<phase, todo, height, saved, dels, start, pool, bank, owed, due, sent>>
    BY DEF Slash
  <1>2. phase \in OldPhases
    BY <1>1 DEF OldPhases
  <1>3. /\ Typed /\ BooksBalance /\ OwedInv /\ Covered
        /\ \A w \in Validator : Consistent(rwd[w], DelsOf(w), StartsAt(w), slashes[w])
        /\ \A p \in Pair : IF p \in dels
                            THEN /\ start[p] # NoInfo /\ start[p].height <= height
                                 /\ start[p].height = height => owed[p] = 0
                            ELSE start[p] = NoInfo /\ owed[p] = 0
    BY <1>2, OldState
  <1>4. rwd[v] \in Record /\ DelsOf(v) \in SUBSET Delegator /\ rwd[v].period <= MaxPeriod
    BY <1>1, <1>3, Room DEF Typed, DelsOf
  <1>5. /\ q \in Record /\ q.period = rwd[v].period + 1
        /\ q.commission = rwd[v].commission /\ q.outstanding = rwd[v].outstanding
        /\ Consistent(q, DelsOf(v), StartsAt(v), slashes[v] \cup {rwd[v].period})
    BY <1>3, <1>4, SlashCounts
  <1> HIDE DEF q
  <1>6. rwd' \in [Validator -> Record] /\ rwd'[v] = q /\ \A w \in Validator \ {v} : rwd'[w] = rwd[w]
    BY <1>1, <1>3, <1>5 DEF Typed
  <1>7. /\ slashes' \in [Validator -> SUBSET Period]
        /\ slashes'[v] = slashes[v] \cup {rwd[v].period}
        /\ \A w \in Validator \ {v} : slashes'[w] = slashes[w]
    <2>1. rwd[v].period \in Period
      BY <1>4, Constants DEF Record
    <2> QED BY <1>1, <1>3, <2>1 DEF Typed
  <1>8. Typed'
    BY <1>1, <1>3, <1>6, <1>7 DEF Typed
  <1>9. ASSUME NEW w \in Validator
        PROVE  Consistent(rwd'[w], DelsOf(w)', StartsAt(w)', slashes'[w])
    <2>1. DelsOf(w)' = DelsOf(w) /\ StartsAt(w)' = StartsAt(w)
      BY <1>1 DEF DelsOf, StartsAt
    <2>2. CASE w = v
      BY <1>5, <1>6, <1>7, <2>1, <2>2
    <2>3. CASE w # v
      BY <1>3, <1>6, <1>7, <2>1, <2>3
    <2> QED BY <2>2, <2>3
  <1>10. \A w \in Validator : rwd'[w].period <= MaxRunPeriod + 1
    BY <1>1, <1>3, <1>5, <1>6, Room DEF IInv, PeriodInv
  <1>11. BooksBalance' /\ Covered'
    BY <1>1, <1>3, <1>5, <1>6, SameMoney DEF Typed
  <1> QED BY <1>1, <1>3, <1>8, <1>9, <1>10, <1>11, RunningStep

\* The validator's own withdrawal of its commission.
LEMMA CommissionStep ==
  ASSUME IInv, NEW v \in Validator, phase = "running", WithdrawCommission(v),
         UNCHANGED <<phase, todo, height, saved, dels, due, sent>>
  PROVE  IInv'
  <1>1. phase \in OldPhases
    BY DEF OldPhases
  <1>2. UNCHANGED <<start, slashes, pool, owed>>
    BY DEF WithdrawCommission
  <1>3. /\ Typed /\ BooksBalance /\ OwedInv /\ Covered
        /\ \A w \in Validator : Consistent(rwd[w], DelsOf(w), StartsAt(w), slashes[w])
        /\ \A p \in Pair : IF p \in dels
                            THEN /\ start[p] # NoInfo /\ start[p].height <= height
                                 /\ start[p].height = height => owed[p] = 0
                            ELSE start[p] = NoInfo /\ owed[p] = 0
    BY <1>1, OldState
  <1>4. /\ bank' \in Int /\ rwd' \in [Validator -> Record]
        /\ \A w \in Validator \ {v} : rwd'[w] = rwd[w]
        /\ \A w \in Validator : rwd'[w].period = rwd[w].period /\ rwd'[w].refs = rwd[w].refs
        /\ rwd'[v].outstanding - rwd[v].outstanding = rwd'[v].commission - rwd[v].commission
        /\ BooksBalance'
    BY <1>3, CommissionBalances
  <1>5. Typed'
    BY <1>2, <1>3, <1>4 DEF Typed
  <1>6. Covered'
    BY <1>2, <1>3, <1>4, <1>5, CommissionCovers
  <1>7. ASSUME NEW w \in Validator
        PROVE  Consistent(rwd'[w], DelsOf(w)', StartsAt(w)', slashes'[w])
    <2>1. DelsOf(w)' = DelsOf(w) /\ DelsOf(w) \in SUBSET Delegator
      BY DEF DelsOf
    <2> QED BY <1>2, <1>3, <1>4, <2>1, OtherCounts
  <1>8. \A w \in Validator : rwd'[w].period <= MaxRunPeriod + 1
    BY <1>4 DEF IInv, PeriodInv
  <1> QED BY <1>2, <1>3, <1>4, <1>5, <1>6, <1>7, <1>8, RunningStep
\* A block begins: the fees that are shared are shared without remainder, and
\* what is set aside covers what is owed.
LEMMA BeginBlockBalances ==
  ASSUME NEW vs \in SUBSET Validator, Typed, BooksBalance, BeginBlock(vs)
  PROVE  BooksBalance' /\ bank' \in Int
  <1> DEFINE c == Cardinality(Delegator) m == Cardinality(vs)
             f == Outstanding h == [w \in Validator |-> rwd'[w].outstanding]
  <1>1. c \in Nat /\ m \in Nat /\ Scale \in Nat /\ bank \in Int /\ pool \in Int
    <2>1. IsFiniteSet(vs)
      BY RewardsAssumption, FS_Subset
    <2> QED BY <2>1, Constants, FS_CardinalityType DEF Typed
  <1>2. bank' = bank + c * m /\ pool' = pool
    BY DEF BeginBlock
  <1>3. f \in [Validator -> Int] /\ \A w \in Validator : f[w] = rwd[w].outstanding
    BY DEF Outstanding, Typed, Record
  <1>4. ASSUME NEW w \in Validator
        PROVE  h[w] = (IF w \in vs THEN f[w] + c * Scale ELSE f[w]) /\ h[w] \in Int
    <2>1. rwd[w] \in Record /\ rwd[w].outstanding \in Nat /\ f[w] = rwd[w].outstanding
      BY <1>3 DEF Typed, Record
    <2>2. CASE w \in vs
      <3>1. rwd'[w] = [rwd[w] EXCEPT !.commission = rwd[w].commission + 1,
                                     !.outstanding = rwd[w].outstanding + c * Scale]
        BY <2>2 DEF BeginBlock
      <3>2. rwd'[w].outstanding = rwd[w].outstanding + c * Scale
        BY <2>1, <3>1 DEF Record
      <3> QED BY <1>1, <2>1, <2>2, <3>2
    <2>3. CASE w \notin vs
      <3>1. rwd'[w] = rwd[w]
        BY <2>3 DEF BeginBlock
      <3> QED BY <2>1, <2>3, <3>1
    <2> QED BY <2>2, <2>3
  <1>5. h \in [Validator -> Int]
    BY <1>4
  <1>6. bank * Scale = pool + Total(f)
    BY DEF BooksBalance
  <1>7. BooksBalance' <=> bank' * Scale = pool' + Total(h)
    BY DEF BooksBalance, Outstanding
  <1> HIDE DEF f, h, m
  <1>8. Total(f) = SumOf(f, Validator) /\ Total(h) = SumOf(h, Validator)
    BY <1>3, <1>5, TotalIsSum
  <1>9. c * Scale \in Int
    BY <1>1
  <1>10. SumOf(h, Validator) = SumOf(f, Validator) + (c * Scale) * m /\ SumOf(f, Validator) \in Int
    <2> DEFINE k == c * Scale
    <2>1. k \in Int /\ \A w \in Validator : h[w] = IF w \in vs THEN f[w] + k ELSE f[w]
      BY <1>4, <1>9
    <2> HIDE DEF k
    <2>2. SumOf(h, Validator) = SumOf(f, Validator) + k * Cardinality(vs) /\ SumOf(f, Validator) \in Int
      <3>1. Shifts(h, f, Validator, vs, k)
        BY <1>3, <1>5, <2>1 DEF Shifts
      <3> QED BY <3>1, RewardsAssumption, SumShifts
    <2> QED BY <2>2 DEF k, m
  <1> HIDE DEF c
  <1>11. (bank + c * m) * Scale = bank * Scale + (c * Scale) * m /\ (c * Scale) * m \in Int
         /\ bank * Scale \in Int /\ c * m \in Int
    <2>1. c * m \in Int
      BY <1>1
    <2>2. (bank + c * m) * Scale = bank * Scale + (c * m) * Scale /\ bank * Scale \in Int
      BY <1>1, <2>1, Minus
    <2>3. (c * m) * Scale = (c * Scale) * m
      BY <1>1
    <2>4. (c * Scale) * m \in Int
      BY <1>1
    <2> QED BY <2>1, <2>2, <2>3, <2>4
  <1> DEFINE a == bank * Scale b == bank' * Scale k == (c * Scale) * m
  <1> HIDE DEF a, b, k
  <1>12. a = pool + Total(f) /\ b = a + k /\ a \in Int /\ k \in Int
    BY <1>2, <1>6, <1>11 DEF a, b, k
  <1>13. Total(h) = Total(f) + k /\ Total(f) \in Int
    BY <1>8, <1>10 DEF k
  <1>14. b = pool' + Total(h)
    BY <1>1, <1>2, <1>12, <1>13
  <1> QED BY <1>1, <1>2, <1>7, <1>11, <1>14 DEF b

\* What a block does to the records, and to what is owed.
LEMMA BeginBlockShares ==
  ASSUME NEW vs \in SUBSET Validator, Typed, BeginBlock(vs)
  PROVE  /\ rwd' \in [Validator -> Record] /\ owed' \in [Pair -> Nat]
         /\ \A w \in Validator :
              /\ rwd'[w].period = rwd[w].period /\ rwd'[w].refs = rwd[w].refs
              /\ w \notin vs => rwd'[w] = rwd[w]
              /\ w \in vs => /\ rwd'[w].commission = rwd[w].commission + 1
                             /\ rwd'[w].outstanding =
                                  rwd[w].outstanding + Cardinality(Delegator) * Scale
         /\ \A d \in Delegator, w \in Validator :
              owed'[<<d, w>>] = IF w \in vs /\ d \in DelsOf(w) THEN owed[<<d, w>>] + 1
                                ELSE owed[<<d, w>>]
  <1> DEFINE k == Cardinality(Delegator) * Scale
  <1>1. k \in Nat
    BY Constants
  <1> HIDE DEF k
  <1>2. rwd' = [w \in Validator |->
                  IF w \notin vs THEN rwd[w]
                  ELSE [rwd[w] EXCEPT !.commission = rwd[w].commission + 1,
                                      !.outstanding = rwd[w].outstanding + k]]
    BY DEF BeginBlock, k
  <1>3. ASSUME NEW w \in Validator
        PROVE  /\ rwd'[w] \in Record
               /\ rwd'[w].period = rwd[w].period /\ rwd'[w].refs = rwd[w].refs
               /\ w \notin vs => rwd'[w] = rwd[w]
               /\ w \in vs => /\ rwd'[w].commission = rwd[w].commission + 1
                              /\ rwd'[w].outstanding = rwd[w].outstanding + k
    <2>1. rwd[w] \in Record
      BY DEF Typed
    <2>2. CASE w \notin vs
      BY <1>2, <2>1, <2>2
    <2>3. CASE w \in vs
      <3> DEFINE x == rwd[w].commission + 1 y == rwd[w].outstanding + k
      <3>1. x \in Nat /\ y \in Nat
        BY <1>1, <2>1 DEF Record
      <3>2. rwd'[w] = [rwd[w] EXCEPT !.commission = x, !.outstanding = y]
        BY <1>2, <2>3
      <3> HIDE DEF x, y
      <3>3. /\ rwd'[w] \in Record /\ rwd'[w].period = rwd[w].period /\ rwd'[w].refs = rwd[w].refs
            /\ rwd'[w].commission = x /\ rwd'[w].outstanding = y
        BY <2>1, <3>1, <3>2 DEF Record
      <3> QED BY <2>3, <3>3 DEF x, y
    <2> QED BY <2>2, <2>3
  <1>4. rwd' \in [Validator -> Record]
    <2>1. rwd' = [w \in Validator |-> rwd'[w]]
      BY <1>2
    <2> QED BY <1>3, <2>1
  <1>5. owed \in [Pair -> Nat]
        /\ owed' = [p \in Pair |-> IF p \in dels /\ p[2] \in vs THEN owed[p] + 1 ELSE owed[p]]
    BY DEF BeginBlock, Typed
  <1>6. owed' \in [Pair -> Nat]
    BY <1>5
  <1>7. ASSUME NEW d \in Delegator, NEW w \in Validator
        PROVE  owed'[<<d, w>>] = IF w \in vs /\ d \in DelsOf(w) THEN owed[<<d, w>>] + 1
                                 ELSE owed[<<d, w>>]
    <2>1. <<d, w>> \in Pair /\ (<<d, w>> \in dels <=> d \in DelsOf(w)) /\ <<d, w>>[2] = w
      BY DEF Pair, DelsOf
    <2> QED BY <1>5, <2>1
  <1> QED BY <1>3, <1>4, <1>6, <1>7 DEF k

\* Fees of a block are covered by the coins that come with them.
LEMMA BeginBlockCovers ==
  ASSUME NEW vs \in SUBSET Validator, Typed, Covered, BeginBlock(vs)
  PROVE  Covered'
  <1> SUFFICES ASSUME NEW w \in Validator
               PROVE  rwd'[w].commission + SumOf(OwedTo(w)', Delegator) <= rwd'[w].outstanding
    BY DEF Covered
  <1> DEFINE f == OwedTo(w) h == OwedTo(w)' C == DelsOf(w) k == Cardinality(Delegator) * Scale
  <1>1. rwd[w].commission + SumOf(f, Delegator) <= rwd[w].outstanding
    BY DEF Covered
  <1>2. /\ f \in [Delegator -> Nat] /\ h \in [Delegator -> Int]
        /\ \A d \in Delegator : f[d] = owed[<<d, w>>] /\ h[d] = owed'[<<d, w>>]
    <2>1. owed' \in [Pair -> Nat]
      BY BeginBlockShares
    <2> QED BY <2>1 DEF OwedTo, Typed, Pair
  <1>3. CASE w \notin vs
    <2>1. h = f
      <3>1. \A d \in Delegator : owed'[<<d, w>>] = owed[<<d, w>>]
        BY <1>3, BeginBlockShares
      <3> QED BY <3>1 DEF OwedTo
    <2>2. rwd'[w] = rwd[w]
      BY <1>3, BeginBlockShares
    <2> QED BY <1>1, <2>1, <2>2
  <1>4. CASE w \in vs
    <2>1. C \in SUBSET Delegator /\ IsFiniteSet(C) /\ Cardinality(C) \in Nat
          /\ Cardinality(C) <= Cardinality(Delegator)
      <3>1. C \in SUBSET Delegator
        BY DEF DelsOf
      <3> QED BY <3>1, RewardsAssumption, FS_Subset, FS_CardinalityType
    <2>2. \A d \in Delegator : h[d] = IF d \in C THEN f[d] + 1 ELSE f[d]
      <3> SUFFICES ASSUME NEW d \in Delegator PROVE h[d] = IF d \in C THEN f[d] + 1 ELSE f[d]
        OBVIOUS
      <3>1. owed'[<<d, w>>] = IF w \in vs /\ d \in C THEN owed[<<d, w>>] + 1 ELSE owed[<<d, w>>]
        BY BeginBlockShares
      <3> HIDE DEF f, h, C
      <3> QED BY <1>2, <1>4, <3>1
    <2>3. f \in [Delegator -> Int]
      BY <1>2
    <2> HIDE DEF f, h, C
    <2>4. SumOf(h, Delegator) = SumOf(f, Delegator) + 1 * Cardinality(C) /\ SumOf(f, Delegator) \in Int
      <3>1. Shifts(h, f, Delegator, C, 1)
        BY <1>2, <2>1, <2>2, <2>3 DEF Shifts
      <3> QED BY <3>1, RewardsAssumption, SumShifts
    <2>5. Cardinality(Delegator) >= 1
      <3>1. \E d \in Delegator : <<d, w>> \in dels
        BY <1>4 DEF BeginBlock
      <3>2. Delegator # {}
        BY <3>1
      <3> QED BY <3>2, RewardsAssumption, FS_EmptySet, Constants
    <2>6. 1 + Cardinality(Delegator) <= k
      BY <2>5, Constants, TwiceAtLeast
    <2>7. /\ rwd'[w].commission = rwd[w].commission + 1
          /\ rwd'[w].outstanding = rwd[w].outstanding + k
      BY <1>4, BeginBlockShares
    <2>8. rwd[w].commission \in Nat /\ rwd[w].outstanding \in Nat /\ k \in Nat
      BY Constants DEF Typed, Record
    <2> DEFINE n == Cardinality(C) c == Cardinality(Delegator)
    <2> HIDE DEF n, c, k
    <2>9. SumOf(h, Delegator) = SumOf(f, Delegator) + n /\ n \in Nat /\ n <= c /\ c \in Nat /\ 1 + c <= k
      BY <2>1, <2>4, <2>6, Constants DEF n, c
    <2>10. rwd'[w].commission + SumOf(h, Delegator) <= rwd'[w].outstanding
      BY <1>1, <2>4, <2>7, <2>8, <2>9
    <2> QED BY <2>10 DEF h
  <1> QED BY <1>3, <1>4

\* BeginBlock keeps the invariant.
LEMMA BeginBlockStep ==
  ASSUME IInv, NEW vs \in SUBSET Validator, BeginBlock(vs)
  PROVE  IInv'
  <1>1. /\ phase = "running" /\ height < MaxHeight /\ height' = height + 1
        /\ UNCHANGED <<phase, todo, saved, dels, start, slashes, pool, due, sent>>
    BY DEF BeginBlock
  <1>2. /\ Typed /\ BooksBalance /\ OwedInv /\ Covered
        /\ \A w \in Validator : Consistent(rwd[w], DelsOf(w), StartsAt(w), slashes[w])
        /\ \A p \in Pair : IF p \in dels
                            THEN /\ start[p] # NoInfo /\ start[p].height <= height
                                 /\ start[p].height = height => owed[p] = 0
                            ELSE start[p] = NoInfo /\ owed[p] = 0
    BY <1>1, OldState DEF OldPhases
  <1>3. /\ rwd' \in [Validator -> Record] /\ owed' \in [Pair -> Nat]
        /\ \A w \in Validator : rwd'[w].period = rwd[w].period /\ rwd'[w].refs = rwd[w].refs
    BY <1>2, BeginBlockShares
  <1>4. BooksBalance' /\ bank' \in Int /\ Covered'
    BY <1>2, BeginBlockBalances, BeginBlockCovers
  <1>5. height \in 0..MaxHeight /\ height + 1 \in 0..MaxHeight /\ height \in Nat
    BY <1>1, <1>2, Constants DEF Typed
  <1>6. Typed'
    BY <1>1, <1>2, <1>3, <1>4, <1>5 DEF Typed
  <1>7. ASSUME NEW w \in Validator
        PROVE  Consistent(rwd'[w], DelsOf(w)', StartsAt(w)', slashes'[w])
    <2>1. DelsOf(w)' = DelsOf(w) /\ DelsOf(w) \in SUBSET Delegator
      BY <1>1 DEF DelsOf
    <2> QED BY <1>1, <1>2, <1>3, <2>1, OtherCounts
  <1>8. \A w \in Validator : rwd'[w].period <= MaxRunPeriod + 1
    BY <1>1, <1>3 DEF IInv, PeriodInv
  <1>9. ASSUME NEW q \in Pair
        PROVE  IF q \in dels'
               THEN /\ start'[q] # NoInfo /\ start'[q].height <= height'
                    /\ start'[q].height = height' => owed'[q] = 0
               ELSE start'[q] = NoInfo /\ owed'[q] = 0
    <2>1. CASE q \in dels
      <3>1. start[q].height \in Int
        BY <1>2, <2>1 DEF Typed
      <3> QED BY <1>1, <1>2, <1>5, <2>1, <3>1
    <2>2. CASE q \notin dels
      <3>1. owed'[q] = owed[q]
        BY <2>2 DEF BeginBlock
      <3> QED BY <1>1, <1>2, <2>2, <3>1
    <2> QED BY <2>1, <2>2
  <1> QED BY <1>1, <1>4, <1>6, <1>7, <1>8, <1>9, RunningStep
-----------------------------------------------------------------------------
(* The preparation keeps the invariant.                                    *)

\* Nothing visited yet, and everything visited.
LEMMA VisitedBounds ==
  ASSUME NEW v \in Validator
  PROVE  /\ Visited(v) \in SUBSET Delegator /\ IsFiniteSet(Visited(v))
         /\ Cardinality(Visited(v)) \in Nat
         /\ Cardinality(Visited(v)) <= Cardinality(Delegator)
  <1>1. Visited(v) \in SUBSET Delegator
    BY DEF Visited
  <1> QED BY <1>1, RewardsAssumption, FS_Subset, FS_CardinalityType

\* Export keeps the invariant.
LEMMA ExportStep ==
  ASSUME IInv, Export
  PROVE  IInv'
  <1>1. /\ phase = "running" /\ phase' = "commissions" /\ todo' = Validator /\ due' = owed
        /\ UNCHANGED <<height, saved, dels, dist, sent>>
    BY DEF Export, Enter, Items
  <1>2. UNCHANGED <<start, slashes, rwd, pool, bank, owed>>
    BY <1>1 DEF dist
  <1>3. Typed'
    BY <1>1, <1>2 DEF IInv, Typed, Loops
  <1>4. TodoInv'
    BY <1>1 DEF TodoInv
  <1>5. RefsInv'
    <2>1. \A v \in Validator : Consistent(rwd[v], DelsOf(v), StartsAt(v), slashes[v])
      BY <1>1, OldState DEF OldPhases
    <2>2. \A v \in Validator : Counted(v)' = DelsOf(v) /\ StartsAt(v)' = StartsAt(v)
      BY <1>1, <1>2 DEF Counted, OldPhases, DelsOf, StartsAt
    <2>3. (\A q \in Pair : q \notin dels => start[q] = NoInfo) /\ (\A q \in dels : start[q] # NoInfo)
      BY DEF IInv, RefsInv
    <2> QED BY <1>1, <1>2, <2>1, <2>2, <2>3 DEF RefsInv, OldPhases
  <1>6. PeriodInv'
    BY <1>1, <1>2 DEF IInv, PeriodInv, NewPhases
  <1>7. BooksBalance'
    BY <1>2 DEF IInv, BooksBalance, Outstanding
  <1>8. OwedInv'
    <2>1. Covered'
      BY <1>2 DEF IInv, OwedInv, Covered, OwedTo
    <2> QED BY <1>1, <1>2, <2>1 DEF IInv, OwedInv, OldPhases
  <1>9. PaidInv'
    BY <1>1, <1>2 DEF PaidInv, NewPhases
  <1>10. FreshInv'
    BY <1>1 DEF FreshInv, NewPhases
  <1> QED BY <1>3, <1>4, <1>5, <1>6, <1>7, <1>8, <1>9, <1>10 DEF IInv

\* What moving to the next stage leaves to show.
LEMMA StageStep ==
  ASSUME IInv, UNCHANGED <<saved, dels, dist, due, sent>>, height' \in 0..MaxHeight,
         phase' \in {"clear", "reset", "done"} \cup Loops,
         \A v \in Validator :
           IF phase' = "validators" /\ v \in todo' THEN FALSE
           ELSE Consistent(rwd[v], Counted(v)', StartsAt(v), slashes[v]),
         phase' \notin OldPhases => \A v \in Validator : slashes[v] = {},
         phase' \in OldPhases => phase \in OldPhases /\ height' = height,
         TodoInv', PeriodInv', PaidInv', FreshInv'
  PROVE  IInv'
  <1>1. UNCHANGED <<start, slashes, rwd, pool, bank, owed>>
    BY DEF dist
  <1>2. Typed'
    BY <1>1 DEF IInv, Typed
  <1>3. RefsInv'
    <2>1. \A v \in Validator : StartsAt(v)' = StartsAt(v)
      BY <1>1 DEF StartsAt
    <2>2. (\A q \in Pair : q \notin dels => start[q] = NoInfo) /\ (\A q \in dels : start[q] # NoInfo)
      BY DEF IInv, RefsInv
    <2>3. \A v \in Validator :
            IF phase' = "validators" /\ v \in todo' THEN \A p \in Period : rwd'[v].refs[p] = 0
            ELSE Consistent(rwd'[v], Counted(v)', StartsAt(v)', slashes'[v])
      BY <1>1, <2>1
    <2> QED BY <1>1, <2>2, <2>3 DEF RefsInv
  <1>4. BooksBalance'
    BY <1>1 DEF IInv, BooksBalance, Outstanding
  <1>5. OwedInv'
    <2>1. Covered'
      BY <1>1 DEF IInv, OwedInv, Covered, OwedTo
    <2> QED BY <1>1, <2>1 DEF IInv, OwedInv
  <1> QED BY <1>2, <1>3, <1>4, <1>5 DEF IInv

\* LoopEnds keeps the invariant.
LEMMA LoopEndsStep ==
  ASSUME IInv, LoopEnds
  PROVE  IInv'
  <1>1. /\ phase \in Loops /\ todo = {} /\ UNCHANGED <<height, saved, dels, dist, due, sent>>
        /\ UNCHANGED <<start, slashes, rwd, pool, bank, owed>>
        /\ height \in 0..MaxHeight
    BY DEF LoopEnds, dist, IInv, Typed
  <1>2. CASE phase = "commissions"
    <2>1. phase' = "rewards" /\ todo' = dels
      BY <1>2 DEF LoopEnds, Enter, Items
    <2>2. TodoInv'
      BY <1>1, <2>1 DEF TodoInv
    <2>3. PeriodInv'
      <3>1. ASSUME NEW v \in Validator PROVE rwd'[v].period <= MaxRunPeriod + 1 + Cardinality(Visited(v)')
        <4>1. Visited(v)' = {}
          BY <1>1, <2>1 DEF Visited
        <4>2. rwd[v].period <= MaxRunPeriod + 1 /\ rwd[v].period \in Int
          BY <1>2 DEF IInv, PeriodInv, Typed, Record
        <4> QED BY <1>1, <4>1, <4>2, FS_EmptySet, Constants
      <3> QED BY <2>1, <3>1 DEF PeriodInv, NewPhases
    <2>4. PaidInv'
      BY <1>1, <1>2, <2>1 DEF IInv, PaidInv, NewPhases
    <2>5. FreshInv'
      BY <2>1 DEF FreshInv, NewPhases
    <2>6. \A v \in Validator : Consistent(rwd[v], Counted(v)', StartsAt(v), slashes[v])
      BY <1>1, <1>2, <2>1, OldState DEF Counted, OldPhases, DelsOf
    <2> QED BY <1>1, <1>2, <2>1, <2>2, <2>3, <2>4, <2>5, <2>6, StageStep DEF OldPhases, Loops
  <1>3. CASE phase = "rewards"
    <2>1. phase' = "clear" /\ todo' = {}
      BY <1>3 DEF LoopEnds, Enter, Items
    <2>2. TodoInv'
      BY <2>1 DEF TodoInv
    <2>3. PeriodInv'
      BY <2>1 DEF PeriodInv, NewPhases
    <2>4. PaidInv'
      BY <1>1, <1>3, <2>1 DEF IInv, PaidInv, NewPhases
    <2>5. FreshInv'
      BY <2>1 DEF FreshInv, NewPhases
    <2>6. \A v \in Validator : Consistent(rwd[v], Counted(v)', StartsAt(v), slashes[v])
      BY <1>1, <1>3, <2>1, OldState DEF Counted, OldPhases, DelsOf
    <2> QED BY <1>1, <1>3, <2>1, <2>2, <2>3, <2>4, <2>5, <2>6, StageStep DEF OldPhases
  <1>4. CASE phase = "validators"
    <2>1. phase' = "delegations" /\ todo' = dels
      BY <1>4 DEF LoopEnds, Enter, Items
    <2>2. TodoInv'
      BY <1>1, <2>1 DEF TodoInv
    <2>3. \A v \in Validator : Visited(v)' = {}
      BY <1>1, <2>1 DEF Visited
    <2>4. PeriodInv'
      <3>1. \A v \in Validator : rwd'[v].period = 1 + Cardinality(Visited(v)')
        BY <1>1, <1>4, <2>3, FS_EmptySet DEF IInv, PeriodInv
      <3> QED BY <2>1, <3>1 DEF PeriodInv
    <2>5. PaidInv'
      BY <1>1, <1>4, <2>1 DEF IInv, PaidInv, NewPhases
    <2>6. FreshInv'
      BY <1>1, <1>4, <2>1 DEF IInv, FreshInv, NewPhases
    <2>7. \A v \in Validator : Consistent(rwd[v], Counted(v)', StartsAt(v), slashes[v])
      <3>1. \A v \in Validator : Counted(v)' = {} /\ Counted(v) = {}
        BY <1>4, <2>1, <2>3 DEF Counted, OldPhases
      <3> QED BY <1>1, <1>4, <3>1 DEF IInv, RefsInv
    <2>8. \A v \in Validator : slashes[v] = {}
      BY <1>4 DEF IInv, RefsInv, OldPhases
    <2> QED BY <1>1, <2>1, <2>2, <2>4, <2>5, <2>6, <2>7, <2>8, StageStep DEF OldPhases, Loops
  <1>5. CASE phase = "delegations"
    <2>1. phase' = "reset" /\ todo' = {}
      BY <1>5 DEF LoopEnds, Enter, Items
    <2>2. TodoInv'
      BY <2>1 DEF TodoInv
    <2>3. \A v \in Validator : Visited(v)' = Visited(v)
      BY <1>1, <2>1 DEF Visited
    <2>4. PeriodInv'
      <3>1. \A v \in Validator : rwd'[v].period = 1 + Cardinality(Visited(v)')
        BY <1>1, <1>5, <2>3 DEF IInv, PeriodInv, NewPhases
      <3> QED BY <2>1, <3>1 DEF PeriodInv
    <2>5. PaidInv'
      BY <1>1, <1>5, <2>1 DEF IInv, PaidInv, NewPhases
    <2>6. FreshInv'
      BY <1>1, <1>5, <2>1 DEF IInv, FreshInv, NewPhases
    <2>7. \A v \in Validator : Consistent(rwd[v], Counted(v)', StartsAt(v), slashes[v])
      <3>1. \A v \in Validator : Counted(v)' = Counted(v)
        BY <1>5, <2>1, <2>3 DEF Counted, OldPhases
      <3> QED BY <1>5, <3>1 DEF IInv, RefsInv
    <2>8. \A v \in Validator : slashes[v] = {}
      BY <1>5 DEF IInv, RefsInv, OldPhases
    <2> QED BY <1>1, <2>1, <2>2, <2>4, <2>5, <2>6, <2>7, <2>8, StageStep DEF OldPhases
  <1> QED BY <1>1, <1>2, <1>3, <1>4, <1>5 DEF Loops

\* ResetHeight keeps the invariant.
LEMMA ResetHeightStep ==
  ASSUME IInv, ResetHeight
  PROVE  IInv'
  <1>1. /\ phase = "reset" /\ phase' = "done" /\ height' = saved
        /\ UNCHANGED <<todo, saved, dels, dist, due, sent>>
        /\ UNCHANGED <<start, slashes, rwd, pool, bank, owed>>
        /\ saved \in 0..MaxHeight
    BY DEF ResetHeight, dist, IInv, Typed
  <1>2. TodoInv'
    BY <1>1 DEF IInv, TodoInv
  <1>3. \A v \in Validator : Visited(v)' = Visited(v)
    BY <1>1 DEF Visited
  <1>4. PeriodInv'
    <2>1. \A v \in Validator : rwd'[v].period = 1 + Cardinality(Visited(v)')
      BY <1>1, <1>3 DEF IInv, PeriodInv, NewPhases
    <2> QED BY <1>1, <2>1 DEF PeriodInv
  <1>5. PaidInv'
    BY <1>1 DEF IInv, PaidInv, NewPhases
  <1>6. FreshInv'
    BY <1>1 DEF IInv, FreshInv, NewPhases
  <1>7. \A v \in Validator : Consistent(rwd[v], Counted(v)', StartsAt(v), slashes[v])
    <2>1. \A v \in Validator : Counted(v)' = Counted(v)
      BY <1>1, <1>3 DEF Counted, OldPhases
    <2> QED BY <1>1, <2>1 DEF IInv, RefsInv
  <1>8. \A v \in Validator : slashes[v] = {}
    BY <1>1 DEF IInv, RefsInv, OldPhases
  <1> QED BY <1>1, <1>2, <1>4, <1>5, <1>6, <1>7, <1>8, StageStep DEF OldPhases

\* Clear keeps the invariant.
LEMMA ClearStep ==
  ASSUME IInv, Clear
  PROVE  IInv'
  <1>1. /\ phase = "clear" /\ phase' = "validators" /\ todo' = Validator
        /\ height' = 0 /\ saved' = height
        /\ UNCHANGED <<dels, start, pool, bank, owed, due, sent>>
    BY DEF Clear, Enter, Items
  <1> DEFINE z == [p \in Period |-> 0]
  <1>2. z \in [Period -> Nat] /\ \A p \in Period : z[p] = 0
    OBVIOUS
  <1>3. /\ slashes' = [v \in Validator |-> {}]
        /\ rwd' = [v \in Validator |-> [rwd[v] EXCEPT !.refs = z]]
    BY DEF Clear
  <1> HIDE DEF z
  <1>4. ASSUME NEW v \in Validator
        PROVE  /\ rwd'[v] \in Record /\ rwd'[v].refs = z
               /\ rwd'[v].outstanding = rwd[v].outstanding
               /\ rwd'[v].commission = rwd[v].commission
    <2>1. rwd[v] \in Record
      BY DEF IInv, Typed
    <2>2. rwd'[v] = [rwd[v] EXCEPT !.refs = z]
      BY <1>3
    <2> QED BY <1>2, <2>1, <2>2 DEF Record
  <1>5. rwd' \in [Validator -> Record]
    <2>1. rwd' = [v \in Validator |-> rwd'[v]]
      BY <1>3
    <2> QED BY <1>4, <2>1
  <1>6. Typed'
    <2>1. height' \in 0..MaxHeight /\ saved' \in 0..MaxHeight
      BY <1>1, Constants DEF IInv, Typed
    <2>2. slashes' \in [Validator -> SUBSET Period]
      BY <1>3
    <2> QED BY <1>1, <1>5, <2>1, <2>2 DEF IInv, Typed, Loops
  <1>7. TodoInv'
    BY <1>1 DEF TodoInv
  <1>8. RefsInv'
    <2>1. \A v \in Validator : v \in todo' /\ slashes'[v] = {} /\ \A p \in Period : rwd'[v].refs[p] = 0
      BY <1>1, <1>2, <1>3, <1>4
    <2>2. (\A q \in Pair : q \notin dels => start[q] = NoInfo) /\ (\A q \in dels : start[q] # NoInfo)
      BY DEF IInv, RefsInv
    <2> QED BY <1>1, <2>1, <2>2 DEF RefsInv
  <1>9. PeriodInv'
    BY <1>1 DEF PeriodInv, NewPhases
  <1>10. BooksBalance' /\ Covered'
    BY <1>1, <1>4, <1>5, SameMoney DEF IInv, Typed, OwedInv
  <1>11. OwedInv'
    BY <1>1, <1>10 DEF IInv, OwedInv, OldPhases
  <1>12. PaidInv'
    BY <1>1 DEF IInv, PaidInv, NewPhases
  <1>13. FreshInv'
    BY <1>1 DEF FreshInv, NewPhases
  <1> QED BY <1>6, <1>7, <1>8, <1>9, <1>10, <1>11, <1>12, <1>13 DEF IInv
\* ExportCommission keeps the invariant.
LEMMA ExportCommissionStep ==
  ASSUME IInv, NEW v \in Validator, ExportCommission(v)
  PROVE  IInv'
  <1>1. /\ phase = "commissions" /\ v \in todo /\ todo' = todo \ {v}
        /\ UNCHANGED <<phase, height, saved, dels, due, sent>>
    BY DEF ExportCommission, Visits
  <1>2. UNCHANGED <<start, slashes, pool, owed>>
    BY DEF ExportCommission, WithdrawCommission, dist
  <1>3. /\ Typed /\ BooksBalance /\ OwedInv /\ Covered
        /\ \A w \in Validator : Consistent(rwd[w], DelsOf(w), StartsAt(w), slashes[w])
    BY <1>1, OldState DEF OldPhases
  <1>4. /\ bank' \in Int /\ rwd' \in [Validator -> Record]
        /\ \A w \in Validator : rwd'[w].period = rwd[w].period /\ rwd'[w].refs = rwd[w].refs
        /\ BooksBalance' /\ (Typed' => Covered')
    <2>1. CASE UNCHANGED dist
      <3>1. rwd' = rwd /\ bank' = bank
        BY <2>1 DEF dist
      <3>2. BooksBalance' /\ Covered'
        BY <1>2, <1>3, <3>1 DEF BooksBalance, Outstanding, Covered, OwedTo
      <3> QED BY <1>3, <3>1, <3>2 DEF Typed
    <2>2. CASE WithdrawCommission(v)
      <3>1. /\ bank' \in Int /\ rwd' \in [Validator -> Record]
            /\ \A w \in Validator \ {v} : rwd'[w] = rwd[w]
            /\ \A w \in Validator : rwd'[w].period = rwd[w].period /\ rwd'[w].refs = rwd[w].refs
            /\ rwd'[v].outstanding - rwd[v].outstanding = rwd'[v].commission - rwd[v].commission
            /\ BooksBalance'
        BY <1>3, <2>2, CommissionBalances
      <3>2. Typed' => Covered'
        BY <1>2, <1>3, <3>1, CommissionCovers
      <3> QED BY <3>1, <3>2
    <2> QED BY <2>1, <2>2 DEF ExportCommission
  <1>5. Typed'
    BY <1>1, <1>2, <1>3, <1>4 DEF Typed
  <1>6. TodoInv'
    BY <1>1 DEF IInv, TodoInv
  <1>7. RefsInv'
    <2>1. ASSUME NEW w \in Validator
          PROVE  Consistent(rwd'[w], Counted(w)', StartsAt(w)', slashes'[w])
      <3>1. Counted(w)' = DelsOf(w) /\ DelsOf(w) \in SUBSET Delegator
        BY <1>1 DEF Counted, OldPhases, DelsOf
      <3> QED BY <1>2, <1>3, <1>4, <3>1, OtherCounts
    <2>2. (\A q \in Pair : q \notin dels => start[q] = NoInfo) /\ (\A q \in dels : start[q] # NoInfo)
      BY DEF IInv, RefsInv
    <2> QED BY <1>1, <1>2, <2>1, <2>2 DEF RefsInv, OldPhases
  <1>8. PeriodInv'
    BY <1>1, <1>4 DEF IInv, PeriodInv, NewPhases
  <1>9. OwedInv'
    BY <1>1, <1>2, <1>4, <1>5 DEF IInv, OwedInv
  <1>10. PaidInv'
    BY <1>1, <1>2 DEF IInv, PaidInv, NewPhases
  <1>11. FreshInv'
    BY <1>1 DEF FreshInv, NewPhases
  <1> QED BY <1>4, <1>5, <1>6, <1>7, <1>8, <1>9, <1>10, <1>11 DEF IInv

\* The fields of a validator that is made anew.
LEMMA IsRecord ==
  ASSUME NEW n \in 1..(MaxPeriod + 1), NEW f \in [Period -> Nat], NEW c \in Nat, NEW o \in Nat
  PROVE  [period |-> n, refs |-> f, commission |-> c, outstanding |-> o] \in Record
  BY DEF Record

\* The hooks make a new record of the counters that were wiped.
LEMMA NewRecord ==
  ASSUME NEW g \in [Period -> Nat], g[0] = 1, \A p \in Period : p # 0 => g[p] = 0, NEW s, NEW q,
         q = [period |-> 1, refs |-> g, commission |-> 0, outstanding |-> 0]
  PROVE  /\ q \in Record /\ q.period = 1 /\ q.commission = 0 /\ q.outstanding = 0
         /\ Consistent(q, {}, s, {})
  <1>1. 0 \in Period /\ 1 \in 1..(MaxPeriod + 1) /\ \A p \in Period : p \in Int
    BY Constants
  <1>4. q.period = 1 /\ q.refs = g /\ q.commission = 0 /\ q.outstanding = 0
    OBVIOUS
  <1>5. q \in Record
    <2>1. 0 \in Nat
      OBVIOUS
    <2> QED BY <1>1, <2>1, IsRecord
  <1>6. ASSUME NEW p \in Period
        PROVE  q.refs[p] = NStarts({}, s, p) + NSlashes({}, p) + (IF q.period = p + 1 THEN 1 ELSE 0)
    <2>1. NStarts({}, s, p) = 0 /\ NSlashes({}, p) = 0
      <3>1. {} \in SUBSET Delegator /\ \A d \in {} : s[d] # p
        OBVIOUS
      <3> QED BY <3>1, StartsCount, SlashesCount
    <2>2. p \in Int
      BY <1>1
    <2> QED BY <1>4, <2>1, <2>2
  <1>7. Consistent(q, {}, s, {})
    BY <1>6 DEF Consistent
  <1> QED BY <1>4, <1>5, <1>7

\* ReinitValidator keeps the invariant.
LEMMA ReinitValidatorStep ==
  ASSUME IInv, NEW v \in Validator, ReinitValidator(v)
  PROVE  IInv'
  <1> DEFINE q == [NewValidator EXCEPT !.refs = [rwd[v].refs EXCEPT ![0] = 1]]
  <1>1. /\ phase = "validators" /\ v \in todo /\ todo' = todo \ {v}
        /\ pool' = pool + rwd[v].outstanding /\ rwd' = [rwd EXCEPT ![v] = q]
        /\ UNCHANGED <<phase, height, saved, dels, start, slashes, bank, owed, due, sent>>
    BY DEF ReinitValidator, Visits
  <1>2. /\ rwd[v] \in Record /\ rwd \in [Validator -> Record] /\ rwd[v].outstanding \in Nat
        /\ rwd[v].refs \in [Period -> Nat] /\ pool \in Nat /\ bank \in Int
    BY DEF IInv, Typed, Record
  <1>3. \A p \in Period : rwd[v].refs[p] = 0
    BY <1>1 DEF IInv, RefsInv
  <1>4. /\ q \in Record /\ q.period = 1 /\ q.commission = 0 /\ q.outstanding = 0
        /\ Consistent(q, {}, StartsAt(v), {})
    <2> DEFINE f == rwd[v].refs g == [f EXCEPT ![0] = 1]
    <2>1. 0 \in Period
      BY Constants
    <2>2. g \in [Period -> Nat] /\ g[0] = 1 /\ \A p \in Period : p # 0 => g[p] = 0
      BY <1>2, <1>3, <2>1
    <2>3. q = [NewValidator EXCEPT !.refs = g]
      OBVIOUS
    <2> HIDE DEF g, q
    <2>4. q = [period |-> 1, refs |-> g, commission |-> 0, outstanding |-> 0]
      BY <2>3 DEF NewValidator
    <2> QED BY <2>2, <2>4, NewRecord
  <1> HIDE DEF q
  <1>5. rwd' \in [Validator -> Record] /\ rwd'[v] = q /\ \A w \in Validator \ {v} : rwd'[w] = rwd[w]
    BY <1>1, <1>2, <1>4
  <1>6. Typed'
    <2>1. pool' \in Nat
      BY <1>1, <1>2
    <2> QED BY <1>1, <1>5, <2>1 DEF IInv, Typed
  <1>7. TodoInv'
    BY <1>1 DEF IInv, TodoInv
  <1>8. RefsInv'
    <2>1. \A w \in Validator : Counted(w) = {} /\ Counted(w)' = {} /\ StartsAt(w)' = StartsAt(w)
                               /\ slashes[w] = {}
      BY <1>1 DEF Counted, OldPhases, StartsAt, IInv, RefsInv
    <2>2. ASSUME NEW w \in Validator
          PROVE  IF phase' = "validators" /\ w \in todo' THEN \A p \in Period : rwd'[w].refs[p] = 0
                 ELSE Consistent(rwd'[w], Counted(w)', StartsAt(w)', slashes'[w])
      <3>1. CASE w = v
        BY <1>1, <1>4, <1>5, <2>1, <3>1
      <3>2. CASE w # v
        <4>1. IF phase = "validators" /\ w \in todo THEN \A p \in Period : rwd[w].refs[p] = 0
              ELSE Consistent(rwd[w], Counted(w), StartsAt(w), slashes[w])
          BY DEF IInv, RefsInv
        <4>2. rwd'[w] = rwd[w] /\ (w \in todo' <=> w \in todo)
          BY <1>1, <1>5, <3>2
        <4> QED BY <1>1, <2>1, <4>1, <4>2
      <3> QED BY <3>1, <3>2
    <2>3. (\A p \in Pair : p \notin dels => start[p] = NoInfo) /\ (\A p \in dels : start[p] # NoInfo)
      BY DEF IInv, RefsInv
    <2> QED BY <1>1, <2>1, <2>2, <2>3 DEF RefsInv
  <1>9. PeriodInv'
    BY <1>1, <1>4, <1>5 DEF IInv, PeriodInv, NewPhases
  <1>10. BooksBalance'
    <2>1. rwd'[v].outstanding = 0 /\ \A w \in Validator \ {v} : rwd'[w].outstanding = rwd[w].outstanding
      BY <1>4, <1>5
    <2>2. bank * Scale \in Int /\ bank' = bank /\ pool' \in Int
      BY <1>1, <1>2, Constants
    <2>3. bank' * Scale - pool' = bank * Scale - pool + (rwd'[v].outstanding - rwd[v].outstanding)
      <3> DEFINE a == bank * Scale
      <3> HIDE DEF a
      <3>1. a - pool' = a - pool + (0 - rwd[v].outstanding)
        BY <1>1, <1>2, <2>2 DEF a
      <3> QED BY <2>1, <2>2, <3>1 DEF a
    <2> QED BY <1>2, <1>5, <2>1, <2>2, <2>3, BooksMove DEF IInv
  <1>11. OwedInv'
    <2>1. \A w \in Validator : OwedTo(w)' = OwedTo(w)
      BY <1>1 DEF OwedTo
    <2>2. SumOf(OwedTo(v), Delegator) = 0
      <3>1. \A p \in Pair : owed[p] = 0
        BY <1>1 DEF IInv, OwedInv, PaidInv
      <3>2. OwedTo(v) \in [Delegator -> Int] /\ \A d \in Delegator : OwedTo(v)[d] = 0
        BY <3>1 DEF OwedTo, Pair
      <3> QED BY <3>2, RewardsAssumption, SumOfZeros
    <2>3. Covered'
      <3>1. ASSUME NEW w \in Validator
            PROVE  rwd'[w].commission + SumOf(OwedTo(w)', Delegator) <= rwd'[w].outstanding
        <4>1. CASE w = v
          BY <1>4, <1>5, <2>1, <2>2, <4>1
        <4>2. CASE w # v
          BY <1>5, <2>1, <4>2 DEF IInv, OwedInv, Covered
        <4> QED BY <4>1, <4>2
      <3> QED BY <3>1 DEF Covered
    <2> QED BY <1>1, <2>3 DEF IInv, OwedInv, OldPhases
  <1>12. PaidInv'
    BY <1>1 DEF IInv, PaidInv, NewPhases
  <1>13. FreshInv'
    BY <1>1, <1>4, <1>5 DEF IInv, FreshInv, NewPhases
  <1> QED BY <1>6, <1>7, <1>8, <1>9, <1>10, <1>11, <1>12, <1>13 DEF IInv

\* One delegation more is visited.
LEMMA OneMoreVisited ==
  ASSUME NEW d \in Delegator, NEW v \in Validator, todo \in SUBSET dels, <<d, v>> \in todo,
         todo' = todo \ {<<d, v>>}, dels' = dels
  PROVE  /\ d \notin Visited(v) /\ Visited(v)' = Visited(v) \cup {d}
         /\ Cardinality(Visited(v)') = Cardinality(Visited(v)) + 1
         /\ Cardinality(Visited(v)) + 1 <= Cardinality(Delegator)
         /\ \A w \in Validator \ {v} : Visited(w)' = Visited(w)
  <1>1. d \notin Visited(v) /\ Visited(v)' = Visited(v) \cup {d}
    BY DEF Visited
  <1>2. \A w \in Validator \ {v} : Visited(w)' = Visited(w)
    BY DEF Visited
  <1>3. /\ Visited(v) \in SUBSET Delegator /\ IsFiniteSet(Visited(v))
        /\ Cardinality(Visited(v)) \in Nat
    BY VisitedBounds
  <1> DEFINE D == Visited(v) \cup {d}
  <1>4. D \in SUBSET Delegator /\ Cardinality(D) = Cardinality(Visited(v)) + 1
    BY <1>1, <1>3, FS_AddElement
  <1> HIDE DEF D
  <1>5. Cardinality(D) <= Cardinality(Delegator)
    BY <1>4, RewardsAssumption, FS_Subset
  <1> QED BY <1>1, <1>2, <1>4, <1>5 DEF D

\* ExportRewards keeps the invariant.
LEMMA ExportRewardsStep ==
  ASSUME IInv, NEW d \in Delegator, NEW v \in Validator, ExportRewards(d, v)
  PROVE  IInv'
  <1>1. /\ phase = "rewards" /\ <<d, v>> \in todo /\ todo' = todo \ {<<d, v>>}
        /\ UNCHANGED <<height, saved, dels, due>> /\ todo \in SUBSET dels
        /\ <<d, v>> \in Pair /\ <<d, v>> \in dels
    BY DEF ExportRewards, Visits, IInv, TodoInv, Pair
  <1>2. phase \in OldPhases
    BY <1>1 DEF OldPhases
  <1>3. /\ Typed /\ BooksBalance /\ OwedInv /\ Covered
        /\ \A w \in Validator : Consistent(rwd[w], DelsOf(w), StartsAt(w), slashes[w])
        /\ \A q \in Pair : IF q \in dels
                            THEN /\ start[q] # NoInfo /\ start[q].height <= height
                                 /\ start[q].height = height => owed[q] = 0
                            ELSE start[q] = NoInfo /\ owed[q] = 0
    BY <1>2, OldState
  <1>4. /\ d \notin Visited(v) /\ Visited(v)' = Visited(v) \cup {d}
        /\ Cardinality(Visited(v)') = Cardinality(Visited(v)) + 1
        /\ Cardinality(Visited(v)) + 1 <= Cardinality(Delegator)
        /\ \A w \in Validator \ {v} : Visited(w)' = Visited(w)
    BY <1>1, OneMoreVisited
  <1>5. rwd[v].period <= MaxRunPeriod + 1 + Cardinality(Visited(v)) /\ rwd[v].period <= MaxPeriod
    <2>1. rwd[v].period <= MaxRunPeriod + 1 + Cardinality(Visited(v))
      BY <1>1 DEF IInv, PeriodInv
    <2>2. rwd[v].period \in Int /\ Cardinality(Visited(v)) \in Nat
      BY <1>3, VisitedBounds DEF Typed, Record
    <2> QED BY <1>4, <2>1, <2>2, Constants
  <1>6. start[<<d, v>>] # NoInfo
    BY <1>1, <1>3
  <1>7. /\ WithdrawRewards(d, v) /\ PayOut(d, v) /\ slashes' = slashes /\ phase' = phase
        /\ sent' = [sent EXCEPT ![<<d, v>>] = Reward(d, v) \div Scale]
    <2>1. MayWithdraw(d, v) /\ MayReference(AfterWithdraw(d, v))
      BY <1>1, <1>2, <1>3, <1>5, <1>6, WithdrawStep
    <2> QED BY <2>1 DEF ExportRewards, WithdrawRewards
  <1>8. /\ rwd' \in [Validator -> Record]
        /\ start' \in [Pair -> [period : Period, height : 0..MaxHeight] \cup {NoInfo}]
        /\ \A w \in Validator \ {v} : rwd'[w] = rwd[w]
        /\ \A q \in Pair : q # <<d, v>> => start'[q] = start[q]
        /\ rwd'[v].period = rwd[v].period + 1
        /\ rwd'[v].commission = rwd[v].commission
        /\ rwd'[v].outstanding = rwd[v].outstanding - Reward(d, v)
        /\ start'[<<d, v>>] # NoInfo /\ start'[<<d, v>>].height = height
        /\ Consistent(rwd'[v], DelsOf(v), StartsAt(v)', slashes[v])
    BY <1>1, <1>2, <1>3, <1>5, <1>6, <1>7, WithdrawStep
  <1>9. Reward(d, v) = owed[<<d, v>>] /\ owed[<<d, v>>] \in Nat
    BY <1>1, <1>2, <1>3, RewardIsOwed
  <1>10. /\ bank' \in Int /\ pool' \in Nat /\ owed' \in [Pair -> Nat]
         /\ owed'[<<d, v>>] = 0 /\ \A q \in Pair : q # <<d, v>> => owed'[q] = owed[q]
         /\ BooksBalance'
    BY <1>3, <1>7, <1>8, <1>9, PaymentBalances
  <1>11. /\ sent' \in [Pair -> Nat] /\ sent'[<<d, v>>] = owed[<<d, v>>] \div Scale
         /\ \A q \in Pair : q # <<d, v>> => sent'[q] = sent[q]
    <2>1. Reward(d, v) \div Scale \in Nat
      BY <1>9, CoinsAndFractions
    <2> QED BY <1>1, <1>3, <1>7, <1>9, <2>1 DEF Typed
  <1>12. Typed'
    BY <1>1, <1>3, <1>7, <1>8, <1>10, <1>11 DEF Typed
  <1>13. Covered'
    <2>1. rwd[v].outstanding \in Int /\ rwd[v].commission \in Int
      BY <1>3 DEF Typed, Record
    <2>2. rwd'[v].outstanding - rwd[v].outstanding =
            (rwd'[v].commission - rwd[v].commission) + (owed'[<<d, v>>] - owed[<<d, v>>])
      BY <1>8, <1>9, <1>10, <2>1
    <2> QED BY <1>3, <1>8, <1>10, <1>12, <2>2, CoverMoves
  <1>14. TodoInv'
    BY <1>1, <1>7 DEF IInv, TodoInv
  <1>15. RefsInv'
    <2>1. ASSUME NEW w \in Validator
          PROVE  Consistent(rwd'[w], Counted(w)', StartsAt(w)', slashes'[w])
      <3>1. Counted(w)' = DelsOf(w) /\ DelsOf(w) \in SUBSET Delegator
        BY <1>1, <1>7 DEF Counted, OldPhases, DelsOf
      <3>2. CASE w = v
        BY <1>7, <1>8, <3>1, <3>2
      <3>3. CASE w # v
        <4>1. rwd'[w] = rwd[w] /\ \A e \in Delegator : start'[<<e, w>>] = start[<<e, w>>]
          BY <1>8, <3>3 DEF Pair
        <4> QED BY <1>3, <1>7, <3>1, <4>1, OtherCounts
      <3> QED BY <3>2, <3>3
    <2>2. \A q \in Pair : IF q \in dels' THEN start'[q] # NoInfo ELSE start'[q] = NoInfo
      BY <1>1, <1>3, <1>8
    <2>3. dels' \in SUBSET Pair
      BY <1>12 DEF Typed
    <2> QED BY <1>1, <1>7, <2>1, <2>2, <2>3 DEF RefsInv, OldPhases
  <1>16. PeriodInv'
    <2>1. ASSUME NEW w \in Validator
          PROVE  rwd'[w].period <= MaxRunPeriod + 1 + Cardinality(Visited(w)')
      <3>1. rwd[w].period <= MaxRunPeriod + 1 + Cardinality(Visited(w))
        BY <1>1 DEF IInv, PeriodInv
      <3>2. rwd[w].period \in Int /\ Cardinality(Visited(w)) \in Nat
        BY <1>3, VisitedBounds DEF Typed, Record
      <3>3. CASE w = v
        <4> DEFINE n == Cardinality(Visited(v)) m == Cardinality(Visited(v)') r == rwd[v].period
        <4>1. m = n + 1 /\ n \in Nat /\ r \in Int /\ r <= MaxRunPeriod + 1 + n
          BY <1>4, <3>1, <3>2, <3>3
        <4> HIDE DEF n, m, r
        <4>2. r + 1 <= MaxRunPeriod + 1 + m
          BY <4>1, Constants
        <4> QED BY <1>8, <3>3, <4>2 DEF m, r
      <3>4. CASE w # v
        BY <1>4, <1>8, <3>1, <3>4
      <3> QED BY <3>3, <3>4
    <2> QED BY <1>1, <1>7, <2>1 DEF PeriodInv, NewPhases
  <1>17. OwedInv'
    <2>1. height \in Int
      BY <1>3 DEF Typed
    <2>2. \A q \in Pair : IF q \in dels'
                          THEN start'[q].height <= height' /\ (start'[q].height = height' => owed'[q] = 0)
                          ELSE owed'[q] = 0
      BY <1>1, <1>3, <1>8, <1>10, <2>1
    <2>3. dels' \in SUBSET Pair
      BY <1>12 DEF Typed
    <2> QED BY <1>13, <2>2, <2>3 DEF OwedInv
  <1>18. PaidInv'
    <2>1. (\A q \in todo : owed[q] = due[q])
          /\ (\A q \in dels : q \notin todo => owed[q] = 0 /\ sent[q] = due[q] \div Scale)
      BY <1>1 DEF IInv, PaidInv
    <2>2. dels \in SUBSET Pair
      BY <1>3 DEF Typed
    <2>3. \A q \in todo' : owed'[q] = due'[q]
      BY <1>1, <1>10, <2>1, <2>2
    <2>4. ASSUME NEW q \in dels', q \notin todo'
          PROVE  owed'[q] = 0 /\ sent'[q] = due'[q] \div Scale
      <3>1. CASE q = <<d, v>>
        BY <1>1, <1>10, <1>11, <2>1, <3>1
      <3>2. CASE q # <<d, v>>
        BY <1>1, <1>10, <1>11, <2>1, <2>2, <2>4, <3>2
      <3> QED BY <3>1, <3>2
    <2> QED BY <1>1, <1>7, <2>3, <2>4 DEF PaidInv, NewPhases
  <1>19. FreshInv'
    BY <1>1, <1>7 DEF FreshInv, NewPhases
  <1> QED BY <1>10, <1>12, <1>14, <1>15, <1>16, <1>17, <1>18, <1>19 DEF IInv
\* ReinitDelegation keeps the invariant.
LEMMA ReinitDelegationStep ==
  ASSUME IInv, NEW d \in Delegator, NEW v \in Validator, ReinitDelegation(d, v)
  PROVE  IInv'
  <1>1. /\ phase = "delegations" /\ <<d, v>> \in todo /\ todo' = todo \ {<<d, v>>}
        /\ UNCHANGED <<height, saved, dels, due>> /\ todo \in SUBSET dels
        /\ <<d, v>> \in Pair /\ <<d, v>> \in dels
    BY DEF ReinitDelegation, Visits, IInv, TodoInv, Pair
  <1>2. /\ Typed /\ BooksBalance /\ OwedInv /\ Covered /\ height = 0
        /\ \A w \in Validator : /\ Consistent(rwd[w], Visited(w), StartsAt(w), slashes[w])
                                /\ slashes[w] = {} /\ Counted(w) = Visited(w)
                                /\ rwd[w].period = 1 + Cardinality(Visited(w))
    BY <1>1 DEF IInv, OwedInv, FreshInv, RefsInv, Counted, PeriodInv, OldPhases, NewPhases
  <1>3. /\ d \notin Visited(v) /\ Visited(v)' = Visited(v) \cup {d}
        /\ Cardinality(Visited(v)') = Cardinality(Visited(v)) + 1
        /\ Cardinality(Visited(v)) + 1 <= Cardinality(Delegator)
        /\ \A w \in Validator \ {v} : Visited(w)' = Visited(w)
    BY <1>1, OneMoreVisited
  <1>4. Visited(v) \in SUBSET Delegator /\ Cardinality(Visited(v)) \in Nat
    BY VisitedBounds
  <1>5. rwd[v].period <= MaxPeriod
    BY <1>2, <1>3, <1>4, Constants
  <1>6. NewDelegation(d, v) /\ phase' = phase /\ sent' = sent
    <2>1. MayIncrement(rwd[v]) /\ MayReference(Incremented(rwd[v]))
      BY <1>2, <1>3, <1>4, <1>5, NewDelegationStep
    <2> QED BY <2>1 DEF ReinitDelegation
  <1>7. UNCHANGED <<slashes, pool, bank, owed>>
    BY <1>6 DEF NewDelegation
  <1>8. /\ rwd' \in [Validator -> Record]
        /\ start' \in [Pair -> [period : Period, height : 0..MaxHeight] \cup {NoInfo}]
        /\ \A w \in Validator \ {v} : rwd'[w] = rwd[w]
        /\ \A q \in Pair : q # <<d, v>> => start'[q] = start[q]
        /\ rwd'[v].period = rwd[v].period + 1
        /\ rwd'[v].commission = rwd[v].commission
        /\ rwd'[v].outstanding = rwd[v].outstanding
        /\ start'[<<d, v>>] # NoInfo /\ start'[<<d, v>>].height = height
        /\ Consistent(rwd'[v], Visited(v) \cup {d}, StartsAt(v)', slashes[v])
    BY <1>2, <1>3, <1>4, <1>5, <1>6, NewDelegationStep
  <1>9. Typed'
    BY <1>1, <1>2, <1>6, <1>7, <1>8 DEF Typed
  <1>10. TodoInv'
    BY <1>1, <1>6 DEF IInv, TodoInv
  <1>11. RefsInv'
    <2>1. ASSUME NEW w \in Validator
          PROVE  Consistent(rwd'[w], Counted(w)', StartsAt(w)', slashes'[w])
      <3>1. Counted(w)' = Visited(w)'
        BY <1>1, <1>6 DEF Counted, OldPhases
      <3>2. CASE w = v
        BY <1>3, <1>7, <1>8, <3>1, <3>2
      <3>3. CASE w # v
        <4>1. rwd'[w] = rwd[w] /\ \A e \in Delegator : start'[<<e, w>>] = start[<<e, w>>]
          BY <1>8, <3>3 DEF Pair
        <4>2. Visited(w)' = Visited(w) /\ Visited(w) \in SUBSET Delegator
          BY <1>3, <3>3, VisitedBounds
        <4>3. slashes'[w] = slashes[w] /\ Consistent(rwd[w], Visited(w), StartsAt(w), slashes[w])
          BY <1>2, <1>7
        <4>4. Consistent(rwd'[w], Visited(w), StartsAt(w)', slashes'[w])
          BY <4>1, <4>2, <4>3, OtherCounts
        <4> QED BY <3>1, <4>2, <4>4
      <3> QED BY <3>2, <3>3
    <2>2. \A q \in Pair : IF q \in dels' THEN start'[q] # NoInfo ELSE start'[q] = NoInfo
      BY <1>1, <1>8 DEF IInv, RefsInv
    <2>3. dels' \in SUBSET Pair
      BY <1>9 DEF Typed
    <2> QED BY <1>1, <1>2, <1>6, <1>7, <2>1, <2>2, <2>3 DEF RefsInv, OldPhases
  <1>12. PeriodInv'
    <2>1. ASSUME NEW w \in Validator
          PROVE  rwd'[w].period = 1 + Cardinality(Visited(w)')
      <3>1. CASE w = v
        <4> DEFINE n == Cardinality(Visited(v)) m == Cardinality(Visited(v)')
        <4>1. m = n + 1 /\ n \in Nat /\ rwd[v].period = 1 + n
          BY <1>2, <1>3, <1>4
        <4>2. rwd'[v].period = rwd[v].period + 1
          BY <1>8
        <4> HIDE DEF n, m
        <4> QED BY <3>1, <4>1, <4>2 DEF m
      <3>2. CASE w # v
        BY <1>2, <1>3, <1>8, <3>2
      <3> QED BY <3>1, <3>2
    <2> QED BY <1>1, <1>6, <2>1 DEF PeriodInv
  <1>13. BooksBalance' /\ Covered'
    BY <1>2, <1>7, <1>8, SameMoney DEF Typed
  <1>14. OwedInv'
    BY <1>1, <1>2, <1>6, <1>7, <1>13 DEF OwedInv, OldPhases
  <1>15. PaidInv'
    BY <1>1, <1>6, <1>7 DEF IInv, PaidInv, NewPhases
  <1>16. FreshInv'
    <2>1. \A w \in Validator : rwd'[w].commission = 0 /\ rwd'[w].outstanding = 0
      BY <1>1, <1>8 DEF IInv, FreshInv, NewPhases
    <2>2. \A q \in dels' : q \notin todo' => start'[q].height = 0
      <3>1. \A q \in dels : q \notin todo => start[q].height = 0
        BY <1>1 DEF IInv, FreshInv, NewPhases
      <3>2. dels \in SUBSET Pair
        BY <1>2 DEF Typed
      <3> QED BY <1>1, <1>2, <1>8, <3>1, <3>2
    <2> QED BY <1>1, <1>2, <1>6, <2>1, <2>2 DEF FreshInv
  <1> QED BY <1>9, <1>10, <1>11, <1>12, <1>13, <1>14, <1>15, <1>16 DEF IInv

-----------------------------------------------------------------------------
(* The invariant, and the theorems.                                        *)

\* The new chain has the invariant.
LEMMA InitHolds == Init => IInv
  <1> SUFFICES ASSUME Init PROVE IInv
    OBVIOUS
  <1>1. /\ phase = "running" /\ todo = {} /\ height = 1 /\ saved = 0 /\ dels = {}
        /\ start = [p \in Pair |-> NoInfo] /\ slashes = [v \in Validator |-> {}]
        /\ rwd = [v \in Validator |-> NewValidator] /\ pool = 0 /\ bank = 0
        /\ owed = [p \in Pair |-> 0] /\ due = owed /\ sent = owed
    BY DEF Init
  <1> DEFINE g == [p \in Period |-> IF p = 0 THEN 1 ELSE 0]
  <1>2. g \in [Period -> Nat] /\ g[0] = 1 /\ \A p \in Period : p # 0 => g[p] = 0
    BY Constants
  <1>3. NewValidator = [period |-> 1, refs |-> g, commission |-> 0, outstanding |-> 0]
    BY DEF NewValidator
  <1> HIDE DEF g
  <1>4. \A s : /\ NewValidator \in Record /\ NewValidator.period = 1
               /\ NewValidator.commission = 0 /\ NewValidator.outstanding = 0
               /\ Consistent(NewValidator, {}, s, {})
    BY <1>2, <1>3, NewRecord
  <1>5. Typed
    <2>1. 0 \in 0..MaxHeight /\ 1 \in 0..MaxHeight
      BY RewardsAssumption
    <2>2. owed \in [Pair -> Nat] /\ due \in [Pair -> Nat] /\ sent \in [Pair -> Nat]
      BY <1>1
    <2>3. start \in [Pair -> [period : Period, height : 0..MaxHeight] \cup {NoInfo}]
      BY <1>1
    <2>4. rwd \in [Validator -> Record]
      BY <1>1, <1>4
    <2>5. slashes \in [Validator -> SUBSET Period]
      BY <1>1
    <2> QED BY <1>1, <2>1, <2>2, <2>3, <2>4, <2>5 DEF Typed
  <1>6. TodoInv
    BY <1>1 DEF TodoInv
  <1>7. RefsInv
    <2>1. \A v \in Validator : Counted(v) = {} /\ rwd[v] = NewValidator /\ slashes[v] = {}
      BY <1>1 DEF Counted, OldPhases, DelsOf
    <2>2. \A v \in Validator : Consistent(rwd[v], Counted(v), StartsAt(v), slashes[v])
      BY <1>4, <2>1
    <2> QED BY <1>1, <2>2 DEF RefsInv, OldPhases
  <1>8. PeriodInv
    <2>1. \A v \in Validator : rwd[v].period = 1
      BY <1>1, <1>4
    <2>2. 1 <= MaxRunPeriod + 1
      BY Constants
    <2> QED BY <1>1, <2>1, <2>2 DEF PeriodInv, NewPhases
  <1>9. BooksBalance
    <2>1. Outstanding \in [Validator -> Int] /\ \A v \in Validator : Outstanding[v] = 0
      BY <1>1, <1>4 DEF Outstanding
    <2>2. Total(Outstanding) = 0
      BY <2>1, RewardsAssumption, TotalIsSum, SumOfZeros
    <2> QED BY <1>1, <2>2, Constants DEF BooksBalance
  <1>10. OwedInv
    <2>1. ASSUME NEW v \in Validator
          PROVE  rwd[v].commission + SumOf(OwedTo(v), Delegator) <= rwd[v].outstanding
      <3>1. OwedTo(v) \in [Delegator -> Int] /\ \A d \in Delegator : OwedTo(v)[d] = 0
        BY <1>1 DEF OwedTo, Pair
      <3>2. SumOf(OwedTo(v), Delegator) = 0
        BY <3>1, RewardsAssumption, SumOfZeros
      <3>3. rwd[v].commission = 0 /\ rwd[v].outstanding = 0
        BY <1>1, <1>4
      <3> QED BY <3>2, <3>3
    <2> QED BY <1>1, <2>1 DEF OwedInv, Covered
  <1>11. PaidInv
    BY <1>1 DEF PaidInv, NewPhases
  <1>12. FreshInv
    BY <1>1 DEF FreshInv, NewPhases
  <1> QED BY <1>5, <1>6, <1>7, <1>8, <1>9, <1>10, <1>11, <1>12 DEF IInv

\* Nothing changed keeps it.
LEMMA StutterStep ==
  ASSUME IInv, UNCHANGED vars
  PROVE  IInv'
  <1>1. UNCHANGED <<phase, todo, height, saved, dels, start, slashes, rwd, pool, bank, owed, due, sent>>
    BY DEF vars, dist
  <1>2. Typed' /\ TodoInv' /\ PaidInv' /\ FreshInv'
    BY <1>1 DEF IInv, Typed, TodoInv, PaidInv, FreshInv
  <1>3. RefsInv'
    BY <1>1 DEF IInv, RefsInv, Counted, DelsOf, Visited, StartsAt
  <1>4. PeriodInv'
    BY <1>1 DEF IInv, PeriodInv, Visited
  <1>5. BooksBalance' /\ OwedInv'
    BY <1>1 DEF IInv, BooksBalance, Outstanding, OwedInv, Covered, OwedTo
  <1> QED BY <1>2, <1>3, <1>4, <1>5 DEF IInv

\* Every step keeps the invariant.
LEMMA NextHolds == IInv /\ [Next]_vars => IInv'
  <1> SUFFICES ASSUME IInv, [Next]_vars PROVE IInv'
    OBVIOUS
  <1>1. CASE Chain
    <2>1. CASE \E vs \in SUBSET Validator : BeginBlock(vs)
      BY <2>1, BeginBlockStep
    <2>2. CASE \E d \in Delegator, v \in Validator : Delegate(d, v) \/ Claim(d, v) \/ Undelegate(d, v)
      BY <2>2, DelegateStep, ClaimStep, UndelegateStep
    <2>3. CASE \E v \in Validator : Slash(v)
      BY <2>3, SlashStep
    <2>4. CASE \E v \in Validator :
                 /\ phase = "running" /\ rwd[v].commission > 0
                 /\ WithdrawCommission(v)
                 /\ UNCHANGED <<phase, todo, height, saved, dels, due, sent>>
      BY <2>4, CommissionStep
    <2> QED BY <1>1, <2>1, <2>2, <2>3, <2>4 DEF Chain
  <1>2. CASE Prepare
    <2>1. CASE Export \/ LoopEnds \/ Clear \/ ResetHeight
      BY <2>1, ExportStep, LoopEndsStep, ClearStep, ResetHeightStep
    <2>2. CASE \E v \in Validator : ExportCommission(v) \/ ReinitValidator(v)
      BY <2>2, ExportCommissionStep, ReinitValidatorStep
    <2>3. CASE \E d \in Delegator, v \in Validator : ExportRewards(d, v) \/ ReinitDelegation(d, v)
      BY <2>3, ExportRewardsStep, ReinitDelegationStep
    <2> QED BY <1>2, <2>1, <2>2, <2>3 DEF Prepare
  <1>3. CASE Stopped \/ UNCHANGED vars
    BY <1>3, StutterStep DEF Stopped
  <1> QED BY <1>1, <1>2, <1>3 DEF Next

\* The inductive invariant: the records of the running chain count every
\* reference once, so do the records the preparation has built anew, and the
\* books balance at every step of both.
THEOREM Invariance == Spec => []IInv
  BY InitHolds, NextHolds, PTL DEF Spec
\* Types: no amount, no period and no count leaves its range, whatever the
\* chain did before the export and in whatever order the stores are visited.
THEOREM TypeCorrect == Spec => []TypeOK
  <1>1. IInv => TypeOK
    <2> SUFFICES ASSUME IInv PROVE TypeOK
      OBVIOUS
    <2>1. Typed
      BY DEF IInv
    <2>2. todo \in SUBSET (Validator \cup Pair)
      BY <2>1 DEF IInv, TodoInv, Typed, Loops
    <2>3. bank \in Nat
      <3>1. Outstanding \in [Validator -> Int] /\ Outstanding \in [Validator -> Nat]
        BY <2>1 DEF Outstanding, Typed, Record
      <3>2. Total(Outstanding) = SumOf(Outstanding, Validator) /\ SumOf(Outstanding, Validator) \in Nat
        BY <3>1, TotalIsSum, RewardsAssumption, SumIsNat
      <3>3. bank * Scale >= 0 /\ bank \in Int
        BY <2>1, <3>2 DEF IInv, BooksBalance, Typed
      <3> QED BY <3>3, Constants, NotNegative
    <2>4. ASSUME NEW v \in Validator
          PROVE  rwd[v] \in [period : 1..(MaxPeriod + 1), refs : [Period -> 0..3],
                             commission : Nat, outstanding : Nat]
      <3>1. rwd[v] \in Record
        BY <2>1 DEF Typed
      <3>2. \A p \in Period : rwd[v].refs[p] \in 0..3
        <4>1. CASE phase = "validators" /\ v \in todo
          BY <4>1 DEF IInv, RefsInv
        <4>2. CASE ~(phase = "validators" /\ v \in todo)
          <5>1. Consistent(rwd[v], Counted(v), StartsAt(v), slashes[v])
            BY <4>2 DEF IInv, RefsInv
          <5>2. Counted(v) \in SUBSET Delegator
            BY DEF Counted, DelsOf, Visited
          <5> QED BY <3>1, <5>1, <5>2, CountsAreBounded
        <4> QED BY <4>1, <4>2
      <3>3. rwd[v].refs \in [Period -> 0..3]
        BY <3>1, <3>2 DEF Record
      <3> QED BY <3>1, <3>3 DEF Record
    <2>5. rwd \in [Validator -> [period : 1..(MaxPeriod + 1), refs : [Period -> 0..3],
                                 commission : Nat, outstanding : Nat]]
      BY <2>1, <2>4 DEF Typed
    <2> QED BY <2>1, <2>2, <2>3, <2>5 DEF TypeOK, Typed
  <1> QED BY <1>1, Invariance, PTL

\* The coins of the module account are the outstanding rewards and the
\* community pool, to the fraction, at every step of the chain and of the
\* preparation (app/export.go:86-173).
THEOREM BooksAlwaysBalance == Spec => []BooksBalance
  <1>1. IInv => BooksBalance
    BY DEF IInv
  <1> QED BY <1>1, Invariance, PTL

\* Each historical record is counted as often as it is referred to, before the
\* records are wiped and again when the preparation is done
\* (app/export.go:124-194).
THEOREM ReferencesAlwaysCounted == Spec => []ReferencesCounted
  <1>1. IInv => ReferencesCounted
    <2> SUFFICES ASSUME IInv, phase \in {"running", "commissions", "rewards", "done"},
                        NEW v \in Validator, NEW p \in Period
                 PROVE  rwd[v].refs[p] = RefCountOf(v, p)
      BY DEF ReferencesCounted
    <2>1. Consistent(rwd[v], Counted(v), StartsAt(v), slashes[v])
      BY DEF IInv, RefsInv
    <2>2. Counted(v) = DelsOf(v)
      BY DEF Counted, OldPhases, Visited, DelsOf, IInv, TodoInv
    <2>3. Starts(DelsOf(v), StartsAt(v), p) = Referents(v, p)
      <3>1. \A d \in Delegator : start[<<d, v>>].period = p => <<d, v>> \in dels
        <4> SUFFICES ASSUME NEW d \in Delegator, <<d, v>> \notin dels PROVE start[<<d, v>>].period # p
          OBVIOUS
        <4>1. start[<<d, v>>] = NoInfo
          BY DEF IInv, RefsInv, Pair
        <4>2. start[<<d, v>>].period = -1
          BY <4>1 DEF NoInfo
        <4> QED BY <4>2, Constants
      <3> QED BY <3>1 DEF Starts, StartsAt, Referents, DelsOf
    <2>4. rwd[v].refs[p] = NStarts(DelsOf(v), StartsAt(v), p) + NSlashes(slashes[v], p)
                           + (IF rwd[v].period = p + 1 THEN 1 ELSE 0)
      BY <2>1, <2>2 DEF Consistent
    <2> QED BY <2>3, <2>4 DEF RefCountOf, NStarts, NSlashes
  <1> QED BY <1>1, Invariance, PTL

\* No hook of the distribution module panics: the preparation of any chain
\* reaches its end (app/export.go:103-122 and 169-193).
THEOREM NoPanic == Spec => []NeverPanics
  <1>1. IInv => NeverPanics
    BY DEF IInv, Typed, NeverPanics, Loops
  <1> QED BY <1>1, Invariance, PTL

\* When the preparation is done, each delegation has been paid the whole coins
\* it was owed when the export began (app/export.go:103-122).
THEOREM AllArePaid == Spec => []DelegatorsArePaid
  <1>1. IInv => DelegatorsArePaid
    BY DEF IInv, PaidInv, NewPhases, DelegatorsArePaid
  <1> QED BY <1>1, Invariance, PTL

\* What is exported is the store of a chain that starts: every coin of the
\* account in the pool, one period per delegation, no slash event, and every
\* delegation starting at height zero from a period of its own
\* (app/export.go:124-197).
THEOREM ExportIsFresh == Spec => []FreshStart
  <1>1. IInv => FreshStart
    <2> SUFFICES ASSUME IInv, phase = "done" PROVE FreshStart
      BY DEF FreshStart
    <2>1. phase \in NewPhases /\ phase \notin OldPhases /\ todo = {} /\ phase # "validators"
      BY DEF NewPhases, OldPhases, IInv, TodoInv
    <2>2. \A v \in Validator : Counted(v) = DelsOf(v) /\ Visited(v) = DelsOf(v)
      BY <2>1 DEF Counted, Visited, DelsOf
    <2>3. pool = bank * Scale
      <3>1. \A v \in Validator : rwd[v].outstanding = 0
        BY <2>1 DEF IInv, FreshInv
      <3>2. Outstanding \in [Validator -> Int] /\ \A v \in Validator : Outstanding[v] = 0
        BY <3>1 DEF Outstanding
      <3>3. Total(Outstanding) = 0
        BY <3>2, TotalIsSum, RewardsAssumption, SumOfZeros
      <3> QED BY <3>3 DEF IInv, BooksBalance, Typed
    <2>4. ASSUME NEW v \in Validator
          PROVE  /\ slashes[v] = {} /\ rwd[v].commission = 0 /\ rwd[v].outstanding = 0
                 /\ rwd[v].period = 1 + Cardinality({d \in Delegator : <<d, v>> \in dels})
      <3>1. slashes[v] = {} /\ rwd[v].commission = 0 /\ rwd[v].outstanding = 0
        BY <2>1 DEF IInv, RefsInv, FreshInv
      <3>2. rwd[v].period = 1 + Cardinality(DelsOf(v))
        BY <2>1, <2>2 DEF IInv, PeriodInv
      <3> QED BY <3>1, <3>2 DEF DelsOf
    <2>5. ASSUME NEW p \in Pair
          PROVE  IF p \in dels THEN start[p] # NoInfo /\ start[p].height = 0
                 ELSE start[p] = NoInfo
      BY <2>1 DEF IInv, RefsInv, FreshInv
    <2>6. ASSUME NEW p \in dels, NEW q \in dels, p # q, p[2] = q[2]
          PROVE  start[p].period # start[q].period
      <3>1. PICK d \in Delegator, e \in Delegator, v \in Validator : p = <<d, v>> /\ q = <<e, v>>
        BY <2>6 DEF IInv, Typed, Pair
      <3>2. d # e /\ d \in DelsOf(v) /\ e \in DelsOf(v)
        BY <2>6, <3>1 DEF DelsOf
      <3>3. Consistent(rwd[v], DelsOf(v), StartsAt(v), slashes[v])
        BY <2>1, <2>2 DEF IInv, RefsInv
      <3>4. StartsAt(v)[d] # StartsAt(v)[e]
        BY <3>2, <3>3 DEF Consistent
      <3> QED BY <3>1, <3>4 DEF StartsAt
    <2> QED BY <2>3, <2>4, <2>5, <2>6 DEF FreshStart
  <1> QED BY <1>1, Invariance, PTL
=============================================================================
