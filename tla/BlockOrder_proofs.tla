-------------------------- MODULE BlockOrder_proofs --------------------------
(***************************************************************************)
(* Theorems of BlockOrder for every number of validators, every limit and  *)
(* any number of blocks.                                                   *)
(***************************************************************************)
EXTENDS BlockOrder, FiniteLemmas

\* What is left of orderBeginBlockers before, and after, slashing comes up.
BeforeSlashing ==
  {<<"mint", "distribution", "slashing", "feemarket", "feemarket">>,
   <<"distribution", "slashing", "feemarket", "feemarket">>}
FromSlashing ==
  {<<"slashing", "feemarket", "feemarket">>, <<"feemarket", "feemarket">>,
   <<"feemarket">>, <<>>}

\* In the begin phase the modules left are a tail of the order, and from
\* slashing on the collector is empty in all blocks but the first.
FeesInv ==
  phase = "begin" =>
    /\ todo \in BeforeSlashing \cup FromSlashing
    /\ (height > 1 /\ todo \in FromSlashing) => collector = 0

\* Before slashing comes up, it is still ahead of the modules to run.
LEMMA SlashingIsAhead ==
  ASSUME NEW s \in BeforeSlashing
  PROVE  s # <<>> /\ "slashing" \in ToSet(Tail(s))
<1>1. CASE s = <<"mint", "distribution", "slashing", "feemarket", "feemarket">>
  <2>. DEFINE t == <<"distribution", "slashing", "feemarket", "feemarket">>
  <2>1. Tail(s) = t /\ s # <<>>
    BY <1>1
  <2>2. 2 \in DOMAIN t /\ t[2] = "slashing"
    OBVIOUS
  <2>. QED BY <2>1, <2>2 DEF ToSet
<1>2. CASE s = <<"distribution", "slashing", "feemarket", "feemarket">>
  <2>. DEFINE t == <<"slashing", "feemarket", "feemarket">>
  <2>1. Tail(s) = t /\ s # <<>>
    BY <1>2
  <2>2. 1 \in DOMAIN t /\ t[1] = "slashing"
    OBVIOUS
  <2>. QED BY <2>1, <2>2 DEF ToSet
<1>. QED BY <1>1, <1>2 DEF BeforeSlashing

\* One module's part moves the order to the tail that follows it.
LEMMA NextModule ==
  ASSUME NEW s \in BeforeSlashing \cup FromSlashing, s # <<>>
  PROVE  /\ Head(s) = "mint" => Tail(s) \in BeforeSlashing
         /\ Head(s) = "distribution" => Tail(s) \in FromSlashing
         /\ Head(s) \in {"slashing", "feemarket"} =>
              s \in FromSlashing /\ Tail(s) \in FromSlashing
<1>1. CASE s = <<"mint", "distribution", "slashing", "feemarket", "feemarket">>
  BY <1>1 DEF BeforeSlashing
<1>2. CASE s = <<"distribution", "slashing", "feemarket", "feemarket">>
  BY <1>2 DEF FromSlashing
<1>3. CASE s = <<"slashing", "feemarket", "feemarket">>
  BY <1>3 DEF FromSlashing
<1>4. CASE s = <<"feemarket", "feemarket">>
  BY <1>4 DEF FromSlashing
<1>5. CASE s = <<"feemarket">>
  BY <1>5 DEF FromSlashing
<1>. QED BY <1>1, <1>2, <1>3, <1>4, <1>5 DEF BeforeSlashing, FromSlashing

\* The invariant is kept by every step; only the begin phase needs an argument.
LEMMA FeesStep == FeesInv /\ [Next]_vars => FeesInv'
<1>. SUFFICES ASSUME FeesInv, [Next]_vars, phase' = "begin"
              PROVE  /\ todo' \in BeforeSlashing \cup FromSlashing
                     /\ (height' > 1 /\ todo' \in FromSlashing) => collector' = 0
  BY DEF FeesInv
<1>0. orderBeginBlockers \in BeforeSlashing /\ orderBeginBlockers \notin FromSlashing
  BY DEF orderBeginBlockers, BeforeSlashing, FromSlashing
<1>00. \A s \in BeforeSlashing : s \notin FromSlashing
  BY DEF BeforeSlashing, FromSlashing
<1>1. CASE InitChainer \/ Commit
  BY <1>0, <1>1 DEF InitChainer, Commit
<1>2. CASE MintBegin
  <2>1. todo' \in BeforeSlashing
    BY <1>2, NextModule DEF MintBegin, Runs, FeesInv
  <2>. QED BY <2>1, <1>00
<1>3. CASE DistributionBegin
  <2>1. todo' \in FromSlashing
    BY <1>3, NextModule DEF DistributionBegin, Runs, FeesInv
  <2>2. height' = height /\ (height > 1 => collector' = 0)
    BY <1>3 DEF DistributionBegin, Runs
  <2>. QED BY <2>1, <2>2
<1>4. CASE SlashingBegin \/ FeemarketBegin
  <2>1. todo \in FromSlashing /\ todo' \in FromSlashing
    BY <1>4, NextModule DEF SlashingBegin, FeemarketBegin, Runs, FeesInv
  <2>2. phase = "begin" /\ height' = height /\ collector' = collector
    BY <1>4 DEF SlashingBegin, FeemarketBegin, Runs, fees
  <2>. QED BY <2>1, <2>2 DEF FeesInv
<1>5. CASE UNCHANGED vars
  BY <1>5 DEF vars, fees, FeesInv
<1>6. CASE Ended
  BY <1>6, <1>5 DEF Ended
<1>7. CASE \E name \in Names : GenesisOf(name)
  BY <1>7 DEF GenesisOf, Runs
<1>8. CASE GenutilGenesis \/ ProviderGenesis
  BY <1>8 DEF GenutilGenesis, ProviderGenesis, Runs
<1>9. CASE StartTxs \/ Transaction \/ StartEnd
  BY <1>9 DEF StartTxs, Transaction, StartEnd
<1>10. CASE GovEnd \/ StakingEnd \/ FeemarketEnd \/ ProviderEnd
  BY <1>10 DEF GovEnd, StakingEnd, FeemarketEnd, ProviderEnd, Runs
<1>. QED BY <1>1, <1>2, <1>3, <1>4, <1>5, <1>6, <1>7, <1>8, <1>9, <1>10 DEF Next

\* From slashing to the first transaction of every block but the first, the
\* fee collector is empty: what the blocks before collected, and what was
\* minted, has been shared (app/app.go:237-239).
THEOREM FeesAreShared == Spec => []NothingLeftOver
<1>1. Init => FeesInv
  BY DEF Init, FeesInv
<1>2. FeesInv => NothingLeftOver
  BY SlashingIsAhead DEF FeesInv, NothingLeftOver
<1>. QED BY <1>1, <1>2, FeesStep, PTL DEF Spec

-----------------------------------------------------------------------------
(* The signers follow staking.                                             *)

PowerType == power \in [Validator -> Nat]

\* The validators ahead of v in S, as Strongest counts them.
AheadIn(S, v) == {w \in S : power[w] > power[v] \/ (power[w] = power[v] /\ w < v)}

\* The strongest n are those with fewer than n ahead of them.
LEMMA StrongestByRank ==
  ASSUME NEW S, NEW n
  PROVE  Strongest(S, n) = {v \in S : Cardinality(AheadIn(S, v)) < n}
BY DEF Strongest, AheadIn

\* Ranks are numbers, and who is ahead of w is ahead of those behind w.
LEMMA RankGrows ==
  ASSUME PowerType, NEW S \in SUBSET Validator, NEW v \in S, NEW w \in AheadIn(S, v)
  PROVE  /\ Cardinality(AheadIn(S, v)) \in Nat /\ Cardinality(AheadIn(S, w)) \in Nat
         /\ Cardinality(AheadIn(S, w)) <= Cardinality(AheadIn(S, v))
<1>1. IsFiniteSet(Validator)
  BY FS_Interval, BlockAssumption DEF Validator
<1>2. AheadIn(S, v) \subseteq Validator
  BY DEF AheadIn
<1>3. IsFiniteSet(AheadIn(S, v))
  BY <1>1, <1>2, FS_Subset
<1>4. AheadIn(S, w) \subseteq AheadIn(S, v)
  <2>. SUFFICES ASSUME NEW u \in AheadIn(S, w)
                PROVE  u \in AheadIn(S, v)
    OBVIOUS
  <2>1. u \in Validator /\ v \in Validator /\ w \in Validator /\ u \in S
    BY DEF AheadIn
  <2>2. power[u] \in Nat /\ power[v] \in Nat /\ power[w] \in Nat
    BY <2>1 DEF PowerType
  <2>3. u \in Int /\ v \in Int /\ w \in Int
    BY <2>1, BlockAssumption DEF Validator
  <2>. QED BY <2>1, <2>2, <2>3 DEF AheadIn
<1>. QED BY <1>3, <1>4, FS_Subset, FS_CardinalityType

\* A rank is a natural.
LEMMA RankType ==
  ASSUME NEW S \in SUBSET Validator, NEW v \in S
  PROVE  Cardinality(AheadIn(S, v)) \in Nat
<1>1. IsFiniteSet(Validator)
  BY FS_Interval, BlockAssumption DEF Validator
<1>2. AheadIn(S, v) \subseteq Validator
  BY DEF AheadIn
<1>. QED BY <1>1, <1>2, FS_Subset, FS_CardinalityType

\* The strongest b of the strongest a are the strongest of all, up to the
\* smaller limit: nobody ahead of a chosen one is left out.
LEMMA StrongestOfStrongest ==
  ASSUME PowerType, NEW S \in SUBSET Validator, NEW a \in Nat, NEW b \in Nat
  PROVE  Strongest(Strongest(S, a), b) = Strongest(S, IF b < a THEN b ELSE a)
<1>. DEFINE T == Strongest(S, a)
            m == IF b < a THEN b ELSE a
<1>1. T = {v \in S : Cardinality(AheadIn(S, v)) < a}
  BY StrongestByRank
<1>2. ASSUME NEW v \in T
      PROVE  AheadIn(T, v) = AheadIn(S, v)
  <2>1. v \in S /\ Cardinality(AheadIn(S, v)) < a
    BY <1>1
  <2>2. ASSUME NEW w \in AheadIn(S, v)
        PROVE  w \in T
    <3>1. /\ Cardinality(AheadIn(S, v)) \in Nat /\ Cardinality(AheadIn(S, w)) \in Nat
          /\ Cardinality(AheadIn(S, w)) <= Cardinality(AheadIn(S, v))
      BY <2>1, RankGrows
    <3>2. w \in S
      BY DEF AheadIn
    <3>. QED BY <1>1, <2>1, <3>1, <3>2
  <2>3. T \subseteq S
    BY <1>1
  <2>. QED BY <2>2, <2>3 DEF AheadIn
<1>3. Strongest(T, b) = {v \in T : Cardinality(AheadIn(T, v)) < b}
  BY StrongestByRank
<1>4. Strongest(T, b) = {v \in T : Cardinality(AheadIn(S, v)) < b}
  BY <1>2, <1>3
<1>5. Strongest(S, m) = {v \in S : Cardinality(AheadIn(S, v)) < m}
  BY StrongestByRank
<1>6. \A v \in S : Cardinality(AheadIn(S, v)) \in Nat
  BY RankType
<1>. HIDE DEF T
<1>7. \A v \in S : (v \in T /\ Cardinality(AheadIn(S, v)) < b)
                      <=> Cardinality(AheadIn(S, v)) < m
  BY <1>1, <1>6
<1>8. T \subseteq S
  BY <1>1
<1>. QED BY <1>4, <1>5, <1>7, <1>8 DEF T

\* What is left of orderEndBlockers before staking comes up, between staking
\* and the provider, and after the provider.
BeforeStaking ==
  {<<"gov", "staking", "feemarket", "provider", "feemarket">>,
   <<"staking", "feemarket", "provider", "feemarket">>}
Staked == {<<"feemarket", "provider", "feemarket">>, <<"provider", "feemarket">>}
Signed == {<<"feemarket">>, <<>>}

\* The tails the end order goes through are told apart by what has run.
LEMMA EndTails ==
  /\ orderEndBlockers \in BeforeStaking
  /\ \A s \in BeforeStaking : s \notin Staked /\ s \notin Signed
  /\ \A s \in Staked : s \notin Signed
  /\ <<>> \in Signed
<1>1. \A s \in BeforeStaking : Len(s) \in {4, 5}
  BY DEF BeforeStaking
<1>2. \A s \in Staked : Len(s) \in {2, 3}
  BY DEF Staked
<1>3. \A s \in Signed : Len(s) \in {0, 1}
  BY DEF Signed
<1>4. orderEndBlockers \in BeforeStaking /\ <<>> \in Signed
  BY DEF orderEndBlockers, BeforeStaking, Signed
<1>. QED BY <1>1, <1>2, <1>3, <1>4

\* Where the first module of a tail leads.
LEMMA NextAtEnd ==
  ASSUME NEW s \in BeforeStaking \cup Staked \cup Signed, s # <<>>
  PROVE  /\ Head(s) = "gov" => Tail(s) \in BeforeStaking
         /\ Head(s) = "staking" => Tail(s) \in Staked
         /\ Head(s) = "provider" => s \in Staked /\ Tail(s) \in Signed
         /\ Head(s) = "feemarket" =>
              \/ s \in Staked /\ Tail(s) \in Staked
              \/ s \in Signed /\ Tail(s) \in Signed
<1>1. CASE s = <<"gov", "staking", "feemarket", "provider", "feemarket">>
  BY <1>1 DEF BeforeStaking
<1>2. CASE s = <<"staking", "feemarket", "provider", "feemarket">>
  BY <1>2 DEF Staked
<1>3. CASE s = <<"feemarket", "provider", "feemarket">>
  BY <1>3 DEF Staked
<1>4. CASE s = <<"provider", "feemarket">>
  BY <1>4 DEF Staked, Signed
<1>5. CASE s = <<"feemarket">>
  BY <1>5 DEF Signed
<1>. QED BY <1>1, <1>2, <1>3, <1>4, <1>5 DEF BeforeStaking, Staked, Signed

\* In the end phase the modules left are a tail of the order; after staking's
\* part the bonded set is up to date, after the provider's the signers are.
EndInv ==
  phase = "end" =>
    /\ todo \in BeforeStaking \cup Staked \cup Signed
    /\ todo \in Staked \cup Signed => bonded = Bonded
    /\ todo \in Signed => signers = ConsensusSet

SetInv ==
  /\ PowerType
  /\ params \in Params /\ proposal \in Params \cup {NoProposal}
  /\ EndInv

\* The end phase, module by module.
LEMMA EndStep == SetInv /\ [Next]_vars => EndInv'
<1>. SUFFICES ASSUME SetInv, [Next]_vars, phase' = "end"
              PROVE  /\ todo' \in BeforeStaking \cup Staked \cup Signed
                     /\ todo' \in Staked \cup Signed => bonded' = Bonded'
                     /\ todo' \in Signed => signers' = ConsensusSet'
  BY DEF EndInv
<1>. USE DEF SetInv
<1>1. CASE StartEnd
  BY <1>1, EndTails DEF StartEnd
<1>2. CASE GovEnd
  <2>1. todo' \in BeforeStaking
    BY <1>2, NextAtEnd DEF GovEnd, Runs, EndInv
  <2>. QED BY <2>1, EndTails
<1>3. CASE StakingEnd
  <2>1. todo' \in Staked
    BY <1>3, NextAtEnd DEF StakingEnd, Runs, EndInv
  <2>2. bonded' = Bonded /\ power' = power /\ jailed' = jailed
    BY <1>3 DEF StakingEnd
  <2>3. Bonded' = Bonded
    BY <2>2 DEF Bonded, Strongest, Eligible
  <2>. QED BY <2>1, <2>2, <2>3, EndTails
<1>4. CASE FeemarketEnd
  <2>1. \/ todo \in Staked /\ todo' \in Staked
        \/ todo \in Signed /\ todo' \in Signed
    BY <1>4, NextAtEnd DEF FeemarketEnd, Runs, EndInv
  <2>2. phase = "end" /\ UNCHANGED <<staking, signers, params>>
    BY <1>4 DEF FeemarketEnd, Runs
  <2>3. Bonded' = Bonded /\ ConsensusSet' = ConsensusSet
    BY <2>2 DEF Bonded, ConsensusSet, Strongest, Eligible, staking
  <2>. QED BY <2>1, <2>2, <2>3, EndTails DEF EndInv, staking
<1>5. CASE ProviderEnd
  <2>1. todo \in Staked /\ todo' \in Signed
    BY <1>5, NextAtEnd DEF ProviderEnd, Runs, EndInv
  <2>2. phase = "end" /\ UNCHANGED <<staking, params>> /\ signers' = ConsensusSet
    BY <1>5 DEF ProviderEnd, Runs
  <2>3. Bonded' = Bonded /\ ConsensusSet' = ConsensusSet
    BY <2>2 DEF Bonded, ConsensusSet, Strongest, Eligible, staking
  <2>. QED BY <2>1, <2>2, <2>3, EndTails DEF EndInv, staking
<1>6. CASE Ended \/ UNCHANGED vars
  <2>1. UNCHANGED <<phase, todo, staking, signers, params>>
    BY <1>6 DEF Ended, vars
  <2>2. Bonded' = Bonded /\ ConsensusSet' = ConsensusSet
    BY <2>1 DEF Bonded, ConsensusSet, Strongest, Eligible, staking
  <2>. QED BY <2>1, <2>2 DEF EndInv, staking
<1>7. CASE \E name \in Names : GenesisOf(name)
  BY <1>7 DEF GenesisOf, Runs
<1>8. CASE GenutilGenesis \/ ProviderGenesis \/ InitChainer
  BY <1>8 DEF GenutilGenesis, ProviderGenesis, InitChainer, Runs
<1>9. CASE MintBegin \/ DistributionBegin \/ SlashingBegin \/ FeemarketBegin
  BY <1>9 DEF MintBegin, DistributionBegin, SlashingBegin, FeemarketBegin, Runs
<1>10. CASE StartTxs \/ Transaction \/ Commit
  BY <1>10 DEF StartTxs, Transaction, Commit
<1>. QED BY <1>1, <1>2, <1>3, <1>4, <1>5, <1>6, <1>7, <1>8, <1>9, <1>10 DEF Next

\* Powers and parameters keep their types.
LEMMA SetTypes ==
  SetInv /\ [Next]_vars =>
    PowerType' /\ params' \in Params /\ proposal' \in Params \cup {NoProposal}
<1>. SUFFICES ASSUME SetInv, [Next]_vars
              PROVE  PowerType' /\ params' \in Params /\ proposal' \in Params \cup {NoProposal}
  OBVIOUS
<1>. USE DEF SetInv, PowerType
<1>1. CASE GenutilGenesis
  BY <1>1, BlockAssumption DEF GenutilGenesis
<1>2. CASE InitChainer
  BY <1>2 DEF InitChainer, Params, staking
<1>3. CASE SlashingBegin
  BY <1>3 DEF SlashingBegin
<1>4. CASE Transaction
  BY <1>4 DEF Transaction
<1>5. CASE GovEnd
  BY <1>5 DEF GovEnd, staking
<1>6. CASE Ended \/ UNCHANGED vars
  BY <1>6 DEF Ended, vars, staking
<1>7. CASE \E name \in Names : GenesisOf(name)
  BY <1>7 DEF GenesisOf, staking
<1>8. CASE ProviderGenesis \/ MintBegin \/ DistributionBegin \/ FeemarketBegin
  BY <1>8 DEF ProviderGenesis, MintBegin, DistributionBegin, FeemarketBegin, staking
<1>9. CASE StartTxs \/ StartEnd \/ StakingEnd \/ FeemarketEnd \/ ProviderEnd \/ Commit
  BY <1>9 DEF StartTxs, StartEnd, StakingEnd, FeemarketEnd, ProviderEnd, Commit, staking
<1>. QED BY <1>1, <1>2, <1>3, <1>4, <1>5, <1>6, <1>7, <1>8, <1>9 DEF Next

\* When a block ends, the signers of the next are the strongest validators that
\* are not jailed, as many as both limits allow: the provider's step uses what
\* staking's has just bonded, and no step between them changes it
\* (orderEndBlockers, app/module.go:209-241).
THEOREM SignersFollowStaking == Spec => []SetFollowsStaking
<1>1. Init => SetInv
  BY BlockAssumption DEF Init, SetInv, PowerType, EndInv
<1>2. SetInv /\ [Next]_vars => SetInv'
  BY EndStep, SetTypes DEF SetInv
<1>3. SetInv => SetFollowsStaking
  <2>. SUFFICES ASSUME SetInv, phase = "end", todo = <<>>
                PROVE  /\ signers \subseteq Eligible
                       /\ signers = Strongest(Eligible,
                                      IF params.maxSigners < MaxValidators
                                      THEN params.maxSigners ELSE MaxValidators)
    BY DEF SetFollowsStaking
  <2>1. signers = Strongest(Bonded, params.maxSigners)
    BY EndTails DEF SetInv, EndInv, ConsensusSet
  <2>2. params.maxSigners \in Nat /\ MaxValidators \in Nat
    BY BlockAssumption DEF SetInv, Params
  <2>3. Eligible \in SUBSET Validator
    BY DEF Eligible
  <2>4. signers = Strongest(Eligible, IF params.maxSigners < MaxValidators
                                      THEN params.maxSigners ELSE MaxValidators)
    BY <2>1, <2>2, <2>3, StrongestOfStrongest DEF SetInv, Bonded
  <2>5. signers \subseteq Eligible
    BY <2>4 DEF Strongest
  <2>. QED BY <2>4, <2>5
<1>. QED BY <1>1, <1>2, <1>3, PTL DEF Spec

-----------------------------------------------------------------------------
(* Types, and the size of the bonded set.                                  *)

\* Who is ahead of whom, as a strict order.
ahead == {p \in Validator \X Validator :
            power[p[1]] > power[p[2]] \/ (power[p[1]] = power[p[2]] /\ p[1] < p[2])}

\* The strongest n are no more than n, and some when there is one to choose.
LEMMA StrongestSize ==
  ASSUME PowerType, NEW S \in SUBSET Validator, NEW n \in Nat
  PROVE  /\ Strongest(S, n) \subseteq S /\ Cardinality(Strongest(S, n)) <= n
         /\ S # {} /\ n > 0 => Strongest(S, n) # {}
<1>1. IsFiniteSet(S)
  <2>1. IsFiniteSet(Validator)
    BY FS_Interval, BlockAssumption DEF Validator
  <2>. QED BY <2>1, FS_Subset
<1>2. \A v \in S : v \in Validator /\ v \in Int /\ power[v] \in Int
  BY BlockAssumption DEF Validator, PowerType
<1>3. StrictOrder(S, ahead)
  <2>. DEFINE Ahead(v, w) == power[v] > power[w] \/ (power[v] = power[w] /\ v < w)
  <2>1. \A v, w \in S : <<v, w>> \in ahead <=> Ahead(v, w)
    BY <1>2 DEF ahead
  <2>2. \A v \in S : ~Ahead(v, v)
    BY <1>2
  <2>3. \A u, v, w \in S : Ahead(u, v) /\ Ahead(v, w) => Ahead(u, w)
    BY <1>2
  <2>4. \A v, w \in S : v = w \/ Ahead(v, w) \/ Ahead(w, v)
    BY <1>2
  <2>. HIDE DEF Ahead
  <2>. QED BY <2>1, <2>2, <2>3, <2>4 DEF StrictOrder
<1>4. \A v \in S : AheadIn(S, v) = Preceding(S, ahead, v)
  BY DEF AheadIn, Preceding, ahead
<1>5. Strongest(S, n) = Leading(S, ahead, n)
  BY <1>4, StrongestByRank DEF Leading, Place
<1>6. Leading(S, ahead, n) \subseteq S
  BY DEF Leading
<1>. QED BY <1>1, <1>3, <1>5, <1>6, LeadingSize

\* The orders list modules, and the provider is one of them.
LEMMA OrdersAreLists ==
  /\ orderInitBlockers \in Seq(Names) /\ orderBeginBlockers \in Seq(Names)
  /\ orderEndBlockers \in Seq(Names)
  /\ "provider" \in Names /\ "genutil" \in Names
<1>1. /\ orderInitBlockers \in Seq(ToSet(orderInitBlockers))
      /\ orderBeginBlockers \in Seq(ToSet(orderBeginBlockers))
      /\ orderEndBlockers \in Seq(ToSet(orderEndBlockers))
  BY DEF orderInitBlockers, orderBeginBlockers, orderEndBlockers, ToSet
<1>2. /\ ToSet(orderInitBlockers) \subseteq Names /\ ToSet(orderBeginBlockers) \subseteq Names
      /\ ToSet(orderEndBlockers) \subseteq Names
  BY DEF Names
<1>3. "provider" \in ToSet(orderInitBlockers) /\ "genutil" \in ToSet(orderInitBlockers)
  <2>1. 10 \in DOMAIN orderInitBlockers /\ orderInitBlockers[10] = "provider"
    BY DEF orderInitBlockers
  <2>2. 8 \in DOMAIN orderInitBlockers /\ orderInitBlockers[8] = "genutil"
    BY DEF orderInitBlockers
  <2>. QED BY <2>1, <2>2 DEF ToSet
<1>. QED BY <1>1, <1>2, <1>3
\* A module's part leaves a shorter list of modules.
LEMMA RunsTypes ==
  ASSUME TypeOK, NEW p, NEW name, Runs(p, name)
  PROVE  phase' = phase /\ height' = height /\ todo' \in Seq(Names)
BY DEF Runs, TypeOK

\* What staking bonds, at the end of a block and at genesis.
BondedIsSome ==
  /\ Bonded \in SUBSET Eligible /\ Eligible \in SUBSET Validator
  /\ Cardinality(Bonded) <= MaxValidators
  /\ Eligible # {} => Bonded # {}

\* No more are bonded than the parameter says.
LEMMA BondedSize == PowerType => BondedIsSome
<1>1. Eligible \in SUBSET Validator /\ MaxValidators \in Nat /\ MaxValidators > 0
  BY BlockAssumption DEF Eligible
<1>. QED BY <1>1, StrongestSize DEF Bonded, BondedIsSome

\* Every step keeps the types.
LEMMA BlockStep == TypeOK /\ [Next]_vars => TypeOK'
<1>. SUFFICES ASSUME TypeOK, [Next]_vars
              PROVE  TypeOK'
  OBVIOUS
<1>0. TypeOK /\ PowerType
  BY BlockAssumption DEF TypeOK, PowerType
<1>1. CASE \E name \in Names : GenesisOf(name)
  <2>. PICK name \in Names : GenesisOf(name)
    BY <1>1
  <2>1. phase' = phase /\ height' = height /\ todo' \in Seq(Names)
    BY <1>0, RunsTypes DEF GenesisOf
  <2>2. /\ ready' = ready \cup {name}
        /\ UNCHANGED <<staking, signers, params, proposal, fees>>
    BY DEF GenesisOf, Becomes
  <2>. QED BY <2>1, <2>2 DEF TypeOK, staking, fees
<1>2. CASE GenutilGenesis
  <2>1. phase' = phase /\ height' = height /\ todo' \in Seq(Names)
    BY <1>0, <1>2, RunsTypes DEF GenutilGenesis
  <2>2. /\ power' \in [Validator -> 0..MaxPower] /\ UNCHANGED <<jailed, signers, params, proposal, fees>>
        /\ bonded' = Bonded' /\ ready' = ready \cup {"genutil"}
    BY <1>2 DEF GenutilGenesis, Becomes
  <2>3. bonded' \in SUBSET Validator /\ Cardinality(bonded') <= MaxValidators
    <3>1. PowerType'
      BY <2>2, BlockAssumption DEF PowerType
    <3>2. (PowerType => BondedIsSome)'
      BY BondedSize, PTL
    <3>. QED BY <2>2, <3>1, <3>2 DEF BondedIsSome
  <2>. QED BY <2>1, <2>2, <2>3, OrdersAreLists DEF TypeOK, fees
<1>3. CASE ProviderGenesis \/ ProviderEnd
  <2>1. phase' = phase /\ height' = height /\ todo' \in Seq(Names)
    BY <1>0, <1>3, RunsTypes DEF ProviderGenesis, ProviderEnd
  <2>2. /\ UNCHANGED <<staking, params, proposal, fees>> /\ signers' = ConsensusSet
        /\ ready' \in {ready, ready \cup {"provider"}}
    BY <1>3 DEF ProviderGenesis, ProviderEnd, Becomes
  <2>3. ConsensusSet \in SUBSET Validator
    BY DEF ConsensusSet, Strongest, TypeOK
  <2>. QED BY <2>1, <2>2, <2>3, OrdersAreLists DEF TypeOK, staking, fees
<1>4. CASE InitChainer
  <2>1. [params EXCEPT !.noBaseFee = TRUE] \in Params
    BY DEF TypeOK, Params
  <2>2. /\ phase' = "begin" /\ todo' = orderBeginBlockers /\ height' = 1
        /\ params' \in Params /\ baseFee' = 0 /\ parentFee' = 0
        /\ UNCHANGED <<ready, staking, signers, proposal, collector, gas, parentGas>>
    BY <1>4, <2>1 DEF InitChainer
  <2>. QED BY <2>2, OrdersAreLists, BlockAssumption DEF TypeOK, staking
<1>5. CASE MintBegin \/ DistributionBegin
  <2>1. phase' = phase /\ height' = height /\ todo' \in Seq(Names)
    BY <1>0, <1>5, RunsTypes DEF MintBegin, DistributionBegin
  <2>2. /\ collector' \in Nat
        /\ UNCHANGED <<ready, staking, signers, params, proposal, baseFee, parentFee,
                       gas, parentGas>>
    BY <1>5 DEF MintBegin, DistributionBegin, TypeOK
  <2>. QED BY <2>1, <2>2 DEF TypeOK, staking
<1>6. CASE SlashingBegin
  <2>1. phase' = phase /\ height' = height /\ todo' \in Seq(Names)
    BY <1>0, <1>6, RunsTypes DEF SlashingBegin
  <2>2. /\ power' \in [Validator -> 0..MaxPower] /\ jailed' \in [Validator -> BOOLEAN]
        /\ UNCHANGED <<ready, bonded, signers, params, proposal, fees>>
    BY <1>6, BlockAssumption DEF SlashingBegin, TypeOK
  <2>. QED BY <2>1, <2>2 DEF TypeOK, fees
<1>7. CASE FeemarketBegin
  <2>1. phase' = phase /\ height' = height /\ todo' \in Seq(Names)
    BY <1>0, <1>7, RunsTypes DEF FeemarketBegin
  <2>2. baseFee' \in 0..MaxBaseFee
    BY <1>7, BlockAssumption DEF FeemarketBegin, TypeOK
  <2>3. UNCHANGED <<ready, staking, signers, params, proposal, collector, parentFee, gas,
                    parentGas>>
    BY <1>7 DEF FeemarketBegin
  <2>. QED BY <2>1, <2>2, <2>3 DEF TypeOK, staking
<1>8. CASE StartTxs \/ StartEnd
  <2>1. /\ phase' \in {"txs", "end"} /\ todo' \in {todo, orderEndBlockers}
        /\ UNCHANGED <<height, ready, staking, signers, params, proposal, fees>>
    BY <1>8 DEF StartTxs, StartEnd
  <2>. QED BY <2>1, OrdersAreLists DEF TypeOK, staking, fees
<1>9. CASE Transaction
  <2>1. /\ UNCHANGED <<phase, todo, height, ready, bonded, signers, params, baseFee,
                       parentFee, parentGas>>
        /\ gas' \in 0..2 /\ collector' \in Nat
    BY <1>9 DEF Transaction, TypeOK
  <2>2. power' \in [Validator -> 0..MaxPower]
    BY <1>9, BlockAssumption DEF Transaction, TypeOK
  <2>3. jailed' \in [Validator -> BOOLEAN] /\ proposal' \in Params \cup {NoProposal}
    BY <1>9 DEF Transaction, TypeOK
  <2>. QED BY <2>1, <2>2, <2>3 DEF TypeOK
<1>10. CASE GovEnd
  <2>1. phase' = phase /\ height' = height /\ todo' \in Seq(Names)
    BY <1>0, <1>10, RunsTypes DEF GovEnd
  <2>2. /\ params' \in Params /\ proposal' \in Params \cup {NoProposal}
        /\ UNCHANGED <<ready, staking, signers, fees>>
    BY <1>10 DEF GovEnd, TypeOK
  <2>. QED BY <2>1, <2>2 DEF TypeOK, staking, fees
<1>11. CASE StakingEnd
  <2>1. phase' = phase /\ height' = height /\ todo' \in Seq(Names)
    BY <1>0, <1>11, RunsTypes DEF StakingEnd
  <2>2. bonded' = Bonded /\ UNCHANGED <<ready, power, jailed, signers, params, proposal, fees>>
    BY <1>11 DEF StakingEnd
  <2>3. bonded' \in SUBSET Validator /\ Cardinality(bonded') <= MaxValidators
    BY <1>0, <2>2, BondedSize DEF BondedIsSome
  <2>. QED BY <2>1, <2>2, <2>3 DEF TypeOK, fees
<1>12. CASE FeemarketEnd
  <2>1. phase' = phase /\ height' = height /\ todo' \in Seq(Names)
    BY <1>0, <1>12, RunsTypes DEF FeemarketEnd
  <2>2. /\ parentGas' = gas
        /\ UNCHANGED <<ready, staking, signers, params, proposal, collector, baseFee,
                       parentFee, gas>>
    BY <1>12 DEF FeemarketEnd
  <2>. QED BY <2>1, <2>2 DEF TypeOK, staking
<1>13. CASE Commit
  <2>1. /\ phase' = "begin" /\ todo' = orderBeginBlockers /\ height' \in 0..MaxHeight
        /\ gas' = 0 /\ parentFee' = baseFee
        /\ UNCHANGED <<ready, staking, signers, params, proposal, collector, baseFee, parentGas>>
    BY <1>13, BlockAssumption DEF Commit, TypeOK
  <2>. QED BY <2>1, OrdersAreLists DEF TypeOK, staking
<1>14. CASE Ended \/ UNCHANGED vars
  BY <1>14 DEF Ended, vars, TypeOK, staking, fees
<1>. QED BY <1>1, <1>2, <1>3, <1>4, <1>5, <1>6, <1>7, <1>8, <1>9, <1>10, <1>11, <1>12, <1>13, <1>14
     DEF Next

\* It holds initially.
LEMMA BlockInit == Init => TypeOK
<1>. SUFFICES ASSUME Init PROVE TypeOK
  OBVIOUS
<1>1. Cardinality({}) <= MaxValidators
  BY FS_EmptySet, BlockAssumption
<1>2. /\ phase = "genesis" /\ todo \in Seq(Names) /\ height \in 0..MaxHeight
      /\ power \in [Validator -> 0..MaxPower] /\ jailed \in [Validator -> BOOLEAN]
      /\ baseFee \in 0..MaxBaseFee /\ parentFee \in 0..MaxBaseFee
  BY OrdersAreLists, BlockAssumption DEF Init
<1>. QED BY <1>1, <1>2 DEF Init, TypeOK

\* Every variable keeps its type; in particular no more than MaxValidators are
\* ever bonded.
THEOREM TypeCorrect == Spec => []TypeOK
<1>. QED BY BlockInit, BlockStep, PTL DEF Spec

-----------------------------------------------------------------------------
(* Genesis.                                                                *)

\* What is left of orderInitBlockers before genutil's genesis; after it, what is
\* left is Staked, and after the provider's it is Signed, as at a block's end.
BeforeGenutil ==
  {<<"auth", "bank", "distribution", "gov", "staking", "slashing", "mint", "genutil", "feemarket",
     "provider", "feemarket">>,
   <<"bank", "distribution", "gov", "staking", "slashing", "mint", "genutil", "feemarket",
     "provider", "feemarket">>,
   <<"distribution", "gov", "staking", "slashing", "mint", "genutil", "feemarket", "provider",
     "feemarket">>,
   <<"gov", "staking", "slashing", "mint", "genutil", "feemarket", "provider", "feemarket">>,
   <<"staking", "slashing", "mint", "genutil", "feemarket", "provider", "feemarket">>,
   <<"slashing", "mint", "genutil", "feemarket", "provider", "feemarket">>,
   <<"mint", "genutil", "feemarket", "provider", "feemarket">>,
   <<"genutil", "feemarket", "provider", "feemarket">>}

\* The genesis of a module that is neither genutil nor the provider leaves the
\* order where it is between the two.
LEMMA NextAtGenesis ==
  ASSUME NEW s \in BeforeGenutil \cup Staked \cup Signed, s # <<>>
  PROVE  /\ Head(s) = "genutil" => Tail(s) \in Staked
         /\ Head(s) = "provider" => s \in Staked /\ Tail(s) \in Signed
         /\ Head(s) \notin {"genutil", "provider"} =>
              \/ s \in BeforeGenutil /\ Tail(s) \in BeforeGenutil
              \/ s \in Staked /\ Tail(s) \in Staked
              \/ s \in Signed /\ Tail(s) \in Signed
<1>1. CASE s \in Staked \cup Signed
  <2>1. Head(s) \in {"provider", "feemarket"}
    BY <1>1 DEF Staked, Signed
  <2>. QED BY <1>1, <2>1, NextAtEnd
<1>2. CASE s \in BeforeGenutil
  <2>1. CASE s = <<"auth", "bank", "distribution", "gov", "staking", "slashing", "mint", "genutil",
                   "feemarket", "provider", "feemarket">>
    <3>1. Head(s) = "auth" /\ Tail(s) = <<"bank", "distribution", "gov", "staking", "slashing",
            "mint", "genutil", "feemarket", "provider", "feemarket">>
      BY <2>1
    <3>. QED BY <1>2, <3>1 DEF BeforeGenutil
  <2>2. CASE s = <<"bank", "distribution", "gov", "staking", "slashing", "mint", "genutil",
                   "feemarket", "provider", "feemarket">>
    <3>1. Head(s) = "bank" /\ Tail(s) = <<"distribution", "gov", "staking", "slashing", "mint",
            "genutil", "feemarket", "provider", "feemarket">>
      BY <2>2
    <3>. QED BY <1>2, <3>1 DEF BeforeGenutil
  <2>3. CASE s = <<"distribution", "gov", "staking", "slashing", "mint", "genutil", "feemarket",
                   "provider", "feemarket">>
    <3>1. Head(s) = "distribution" /\ Tail(s) = <<"gov", "staking", "slashing", "mint", "genutil",
            "feemarket", "provider", "feemarket">>
      BY <2>3
    <3>. QED BY <1>2, <3>1 DEF BeforeGenutil
  <2>4. CASE s = <<"gov", "staking", "slashing", "mint", "genutil", "feemarket", "provider",
                   "feemarket">>
    <3>1. Head(s) = "gov" /\ Tail(s) = <<"staking", "slashing", "mint", "genutil", "feemarket",
            "provider", "feemarket">>
      BY <2>4
    <3>. QED BY <1>2, <3>1 DEF BeforeGenutil
  <2>5. CASE s = <<"staking", "slashing", "mint", "genutil", "feemarket", "provider", "feemarket">>
    <3>1. Head(s) = "staking" /\ Tail(s) = <<"slashing", "mint", "genutil", "feemarket",
            "provider", "feemarket">>
      BY <2>5
    <3>. QED BY <1>2, <3>1 DEF BeforeGenutil
  <2>6. CASE s = <<"slashing", "mint", "genutil", "feemarket", "provider", "feemarket">>
    <3>1. Head(s) = "slashing" /\ Tail(s) = <<"mint", "genutil", "feemarket", "provider",
            "feemarket">>
      BY <2>6
    <3>. QED BY <1>2, <3>1 DEF BeforeGenutil
  <2>7. CASE s = <<"mint", "genutil", "feemarket", "provider", "feemarket">>
    <3>1. Head(s) = "mint" /\ Tail(s) = <<"genutil", "feemarket", "provider", "feemarket">>
      BY <2>7
    <3>. QED BY <1>2, <3>1 DEF BeforeGenutil
  <2>8. CASE s = <<"genutil", "feemarket", "provider", "feemarket">>
    <3>1. Head(s) = "genutil" /\ Tail(s) = <<"feemarket", "provider", "feemarket">>
      BY <2>8
    <3>. QED BY <3>1 DEF Staked
  <2>. QED BY <1>2, <2>1, <2>2, <2>3, <2>4, <2>5, <2>6, <2>7, <2>8 DEF BeforeGenutil
<1>. QED BY <1>1, <1>2

\* The tails the genesis order goes through are told apart by what has run.
LEMMA GenesisTails ==
  /\ orderInitBlockers \in BeforeGenutil
  /\ \A s \in BeforeGenutil : s \notin Staked /\ s \notin Signed
  /\ \A s \in Staked : s \notin Signed
  /\ <<>> \in Signed
<1>1. \A s \in BeforeGenutil : s # <<>> /\ s[1] \notin {"feemarket", "provider"}
  BY DEF BeforeGenutil
<1>2. \A s \in Staked : s # <<>> /\ s[1] \in {"feemarket", "provider"} /\ Len(s) \in {2, 3}
  BY DEF Staked
<1>3. \A s \in Signed : (s = <<>> \/ s[1] = "feemarket") /\ Len(s) \in {0, 1}
  BY DEF Signed
<1>4. orderInitBlockers \in BeforeGenutil
  BY DEF orderInitBlockers, BeforeGenutil
<1>5. <<>> \in Signed
  BY DEF Signed
<1>. QED BY <1>1, <1>2, <1>3, <1>4, <1>5

\* A begin phase's order comes back only with the next block.
LEMMA OrderComesOnce ==
  ASSUME NEW s \in BeforeSlashing \cup FromSlashing, s # <<>>
  PROVE  Tail(s) # orderBeginBlockers
<1>1. CASE s = <<"mint", "distribution", "slashing", "feemarket", "feemarket">>
  <2>1. Tail(s) = <<"distribution", "slashing", "feemarket", "feemarket">>
    BY <1>1
  <2>. QED BY <2>1 DEF orderBeginBlockers
<1>2. CASE s = <<"distribution", "slashing", "feemarket", "feemarket">>
  <2>1. Tail(s) = <<"slashing", "feemarket", "feemarket">>
    BY <1>2
  <2>. QED BY <2>1 DEF orderBeginBlockers
<1>3. CASE s = <<"slashing", "feemarket", "feemarket">>
  <2>1. Tail(s) = <<"feemarket", "feemarket">>
    BY <1>3
  <2>. QED BY <2>1 DEF orderBeginBlockers
<1>4. CASE s = <<"feemarket", "feemarket">>
  <2>1. Tail(s) = <<"feemarket">>
    BY <1>4
  <2>. QED BY <2>1 DEF orderBeginBlockers
<1>5. CASE s = <<"feemarket">>
  <2>1. Tail(s) = <<>>
    BY <1>5
  <2>. QED BY <2>1 DEF orderBeginBlockers
<1>. QED BY <1>1, <1>2, <1>3, <1>4, <1>5 DEF BeforeSlashing, FromSlashing

\* During genesis: nobody is jailed; after genutil's genesis a validator is
\* bonded; after the provider's the signers are the strongest of them.
GenesisInv ==
  phase = "genesis" =>
    /\ todo \in BeforeGenutil \cup Staked \cup Signed
    /\ \A v \in Validator : ~jailed[v]
    /\ todo \in Staked \cup Signed => bonded # {}
    /\ todo \in Signed => signers # {} /\ signers = ConsensusSet

\* The genesis is over before the first block, and its signers sign that one.
FirstInv ==
  /\ TypeOK /\ FeesInv /\ GenesisInv
  /\ phase # "genesis" => height >= 1
  /\ GenesisSetComplete

\* Who signs depends on the parameters by their limit only.
LEMMA SameSet ==
  UNCHANGED <<power, bonded>> /\ params'.maxSigners = params.maxSigners
    => ConsensusSet' = ConsensusSet
BY DEF ConsensusSet, Strongest

\* Every step keeps what is known during genesis.
LEMMA GenesisStep == FirstInv /\ [Next]_vars => GenesisInv'
<1>. SUFFICES ASSUME FirstInv, [Next]_vars, phase' = "genesis"
              PROVE  /\ todo' \in BeforeGenutil \cup Staked \cup Signed
                     /\ \A v \in Validator : ~jailed'[v]
                     /\ todo' \in Staked \cup Signed => bonded' # {}
                     /\ todo' \in Signed => signers' # {} /\ signers' = ConsensusSet'
  BY DEF GenesisInv
<1>0. TypeOK /\ PowerType /\ GenesisInv
  BY BlockAssumption DEF FirstInv, TypeOK, PowerType
<1>1. CASE \E name \in Names : GenesisOf(name)
  <2>1. /\ phase = "genesis" /\ todo # <<>> /\ todo' = Tail(todo)
        /\ Head(todo) \notin {"genutil", "provider"} /\ UNCHANGED <<staking, signers, params>>
    BY <1>1 DEF GenesisOf, Runs
  <2>2. \/ todo \in BeforeGenutil /\ todo' \in BeforeGenutil
        \/ todo \in Staked /\ todo' \in Staked
        \/ todo \in Signed /\ todo' \in Signed
    BY <1>0, <2>1, NextAtGenesis DEF GenesisInv
  <2>3. ConsensusSet' = ConsensusSet
    BY <2>1, SameSet DEF staking
  <2>. QED BY <1>0, <2>1, <2>2, <2>3, GenesisTails DEF GenesisInv, staking
<1>2. CASE GenutilGenesis
  <2>1. /\ phase = "genesis" /\ todo # <<>> /\ todo' = Tail(todo) /\ Head(todo) = "genutil"
        /\ power' \in [Validator -> 0..MaxPower] /\ UNCHANGED jailed /\ bonded' = Bonded'
        /\ \E v \in Validator : power'[v] > 0
    BY <1>2 DEF GenutilGenesis, Runs
  <2>2. todo' \in Staked
    BY <1>0, <2>1, NextAtGenesis DEF GenesisInv
  <2>3. \A v \in Validator : ~jailed'[v]
    BY <1>0, <2>1 DEF GenesisInv
  <2>4. Eligible' # {}
    BY <2>1, <2>3 DEF Eligible
  <2>5. PowerType'
    BY <2>1, BlockAssumption DEF PowerType
  <2>6. (PowerType => BondedIsSome)'
    BY BondedSize, PTL
  <2>7. bonded' # {}
    BY <2>1, <2>4, <2>5, <2>6 DEF BondedIsSome
  <2>. QED BY <2>2, <2>3, <2>7, GenesisTails
<1>3. CASE ProviderGenesis
  <2>1. /\ phase = "genesis" /\ todo # <<>> /\ todo' = Tail(todo) /\ Head(todo) = "provider"
        /\ signers' = ConsensusSet /\ UNCHANGED <<staking, params>>
    BY <1>3 DEF ProviderGenesis, Runs
  <2>2. todo \in Staked /\ todo' \in Signed
    BY <1>0, <2>1, NextAtGenesis DEF GenesisInv
  <2>3. bonded # {} /\ bonded \in SUBSET Validator
    BY <1>0, <2>1, <2>2 DEF GenesisInv, TypeOK
  <2>4. params.maxSigners \in Nat /\ params.maxSigners > 0
    BY <1>0, BlockAssumption DEF TypeOK, Params
  <2>5. ConsensusSet # {}
    BY <1>0, <2>3, <2>4, StrongestSize DEF ConsensusSet
  <2>6. ConsensusSet' = ConsensusSet
    BY <2>1, SameSet DEF staking
  <2>. QED BY <1>0, <2>1, <2>2, <2>3, <2>5, <2>6 DEF GenesisInv, staking
<1>4. CASE Ended \/ UNCHANGED vars
  <2>1. UNCHANGED <<phase, todo, staking, signers, params>>
    BY <1>4 DEF Ended, vars
  <2>2. ConsensusSet' = ConsensusSet
    BY <2>1, SameSet DEF staking
  <2>. QED BY <1>0, <2>1, <2>2 DEF GenesisInv, staking
<1>5. CASE InitChainer \/ StartTxs \/ Transaction \/ StartEnd \/ Commit
  BY <1>5 DEF InitChainer, StartTxs, Transaction, StartEnd, Commit
<1>6. CASE MintBegin \/ DistributionBegin \/ SlashingBegin \/ FeemarketBegin
  BY <1>6 DEF MintBegin, DistributionBegin, SlashingBegin, FeemarketBegin, Runs
<1>7. CASE GovEnd \/ StakingEnd \/ FeemarketEnd \/ ProviderEnd
  BY <1>7 DEF GovEnd, StakingEnd, FeemarketEnd, ProviderEnd, Runs
<1>. QED BY <1>1, <1>2, <1>3, <1>4, <1>5, <1>6, <1>7 DEF Next

\* After genesis the height is at least one.
LEMMA HeightStep == FirstInv /\ [Next]_vars => (phase' # "genesis" => height' >= 1)
<1>. SUFFICES ASSUME FirstInv, [Next]_vars, phase' # "genesis" PROVE height' >= 1
  OBVIOUS
<1>0. (phase # "genesis" => height >= 1) /\ height \in Nat
  BY BlockAssumption DEF FirstInv, TypeOK
<1>1. CASE phase' = phase /\ height' = height
  BY <1>0, <1>1
<1>2. CASE InitChainer \/ StartTxs \/ StartEnd \/ Commit
  BY <1>0, <1>2 DEF InitChainer, StartTxs, StartEnd, Commit
<1>3. CASE (\E name \in Names : GenesisOf(name)) \/ GenutilGenesis \/ ProviderGenesis
  BY <1>1, <1>3 DEF GenesisOf, GenutilGenesis, ProviderGenesis, Runs
<1>4. CASE MintBegin \/ DistributionBegin \/ SlashingBegin \/ FeemarketBegin \/ Transaction
  BY <1>1, <1>4 DEF MintBegin, DistributionBegin, SlashingBegin, FeemarketBegin, Runs, Transaction
<1>5. CASE GovEnd \/ StakingEnd \/ FeemarketEnd \/ ProviderEnd
  BY <1>1, <1>5 DEF GovEnd, StakingEnd, FeemarketEnd, ProviderEnd, Runs
<1>6. CASE Ended \/ UNCHANGED vars
  BY <1>1, <1>6 DEF Ended, vars
<1>. QED BY <1>2, <1>3, <1>4, <1>5, <1>6 DEF Next

\* Every step keeps what is known of the first set.
LEMMA FirstBlockStep == FirstInv /\ [Next]_vars => GenesisSetComplete'
<1>. SUFFICES ASSUME FirstInv, [Next]_vars, phase' = "begin", height' = 1,
                     todo' = orderBeginBlockers
              PROVE  signers' # {} /\ signers' = ConsensusSet'
  BY DEF GenesisSetComplete
<1>1. CASE InitChainer
  <2>1. /\ phase = "genesis" /\ todo = <<>> /\ UNCHANGED <<staking, signers>>
        /\ params' = [params EXCEPT !.noBaseFee = TRUE]
    BY <1>1 DEF InitChainer
  <2>2. signers # {} /\ signers = ConsensusSet
    BY <2>1, GenesisTails DEF FirstInv, GenesisInv
  <2>3. params'.maxSigners = params.maxSigners
    BY <2>1 DEF FirstInv, TypeOK, Params
  <2>4. ConsensusSet' = ConsensusSet
    BY <2>1, <2>3, SameSet DEF staking
  <2>. QED BY <2>1, <2>2, <2>4
<1>2. CASE MintBegin \/ DistributionBegin \/ SlashingBegin \/ FeemarketBegin
  <2>1. phase = "begin" /\ todo # <<>> /\ todo' = Tail(todo)
    BY <1>2 DEF MintBegin, DistributionBegin, SlashingBegin, FeemarketBegin, Runs
  <2>2. todo \in BeforeSlashing \cup FromSlashing
    BY <2>1 DEF FirstInv, FeesInv
  <2>. QED BY <2>1, <2>2, OrderComesOnce
<1>3. CASE Commit
  <2>1. phase = "end" /\ height' = height + 1
    BY <1>3 DEF Commit
  <2>2. height >= 1 /\ height \in Nat
    BY <2>1, BlockAssumption DEF FirstInv, TypeOK
  <2>. QED BY <2>1, <2>2
<1>4. CASE Ended \/ UNCHANGED vars
  <2>1. UNCHANGED <<phase, height, todo, staking, signers, params>>
    BY <1>4 DEF Ended, vars
  <2>2. ConsensusSet' = ConsensusSet
    BY <2>1, SameSet DEF staking
  <2>. QED BY <2>1, <2>2 DEF FirstInv, GenesisSetComplete
<1>5. CASE (\E name \in Names : GenesisOf(name)) \/ GenutilGenesis \/ ProviderGenesis
  BY <1>5 DEF GenesisOf, GenutilGenesis, ProviderGenesis, Runs
<1>6. CASE StartTxs \/ Transaction \/ StartEnd
  BY <1>6 DEF StartTxs, Transaction, StartEnd
<1>7. CASE GovEnd \/ StakingEnd \/ FeemarketEnd \/ ProviderEnd
  BY <1>7 DEF GovEnd, StakingEnd, FeemarketEnd, ProviderEnd, Runs
<1>. QED BY <1>1, <1>2, <1>3, <1>4, <1>5, <1>6, <1>7 DEF Next

\* The first block is signed by somebody, and by the very set the provider
\* derives from the validators of the genesis transactions: the provider's
\* genesis comes after genutil's (app/app.go:246-248, orderInitBlockers).
THEOREM GenesisSetIsComplete == Spec => []GenesisSetComplete
<1>1. Init => FirstInv
  <2>. SUFFICES ASSUME Init PROVE FirstInv
    OBVIOUS
  <2>1. GenesisInv
    BY GenesisTails DEF Init, GenesisInv
  <2>. QED BY <2>1, BlockInit DEF Init, FirstInv, FeesInv, GenesisSetComplete
<1>2. FirstInv /\ [Next]_vars => FirstInv'
  BY BlockStep, FeesStep, GenesisStep, HeightStep, FirstBlockStep DEF FirstInv
<1>3. FirstInv => GenesisSetComplete
  BY DEF FirstInv
<1>. QED BY <1>1, <1>2, <1>3, PTL DEF Spec
=============================================================================
