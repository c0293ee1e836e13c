----------------------------- MODULE BlockOrder -----------------------------
(***************************************************************************)
(* The orders in which the module manager runs its modules: at genesis     *)
(* (InitChainer, app/app.go:389-415), at the beginning and at the end of   *)
(* every block (app/app.go:237-250, 422-430), as app/module.go:176-275     *)
(* lists them.  One step is one module's part.                             *)
(*                                                                         *)
(* The modules are outside the repository; each is modelled by the state   *)
(* it shares with the others: the fee collector, the staking records, the  *)
(* set of signers, the parameters, the base fee.  Names of modules that do *)
(* nothing there, and evidence, IBC and the rest, are left out of the      *)
(* lists; the order of the others, and a name listed twice, is kept.       *)
(***************************************************************************)
EXTENDS Integers, Sequences, SequencesExt, FiniteSets

CONSTANTS
  N,              \* validators, numbered in the order of their addresses
  MaxValidators,  \* x/staking: how many may be bonded
  MaxPower,       \* bound: power of a validator
  MaxBaseFee,     \* bound: the base fee
  MaxHeight       \* bound: blocks

ASSUME BlockAssumption ==
  /\ N \in Nat \ {0} /\ MaxValidators \in 1..N
  /\ MaxPower \in Nat \ {0} /\ MaxBaseFee \in Nat /\ MaxHeight \in Nat \ {0}

VARIABLES
  phase,      \* "genesis", "begin", "txs" or "end"
  todo,       \* the modules that have still to run in this phase
  height,
  ready,      \* modules that hold their genesis state
  power, jailed, bonded,   \* x/staking
  signers,    \* the validators whose signatures the next commit needs
  params,     \* x/provider's MaxProviderConsensusValidators; NoBaseFee
  proposal,   \* the parameters a passed proposal will set; NoProposal
  collector,  \* fees in the fee collector
  baseFee, parentFee,   \* the base fee now and in the previous block
  gas, parentGas        \* gas wanted in this block and in the previous one

staking == <<power, jailed, bonded>>
fees == <<collector, baseFee, parentFee, gas, parentGas>>
vars == <<phase, todo, height, ready, staking, signers, params, proposal, fees>>

Validator == 1..N
Target == 1                   \* gas a block should want
Params == [maxSigners : 1..N, noBaseFee : BOOLEAN]
NoProposal == [maxSigners |-> 0, noBaseFee |-> TRUE]

\* Mutant: the provider's genesis comes before the genesis transactions.
Mut_ProviderGenesisEarly ==
  <<"auth", "bank", "distribution", "gov", "staking", "provider", "slashing", "mint",
    "genutil", "feemarket", "feemarket">>

orderInitBlockers ==
  <<"auth", "bank", "distribution", "gov", "staking", "slashing", "mint",
    "genutil", "feemarket", "provider", "feemarket">>

\* Mutant: the fees of the block before are shared before the mint's are in.
Mut_MintAfterDistribution == <<"distribution", "slashing", "mint", "feemarket", "feemarket">>

orderBeginBlockers == <<"mint", "distribution", "slashing", "feemarket", "feemarket">>

\* Mutant: the provider's part comes before staking's.
Mut_ProviderBeforeStaking == <<"gov", "provider", "staking", "feemarket", "feemarket">>

orderEndBlockers == <<"gov", "staking", "feemarket", "provider", "feemarket">>

Names == ToSet(orderInitBlockers) \cup ToSet(orderBeginBlockers) \cup ToSet(orderEndBlockers)

TypeOK ==
  /\ phase \in {"genesis", "begin", "txs", "end"}
  /\ todo \in Seq(Names)
  /\ height \in 0..MaxHeight
  /\ ready \in SUBSET Names
  /\ power \in [Validator -> 0..MaxPower]
  /\ jailed \in [Validator -> BOOLEAN]
  /\ bonded \in SUBSET Validator /\ Cardinality(bonded) <= MaxValidators
  /\ signers \in SUBSET Validator
  /\ params \in Params /\ proposal \in Params \cup {NoProposal}
  /\ collector \in Nat
  /\ baseFee \in 0..MaxBaseFee /\ parentFee \in 0..MaxBaseFee
  /\ gas \in 0..2 /\ parentGas \in 0..2

-----------------------------------------------------------------------------
(* Who signs.                                                              *)

Strongest(S, n) ==
  LET Ahead(v) == {w \in S : power[w] > power[v] \/ (power[w] = power[v] /\ w < v)}
  IN  {v \in S : Cardinality(Ahead(v)) < n}

Eligible == {v \in Validator : power[v] > 0 /\ ~jailed[v]}
\* Mutant: the bonded set is not limited.
Mut_UnlimitedBonded == Strongest(Eligible, N)
Bonded == Strongest(Eligible, MaxValidators)
ConsensusSet == Strongest(bonded, params.maxSigners)

Runs(p, name) ==
  /\ phase = p /\ todo # <<>> /\ Head(todo) = name
  /\ todo' = Tail(todo)
  /\ UNCHANGED <<phase, height>>

-----------------------------------------------------------------------------
(* Genesis.                                                                *)

Init ==
  /\ phase = "genesis" /\ todo = orderInitBlockers /\ height = 0
  /\ ready = {}
  /\ power = [v \in Validator |-> 0]
  /\ jailed = [v \in Validator |-> FALSE]
  /\ bonded = {} /\ signers = {}
  /\ params \in Params /\ proposal = NoProposal
  /\ collector = 0 /\ baseFee = 0 /\ parentFee = 0 /\ gas = 0 /\ parentGas = 0

Becomes(name) == ready' = ready \cup {name}

GenesisOf(name) ==
  /\ name \notin {"genutil", "provider"}
  /\ Runs("genesis", name) /\ Becomes(name)
  /\ UNCHANGED <<staking, signers, params, proposal, fees>>

\* The genesis transactions create the validators; each needs the accounts and
\* the pools of the modules before it.
GenutilGenesis ==
  /\ Runs("genesis", "genutil") /\ Becomes("genutil")
  /\ {"auth", "bank", "staking"} \subseteq ready
  /\ power' \in [Validator -> 0..MaxPower]
  /\ \E v \in Validator : power'[v] > 0
  /\ UNCHANGED <<jailed, signers, params, proposal, fees>>
  /\ bonded' = Bonded'

ProviderGenesis ==
  /\ Runs("genesis", "provider") /\ Becomes("provider")
  /\ "staking" \in ready
  /\ signers' = ConsensusSet
  /\ UNCHANGED <<staking, params, proposal, fees>>

\* InitChainer overrides the fee market's parameters when all have run.
InitChainer ==
  /\ phase = "genesis" /\ todo = <<>>
  /\ params' = [params EXCEPT !.noBaseFee = TRUE]
  /\ baseFee' = 0 /\ parentFee' = 0
  /\ phase' = "begin" /\ todo' = orderBeginBlockers /\ height' = 1
  /\ UNCHANGED <<ready, staking, signers, proposal, collector, gas, parentGas>>

-----------------------------------------------------------------------------
(* The beginning of a block.                                               *)

MintBegin ==
  /\ Runs("begin", "mint")
  /\ collector' = collector + 1
  /\ UNCHANGED <<ready, staking, signers, params, proposal,
                 baseFee, parentFee, gas, parentGas>>

\* The whole of the fee collector goes to those who signed the last block; the
\* first block has nobody to pay.
DistributionBegin ==
  /\ Runs("begin", "distribution")
  /\ collector' = IF height > 1 THEN 0 ELSE collector
  /\ UNCHANGED <<ready, staking, signers, params, proposal,
                 baseFee, parentFee, gas, parentGas>>

\* Signers that were absent are slashed and jailed.
SlashingBegin ==
  /\ Runs("begin", "slashing")
  /\ \E absent \in SUBSET signers :
       /\ height = 1 => absent = {}
       /\ jailed' = [v \in Validator |-> jailed[v] \/ v \in absent]
       /\ power' = [v \in Validator |-> IF v \in absent /\ power[v] > 0 THEN power[v] - 1
                                        ELSE power[v]]
  /\ UNCHANGED <<ready, bonded, signers, params, proposal, fees>>

\* The base fee moves by one step towards more or fewer transactions.
FeemarketBegin ==
  /\ Runs("begin", "feemarket")
  /\ baseFee' = IF params.noBaseFee THEN baseFee
                ELSE IF parentGas > Target /\ baseFee < MaxBaseFee THEN baseFee + 1
                ELSE IF parentGas < Target /\ baseFee > 0 THEN baseFee - 1
                ELSE baseFee
  /\ UNCHANGED <<ready, staking, signers, params, proposal,
                 collector, parentFee, gas, parentGas>>

-----------------------------------------------------------------------------
(* Transactions.                                                           *)

StartTxs ==
  /\ phase = "begin" /\ todo = <<>> /\ phase' = "txs"
  /\ UNCHANGED <<todo, height, ready, staking, signers, params, proposal, fees>>

Transaction ==
  /\ phase = "txs" /\ gas < 2
  /\ gas' = gas + 1 /\ collector' = collector + 1
  /\ \/ \E v \in Validator :
          /\ \/ power[v] < MaxPower /\ power' = [power EXCEPT ![v] = @ + 1]
             \/ power[v] > 0 /\ power' = [power EXCEPT ![v] = @ - 1]
          /\ UNCHANGED <<jailed, proposal>>
     \/ \E v \in Validator :
          /\ jailed[v] /\ jailed' = [jailed EXCEPT ![v] = FALSE]
          /\ UNCHANGED <<power, proposal>>
     \/ \E p \in Params :
          /\ proposal = NoProposal /\ p # params /\ proposal' = p
          /\ UNCHANGED <<power, jailed>>
  /\ UNCHANGED <<phase, todo, height, ready, bonded, signers, params,
                 baseFee, parentFee, parentGas>>

-----------------------------------------------------------------------------
(* The end of a block.                                                     *)

StartEnd ==
  /\ phase = "txs"
  /\ phase' = "end" /\ todo' = orderEndBlockers
  /\ UNCHANGED <<height, ready, staking, signers, params, proposal, fees>>

\* A proposal that has passed is carried out, in this block or a later one.
GovEnd ==
  /\ Runs("end", "gov")
  /\ \/ UNCHANGED <<params, proposal>>
     \/ proposal # NoProposal /\ params' = proposal /\ proposal' = NoProposal
  /\ UNCHANGED <<ready, staking, signers, fees>>

StakingEnd ==
  /\ Runs("end", "staking")
  /\ bonded' = Bonded
  /\ UNCHANGED <<ready, power, jailed, signers, params, proposal, fees>>

FeemarketEnd ==
  /\ Runs("end", "feemarket")
  /\ parentGas' = gas
  /\ UNCHANGED <<ready, staking, signers, params, proposal,
                 collector, baseFee, parentFee, gas>>

ProviderEnd ==
  /\ Runs("end", "provider")
  /\ signers' = ConsensusSet
  /\ UNCHANGED <<ready, staking, params, proposal, fees>>

Commit ==
  /\ phase = "end" /\ todo = <<>> /\ height < MaxHeight
  /\ phase' = "begin" /\ todo' = orderBeginBlockers /\ height' = height + 1
  /\ gas' = 0 /\ parentFee' = baseFee
  /\ UNCHANGED <<ready, staking, signers, params, proposal, collector, baseFee, parentGas>>

\* The last block of the bound.
Ended == phase = "end" /\ todo = <<>> /\ height = MaxHeight /\ UNCHANGED vars

Next ==
  \/ \E name \in Names : GenesisOf(name)
  \/ GenutilGenesis \/ ProviderGenesis \/ InitChainer
  \/ MintBegin \/ DistributionBegin \/ SlashingBegin \/ FeemarketBegin
  \/ StartTxs \/ Transaction \/ StartEnd
  \/ GovEnd \/ StakingEnd \/ FeemarketEnd \/ ProviderEnd
  \/ Commit \/ Ended

Spec == Init /\ [][Next]_vars

-----------------------------------------------------------------------------
(* Properties.                                                             *)

\* From the slashing of validators to the block's first transaction (slashing
\* runs after distribution, app/app.go:237-239), the fees of the blocks before
\* have been shared among those who signed, and so has what was minted: nothing
\* is left over.
NothingLeftOver ==
  (phase = "begin" /\ height > 1 /\ (todo = <<>> \/ "slashing" \notin ToSet(Tail(todo)))) =>
    collector = 0

\* Between two blocks, the signers are the strongest of the validators that
\* staking has just bonded: a validator jailed, unbonded or overtaken in the
\* block, or left out by parameters its proposals changed, signs no further
\* block (the order of orderEndBlockers, app/module.go:209-241).
SetFollowsStaking ==
  (phase = "end" /\ todo = <<>>) =>
    /\ signers \subseteq Eligible
    /\ signers = Strongest(Eligible, IF params.maxSigners < MaxValidators
                                     THEN params.maxSigners ELSE MaxValidators)

\* After the genesis of all modules the first block is signed by the validators
\* of the genesis transactions (app/app.go:246-248, orderInitBlockers).
GenesisSetComplete ==
  (phase = "begin" /\ height = 1 /\ todo = orderBeginBlockers) =>
    signers # {} /\ signers = ConsensusSet

\* Modules run "at the beginning of every block" (app/app.go:241): the base fee
\* of a block is at most one step away from the one of the block before.
BaseFeeMovesOnce ==
  phase = "txs" => baseFee - parentFee \in {-1, 0, 1}

=============================================================================
