# A TLA+ model of the echofi node

`echofid` is a Cosmos SDK v0.53 chain: cosmos-evm, ibc-go v10, the interchain
security provider and wasmd, wired together by about 2900 lines of Go in `app/`
and `cmd/`. This directory models the part of the node that is echofi's own
logic. Libraries are modelled only as far as that code uses them, and every such
definition is marked *external* in the map of `PROJECT.json`. File names below
are relative to the root of the repository.

## Inventory

| component | code | state | operations | what makes it hard | modelled in |
|---|---|---|---|---|---|
| authz limiter | `app/ante/authz.go` | call stack of one check | `AnteHandle`, `checkDisabledMsgs`, `isDisabledMsg` | recursion over untrusted trees, a level that leaks between siblings, early returns | `AuthzMsgs`, `AuthzLimiter`, `AuthzPolicy` |
| ante handler | `app/ante/ante.go`, `app/ante/handler_options.go`, `app/app.go:309-330, 553-588` | accounts, fees, a branch of the store | route, pass, refuse, let through | two routes over one sequence, order of decorators, failure half-way | `TxPipeline`, `TxLedger` |
| zero-height export, distribution | `app/export.go:84-197` | reward periods and their reference counts, books, context height | withdraw all, clear, rebuild | counters that panic, fractions of coins, a height that is swapped | `ZeroHeightRewards` |
| export, staking half | `app/export.go:20-82, 199-279` | validator records, power index, heights, the exported set | reset heights, jail, update the set, write it | an index that is not kept up, an update at the old height, ties | `ExportStaking` |
| module orders | `app/module.go:176-275`, `app/app.go:232-250` | order of block, genesis and export steps | one step per module | a step that reads what a later one writes; names without a module | `BlockOrder`; export order in `ExportStaking` |
| IBC transfer stacks | `app/keepers/keeper.go:410-614` | packets in flight, escrow, quotas, forwards | send, receive, acknowledge, time out, retry, forward | lost and late packets; sends that bypass a middleware; refunds along a chain of hops | `TransferStack`, `Transfers` |
| lifecycle | `app/app.go:141-462` | loaded version, pinned codes, upgrade info | construct, genesis, load a height, stop at an upgrade, restart | kills between steps, no upgrade handler, genesis overrides | `NodeStart`; genesis in `BlockOrder` |
| keeper construction | `app/keepers/keeper.go:151-623`, `keys.go`, `precompiles.go` | keepers and what they captured | construct, set later | copies taken before a setter runs, pointers that are still nil | `KeeperWiring` |
| EVM configuration | `app/evm_config.go` | `sealed`, registered denominations | `EVMAppOptions`, `setBaseDenom` | process-wide state, partial failure | `NodeStart` |
| launcher | `cmd/echofid` | the temporary application, locked directories | `NewRootCmd`, `newApp`, `appExport` | two applications in one process | `NodeStart` |
| tables and adapters | `app/encoding.go`, `app/params`, `app/genesis.go` | none | none | nothing that changes state | not modelled |
| tests and tooling | `interchaintest`, `script`, `docker` | not part of the node | | | not modelled |

How they interact. `main` builds the root command, which constructs a temporary
application to learn its codecs; `start` and `export` construct the real one in the
same process, so both share the process-wide settings of the EVM. Construction calls
`NewAppKeeper`, sets the module orders and the ante handler and loads a version.
BaseApp hands each transaction of a block to the ante handler, whose Cosmos list of
decorators contains the authz limiter; it hands each IBC packet, acknowledgement and
timeout, which arrive as transactions of relayers, to the transfer stack of the
packet's version. `echofid export` loads a height and calls
`ExportAppStateAndValidators`, which calls `prepForZeroHeightGenesis` first when
asked for height zero; its distribution half runs before its staking half, on the
same context.

Within a process nothing in echofi's own code runs concurrently with itself: BaseApp
serialises transactions, and the export has the process for itself. What does
interleave is outside: a process is killed between any two steps and started again on
the disk it left; relayers deliver packets of several channels in any order, late, or
never before the timeout. The hazards are therefore sequences, orders, partial
failures, restarts, late answers, stale copies and boundaries; `PROJECT.json` lists
them with their lines.

## Modules

* **`AuthzMsgs`** — the messages of a transaction as a numbered tree, the types of
  `authz.go`'s switch, and the declarative notions *forbidden*, *clean* and
  *crowded*. **`AuthzLimiter`** — `checkDisabledMsgs` with an explicit call
  stack, one frame per active call (`todo`, `isAuthzInnerMsg`, `nestedLvl`), one
  action per case of the loop. `CheckExec` raises the level of the *calling* frame
  as `authz.go:54` does. **`AuthzPolicy`** — the promise of the decorator without
  any traversal order; `AuthzLimiter` implements it.
* **`TxPipeline`** — `NewAnteHandler` picks a list of decorators from the first
  extension option (`NewAnteHandler`, `Route`); each decorator is one step on a
  branch of the store (`Pass`), which is written back after the last one
  (`LetThrough`) and dropped at the first error (`Refuse`). What a decorator admits
  and changes is a record indexed by its name (`Admits`, `Changed`).
  **`TxLedger`** — what a block's sequence of accepted transactions must look like
  without routes or decorators: each is sound, is its account's next, pays, and leaves
  the key it shows on record.
* **`TransferStack`** — the v1 and v2 stacks as the sequences `keeper.go` builds
  (`transferStack`, `transferStackV2`) with the way a send takes (`SendPath`, the hop of
  a forward included): the model asks these sequences whether a packet meets the rate
  limit or the forwarding middleware. `packets` holds every packet with its state at both ends; a forward is
  a packet that is held while a second one (`orig`) is under way. Sending, receiving,
  forwarding, acknowledging, timing out, retrying and the reset of the quota windows
  are an action each; middlewares, the core of IBC, neighbours and relayers are
  external. **`Transfers`** — what whoever makes a transfer is promised, without
  packets, channels or hops: the token leaves a purse and is delivered or comes back,
  once. `TransferStack` implements it by `ImplementsTransfers`: a transfer is named by the
  number of its first packet, `Deals` leaves out the packets that are hops, and `Outcome`
  follows a forward through its hop.
* **`KeeperWiring`** — `NewAppKeeper` as the list of its statements. A constructor takes
  a keeper by value, by pointer or by address (`Field`, `Deref`, `Address`), and the
  module works out what each holder finds in the end: who has been made (`Made`) and what
  has been set of them (`Has`) after a number of statements, how many of them the one who
  took a keeper gets to see (`SeenAfter`: a copy, or a pointer that was nil, stays as it
  was), and whether that is enough for a handler (`Finds`).
* **`NodeStart`** — a process from launch to end, on the disk and chain that survive it.
  `app` and `at` are the application being built and its next step; `sealed`, `denoms`
  and `evmChain` are the settings of `evm_config.go`; `open` the VM directories the
  process has locked; `info` is `upgrade-info.json`, which x/upgrade truncates
  (`PreBlocker`) and then writes (`DumpUpgradeInfo`). `Kill` can come at every step,
  between these two as well, which leaves the file torn. `broken` names a part of the
  disk (`Parts`) that is missing or damaged: `Break` and the operator's `Repair` change
  it while nothing runs, and each start panics, or returns an error, where it first needs
  the part. Panics that depend on the binary alone are taken not to happen.
  `NodeStart` extends `KeeperWiring`: the construction of the keepers is one of its
  steps.
* **`ZeroHeightRewards`** — a chain whose delegators delegate, claim, undelegate and
  are slashed while fees accrue, exported at any point; then one action per turn of
  each loop of `prepForZeroHeightGenesis` up to the reset of the context height.
  x/distribution is modelled by its reward periods with their reference counts, the
  starting info of each delegation and its books, in fractions of a coin.
* **`ExportStaking`** — a chain of blocks with delegations, redelegations, jailing
  and unjailing, each ended by the validator set update; then the export, stage by
  stage. The staking half continues where `ZeroHeightRewards` ends: the first half
  changes no record the second one reads.
* **`BlockOrder`** — genesis, then blocks of begin, transactions and end, one step per
  module in the order of `orderInitBlockers`, `orderBeginBlockers` and
  `orderEndBlockers` (`todo` holds the names that have still to run), with
  `InitChainer`'s override after genesis. A module is modelled by what it shares with
  others: the fee collector, staking's records, the signers, the parameters, the
  base fee. A name listed twice runs twice, as in the module manager.
* **`MC*`** — instances for TLC; definitions named `Mut_*` are the mutants of
  `PROJECT.json`. **`*_proofs`** — the theorems of a component, for `AuthzLimiter`,
  `TxPipeline`, `TransferStack`, `NodeStart`, `BlockOrder`, `ZeroHeightRewards` and
  `ExportStaking`; **`FiniteLemmas`** — what they share about finite sets.

## Runs

| run | question | instance | result |
|---|---|---|---|
| `authz_limiter` | is the traversal of nested messages right? | all trees of 5 messages over 2 types, cap 4 | passes |
| `tx_pipeline` | what gets past the ante handler? | 2 accounts, 2 sequences, 64 transactions, 2 blocks | passes |
| `transfer_stack` | what becomes of tokens and quotas? | 3 packets, 3 channels, supply 2, quotas of 1, 2 windows | passes |
| `transfer_bypass` | does every send pass the rate limit, as `keeper.go:571` says? | as above | violated: a v1 send does not |
| `node_start` | what does a process run, and what survives it? | 3 heights, plans for height 2, 2 faults, pruning to 2, one chain | passes |
| `erc20_wiring` | does a conversion reach the EVM? | as `node_start` | violated: the ERC-20 keeper holds a nil pointer |
| `zero_height_rewards` | is the distribution state rebuilt correctly? | 2 validators, 2 delegators, 4 periods, 3 blocks | passes |
| `export_staking` | what does a finished, or panicking, export look like? | 3 validators, 2 bonded, 1 in consensus, 3 blocks | passes |
| `export_allow_list` | does a well-formed allow list work? | as above, 2 blocks | violated: it panics |
| `export_default` | does an export of all modules work? | as above, 2 blocks | violated: `crisis` is not registered |
| `block_order` | do modules find what the ones before them leave? | 3 validators, 2 bonded, 3 blocks | passes |
| `block_base_fee` | does a begin blocker run once a block, as `app.go:241` says? | as above | violated: the base fee moves twice |

What the passing runs show:

* `authz_limiter`: acceptance means nothing forbidden at any depth
  (`AcceptedIsClean`); each refusal has the cause it names (`RejectedForCause`); the
  recursion is bounded although the level leaks (`RecursionIsBounded`); the check
  implements `AuthzPolicy`, its liveness included (`ImplementsPolicy`).
* `tx_pipeline`: the pipeline implements the ledger (`ImplementsLedger`): an EVM
  message never slips through the Cosmos route, a second extension option is never
  ignored, a refusal leaves nothing of the fee or the key it had recorded (the ledger's
  `known` is the committed store's). No
  account's sequence is used twice across the routes (`AtMostOnce`). A transaction
  that ought to pass does (`RefusedForCause`): this is the comment at
  `handler_options.go:90`.
* `transfer_stack`: escrow backs what users behind a channel hold, and a token that
  came through a channel exists once, whatever is forwarded, retried, refused and
  refunded, in whatever order (`EscrowBacksVouchers`). `FlowsCounted` says what the rate
  limit counts. The inflow of a window is what was kept or passed on in it, and also the
  forwards whose hop failed later: their tokens go back, and their inflow is never taken
  out. The outflow is what left through the v2 stack in this window and has not failed
  since, though acknowledgements come a window late and v1 sends were never counted. So
  quotas bound what is let through (`QuotasHold`). Forwards and retries do not show at
  the ends (`ImplementsTransfers`), and no transfer stays open for ever
  (`TransfersEnd`).
* `node_start`: a process that serves has every keeper wired (`KeepersAreWired`, all
  but the one of finding 5), was configured once, for its own chain, and works in the
  real home (`OneConfiguration`), holds every code the chain has pinned however it came
  up (`PinnedCodesCached`); a plan that is due is never passed (`PlanIsNotPassed`); an
  export shows the height it was asked for (`ExportedIsAsked`). A process panics only for
  what its disk lacks or for a plan it was not told to skip (`ProcessPanicsForCause`):
  directories it cannot make, settings or a genesis file it does not find, a store or a
  pinned code it cannot load, and an `upgrade-info.json` that a kill left torn
  (`app/app.go:437-440`). It never panics because it is the second application, registers
  a denomination twice or finds a directory locked, nor because an earlier process failed
  half-way. A plan does not stop a chain for ever whose operator skips its height and
  repairs what broke, the torn file included (`UpgradeIsPassed`).
* `zero_height_rewards`: the coins of the module account are accounted for to the
  fraction at every step (`BooksBalance`); reference counts are exact before and
  after, though not during, the preparation (`ReferencesCounted`), which is why no
  counter panics (`NeverPanics`); delegators get what they were owed
  (`DelegatorsArePaid`); the result is the state of a new chain (`FreshStart`).
* `export_staking`: the exported set is the provider's, ties included
  (`ExportedSetIsConsensusSet`); no height of the old chain survives
  (`NoOldHeights`); a panic happens exactly for the allow lists described
  (`PanicsForCause`); a validator that is left out never signs in the new chain
  (`ExportedAreAllowed`).
* `block_order`: fees and minted coins are shared before anybody is slashed and
  nothing is left in the collector (`NothingLeftOver`, the comment at
  `app.go:237-239`); the signers of the next block are the strongest of those staking
  has just bonded, under parameters a proposal of this block may have changed
  (`SetFollowsStaking`); the first set is the one of the genesis transactions (`GenesisSetComplete`, the
  comment at `app.go:246-248`).

Bounds. `authz_limiter` uses a cap of 4 so that five messages reach it, pass it and
stay below it; the theorems hold for every cap. Two accounts and two sequences are
what a replay or a mix of routes needs. Three packets are a transfer in, its hop and
one transfer of somebody else, on the same or the opposite channel; a supply of 2
with quotas of 1 fills a quota and leaves a token to go over it; two windows let an
acknowledgement come late; denominations of "A", of echofi and one that is away
from "B" give every pair of escrow, burn and mint along a forward. Three
heights let a plan be scheduled, stop the chain and be passed; two faults kill a node
and kill it again while it recovers, follow an export by a kill, or break the disk of a
node that was killed; keeping two of three heights makes one height of an export a
pruned one. An export is asked for a height of the chain or the latest: with height 0,
which `LoadHeight` takes for the latest, `ExportedIsAsked` would have to be said
differently. A plan names height 2: scheduled in the first block it is early, in the
second it is for that very height and due at the next one. Three reward periods per
validator give a slash between two withdrawals; a scale of 2 makes rewards fractional.
Three validators with two bonded and one in consensus make every cut-off bite, with
ties; three blocks let a validator be bonded, leave and come back, and parameters be
proposed, carried out and felt; a base fee of two steps is enough to move twice.
`BlockOrder` goes on when nobody is eligible, where CometBFT would stop: the
properties hold there too. Fields not modelled (gas, descriptions, the rest of a memo)
are read by no property.

Fairness. `AuthzLimiter`: weak fairness of the check itself, a function call that runs
to its end on the goroutine of its transaction. `TransferStack`: while something can
be relayed, somebody relays something; that is what relayers are paid for and what the
timeout makes possible without the neighbour. No packet is favoured and nobody has to
send; it is enough because every relay step brings some packet nearer to its end.
`NodeStart`: the process runs on, the engine decides a next block, the operator starts
the node again, as a supervisor does, names the height of `upgrade-info.json` in the
flag, and restores what broke, a torn file included. These two reactions are strongly
fair: every start of a stopped node truncates the file anew and ends the operator's
chance for a while, so that weak fairness would ask nothing of an operator who watches
the same failure over and over. Kills, exports, breaks and the flag's first value are
free; the first three together are bounded by `MaxFaults`, so a node is not killed for
ever. `TxPipeline`,
`BlockOrder` and the two export modules state safety only.

Deadlock is checked everywhere but in `transfer_stack`, whose instance really stops
once its packets are used up and its windows are over; a finished export or chain
stays where it is by an explicit step.

## Proofs

Every safety property of the passing runs is a theorem, and so are the safety halves of
the three refinements.

`AuthzLimiter_proofs` proves for every transaction, every number of messages, every
cap and every set of disabled types:

* `TypeCorrect`, `AcceptedClean`: `[]TypeOK` and `[]AcceptedIsClean`. Acceptance
  alone is not inductive: the strengthening `SafetyInv` says that while the check
  runs every message is either checked and clean, or waits in some frame, or is
  wrapped by an exec that waits, and that each frame but the outermost is an inner
  one. An induction over the tree (a parent's number is smaller) turns an empty
  stack into *every message was checked*.
* `RejectedCause`, `RecursionBounded`: `CauseInv` relates the level of each frame to
  its position and to the number of MsgExecs passed so far: a level never exceeds
  one more than that number, so a refusal for nesting needs `MaxNestedMsgs - 1`
  MsgExecs, siblings included; and frame *i* is at level *i* or deeper, so the stack
  stays below the cap.
* `ImplementsPolicySafety`: initial states map to initial states and each step to
  `Accept`, `Reject` or a stutter of `AuthzPolicy`.

`TxPipeline_proofs` proves for any accounts, transactions, keys, funds and number of
blocks:

* `PipelineIsLedger`: `TxPipeline` implements `TxLedger`. A decorator is a stutter and
  the write-back is the ledger's one step, so the invariant `PipeInv` says what is known
  before each decorator of a list: which of the conditions of a sound transaction have
  been checked, and which of its effects, the recorded key among them (`KeyRecorded`),
  the branch already holds over the committed store.
* `NoReplay`: `[]AtMostOnce`. The sequence of an account counts what ran for it, and what
  ran carries the numbers below it.
* `RefusalsHaveCause`, `TypeCorrect`: `[]RefusedForCause` and `[]TypeOK`.

`TransferStack_proofs` proves for any number of packets and windows, any supply and any
quotas:

* `EscrowBacked`, `FlowsAreCounted`, `QuotasKept`, `TypeCorrect`: the four invariants of
  `transfer_stack`. The inflow of `FlowsAreCounted` is the sum of what stayed and of the
  forwards that went back, so a failed forward moves a packet between the two sets and
  the sum stays. None is inductive alone. `StackInv` adds `Hops` (a forward has one
  hop, of the same token over another v1 channel, and is held as long as the hop is
  under way) and `Windows` (which sends may still be undone are those of this window
  that are under way). Hops are needed because a failed forward moves escrow between
  channels and acknowledges a second packet: the two must be on different channels and
  the second one must be waiting. Windows are needed because a refund takes a send out
  of the flow: it must have been counted, and in this window. Each step changes the
  counted sets by one packet per channel (`Counts`), so the sums move by one
  (`MoneyMoves`, `MoneyCrosses`).

* `StacksImplementTransfers`: initial states map to initial states, and each step opens
  a deal, closes one or changes none. `RoutesInv` adds to `StackInv` that a hop takes the
  channel its forward's memo names (`Routes`), so that the receiver of a deal is the one
  its hop delivers to. There is a lemma per action; what they share is that the outcome
  of a deal is its own packet's unless it is held, and then its hop's (`OutcomesAre`).
  A failed forward or a retry is the delicate step: the hop ends and its forward with it,
  or the hop is replaced, and the one deal behind both closes at most once.

`NodeStart_proofs` proves for a chain of any length, any pruning and any number of
faults:

* `PlanStopsChain`, `PinnedCodesAreCached`, `ConfiguredOnce`, `ExportShowsAsked`,
  `PanicsOnlyForCause`, `TypeCorrect`. `IInv` is a conjunction of invariants by concern:
  the chain (`ChainInv`: a block under execution has dealt with the plan due at its
  height), the settings of the process (`ConfigInv`: sealed exactly from the first
  options on, with both denominations), the construction (`BuildInv`, `LoadInv`: what has
  been opened and loaded before each step), the node that serves (`ServingInv`) and the
  temporary home (`TempInv`).
* `ConstructorsDoNotPanic`, `KeepersWired`: about the list of `KeeperWiring`, for which
  there is nothing to vary but everything to look at. `Placed` gives each statement its
  number, the lemmas `...Rows` say what it makes or sets, and `AllFine` what all of them
  have in common. The two facts that matter are about order: a keeper that something is
  set of is not made again (`Fine`), so that what is set stays set (`SetSince`); and
  whoever relies on what is set later holds an address, or a pointer that was not nil
  (`LiveUse`, against `CopyUse`). `AllFound` goes through the uses one by one. The
  construction is thus no reason for a panic in `PanicsOnlyForCause`, which leaves the
  disk and the plan: what the invariants say of the settings, the locks and the loaded
  version before each step excludes the other panics of the same lines.

`BlockOrder_proofs` proves for every number of validators, every limit and any number
of blocks:

* `FeesAreShared`: `[]NothingLeftOver`. `FeesInv` says which tails of the begin order
  `todo` can be, and that the collector is empty in the tails from slashing on.
* `SignersFollowStaking`: `[]SetFollowsStaking`. `EndInv` follows the tails of the end
  order: bonded is current after staking's part, the signers after the provider's. The
  limits then combine: the strongest `b` of the strongest `a` are the strongest
  `min(a, b)` (`StrongestOfStrongest`), because whoever is ahead of a chosen validator
  is chosen, too.
* `TypeCorrect`: the bound on the bonded validators
  needs that as many as are asked for, and no more, are the strongest.
* `GenesisSetIsComplete`: `FirstInv`. `GenesisInv` follows the tails of the genesis order
  (nobody is jailed, somebody is bonded after genutil's genesis, the signers are the
  provider's after its own), and what `InitChainer` overrides afterwards leaves the limit
  on the signers alone.

`ZeroHeightRewards_proofs` proves for any validators, delegators, fractions and lengths
of the chain, and for every order in which the loops visit the stores:

* `BooksAlwaysBalance`, `ReferencesAlwaysCounted`, `NoPanic`, `AllArePaid`,
  `ExportIsFresh`, `TypeCorrect`, all from `Invariance`. Its core is `Consistent`: the
  records of a validator count one reference for its current period, one for each
  delegation and one for each slash event, and no two delegations count from the same
  period. The invariant says *whose* delegations are counted at each stage (`Counted`):
  all of them until the records are wiped, nobody's after that, those the last loop has
  visited while it rebuilds. Hence every decrement finds a count above zero, which is
  `NoPanic`, and no count exceeds three. The periods need an invariant of their own
  (`PeriodInv`): each withdrawal of the preparation opens a new one.
* The amounts rest on `Covered`: the outstanding rewards of a validator are at least its
  commission and the sum of what its delegators are owed. So no withdrawal is cut to
  what is there, and what is left over, the fractions included, goes to the pool.

`ExportStaking_proofs` proves for any number of validators, both limits and every allow
list:

* `ExportIsConsensusSet`. The list of the genesis file is sorted twice: by address when
  the store is read and stably by power at `export.go:50`. A stable sort of the ordered
  list is the order by power, then address; trimming it is taking the head of the head
  of the index. Orders are ranks (`Ranked`): the *k*-th is the element that *k - 1*
  others come before, which is a definition one can reason about where a sort is not.
* `HeightsAreReset`. `RecordsInv` says what each loop has reset so far; the step that
  matters is the set update at line 259, which would stamp every validator it bonds or
  unbonds with the old height. It changes nobody, because at the end of a block the
  bonded validators are the head of the index (`BondedInv`), and jailing at 248 leaves
  the index alone.
* `OnlyBadListsPanic`, `NobodyLeftOutIsExported`, `TypeCorrect`. A jailed validator in
  the index was jailed by the export itself (`JailedInv`), so a panic has an allow list
  to blame (`StageInv`, `EndInv`).

`FiniteLemmas` holds what these proofs needed of finite sets and the library does not
state: induction with the set of the things that have the property as parameter
(`FiniteInduction`, `NumberInduction`), from which follow that a sum over a finite set
does not depend on the order it is taken in (`AnyOrder`), how it moves with one summand
(`SumChanges`), and that a strict total order puts each element at a place of its own
(`PlaceIsTaken`, `Enumeration`).

The assumptions are those on the constants, which the runs evaluate:
`MsgsAssumption` (transactions are well-formed trees), `PipelineAssumption`,
`StackAssumption`, `BoundsAssumption`, `BlockAssumption`, `RewardsAssumption` and
`ExportAssumption` (numbers are numbers, sets are finite and of the right things, a
fraction is smaller than a coin).

Only model-checked: liveness, which is out of the provers' reach (the fairness half of
`ImplementsPolicy`, `TransfersEnd`, `UpgradeIsPassed`).

## Findings

1. `app/export.go:248` jails a validator without taking it out of the power index,
   and the set update at 259 panics on it: an allow list that leaves out a bonded
   validator cannot be used (`export_allow_list`).
2. `app/module.go:269` names `crisis` in the export order, which no module is
   registered under: an export without a list of modules returns an error
   (`export_default`).
3. `app/module.go:197, 203` list `feemarket` twice among the begin blockers (and the
   other orders do, too): with the base fee on, it moves two steps a block
   (`block_base_fee`).
4. `app/keepers/keeper.go:458` hands the transfer keeper the channel keeper, with the
   comment that this is overridden later; it never is, so sends over v1 channels do
   not pass the rate limit that 571 names on their way (`transfer_bypass`). The stack
   also lacks the *callbacks* and *provider* layers that 561-571 list.
5. `app/keepers/keeper.go:490` hands the ERC-20 keeper the EVM keeper, which is made at
   497: the pointer it keeps is nil (`erc20_wiring`).

Seen while modelling, without a run: `app/ante/authz.go:54` counts sibling MsgExecs as
nesting although the comment at 12 caps nested messages (`RejectedForCause` and
`RecursionIsBounded` hold of what the code does); `app/export.go:232` visits validators
by address where the comment at 229 says power, which `NoOldHeights` shows to be
harmless; the comment above `setupUpgradeStoreLoaders` (`app/app.go:435`) promises store
upgrades that 446-452 have commented out, so `NodeStart` only reads the file; a forward
whose hop fails gives the tokens back and keeps its share of the inflow quota until the
window ends, since the acknowledgement the forwarding middleware (`app/keepers/keeper.go:575`)
writes later undoes no inflow; a kill while x/upgrade writes `upgrade-info.json` leaves a
file at which every start panics (`app/app.go:439`), although the chain behind it is sound.

## Plan

1. Done: authz limiter, ante pipeline, both halves of the export, module orders,
   transfer stacks, lifecycle with launcher and EVM configuration, keeper wiring;
   proofs of all their safety properties and of the three refinements.
2. Models left: the callbacks of the controller stack and of v2, once it is settled
   which contracts may be called; the interchain accounts stacks.

## Not modelled

The Ethereum virtual machine, contract execution, consensus and the content of
library modules; gas and gas prices (so the minimum gas price decorator commented out
at `handler_options.go:87` has no property); simulation and CheckTx, which runs the
same handler on a store that no block reads; snapshots, queries, RPC, services and
configuration files. Of the stacks, callbacks and interchain accounts: what they do is
up to contracts and other chains. Sending the coins of a commission that the books have
already paid is taken to succeed (`app/export.go:93-95` would log it); a genesis file that
modules refuse and what panics in every process of a binary, or in none
(`app/app.go:225-345`), have no step of their own. Which modules return validator updates
is decided by the variants registered at `app/module.go:94` and `107`, not by an order, so
it has no property. That the fee market parameters `InitChainer` sets
survive an export and import is promised nowhere, so the override is an action of
`BlockOrder` without a property. `BlockedModuleAccountAddrs` deletes from the map it
is given (`app.go:381`), but `NewAppKeeper` never reads the map it shares. Scripts,
docker files and the interchain tests are not part of the node.
