-------------------------- MODULE ZeroHeightRewards --------------------------
(***************************************************************************)
(* The first half of prepForZeroHeightGenesis (app/export.go:84-197): the  *)
(* fee-distribution state is paid out, wiped and built anew as if every    *)
(* validator and delegation had just been created at height zero.          *)
(* x/distribution itself is outside the repository.  It is modelled from   *)
(* how export.go uses it: its reward periods and their reference counts,   *)
(* the starting info of each delegation, and the books (outstanding        *)
(* rewards, community pool, module account).  Rewards are counted in       *)
(* fractions of a coin, Scale to the coin; a payment is in whole coins.    *)
(* The chain runs for a while, and an operator exports it at any point.    *)
(***************************************************************************)
EXTENDS Integers, FiniteSets, FiniteSetsExt

CONSTANTS
  Validator, Delegator,
  Scale,            \* fractions of a coin
  MaxRunPeriod,     \* bound: reward periods of a validator before the export
  MaxHeight         \* bound: blocks before the export

ASSUME RewardsAssumption ==
  /\ IsFiniteSet(Delegator) /\ IsFiniteSet(Validator)
  /\ Scale \in Nat \ {0, 1}
  /\ MaxRunPeriod \in Nat /\ MaxHeight \in Nat \ {0}

VARIABLES
  phase,       \* "running", a stage of the preparation, "done" or "panicked"
  todo,        \* what the current loop of the preparation has still to visit
  height,      \* ctx.BlockHeight() of the chain, then of the preparation
  saved,       \* the preparation's local `height`, to set it back
  dels,        \* staking: the delegations that exist, <<delegator, validator>>
  start,       \* starting info: the period a delegation's rewards count from
  slashes,     \* the periods slash events point at
  rwd,         \* per validator: current period, reference counts of the
               \* historical records, accumulated commission, outstanding rewards
  pool,        \* the community pool, in fractions
  bank,        \* coins of the distribution module account
  owed,        \* what F1 distribution owes a delegation, in fractions
  due, sent    \* history: owed when the export began; coins it paid since

dist == <<start, slashes, rwd, pool, bank, owed>>
vars == <<phase, todo, height, saved, dels, dist, due, sent>>

Pair == Delegator \X Validator
MaxPeriod == MaxRunPeriod + Cardinality(Delegator)
Period == 0..MaxPeriod
NoInfo == [period |-> -1, height |-> 0]
Loops == {"commissions", "rewards", "validators", "delegations"}

TypeOK ==
  /\ phase \in {"running", "clear", "reset", "done", "panicked"} \cup Loops
  /\ todo \in SUBSET (Validator \cup Pair)
  /\ height \in 0..MaxHeight /\ saved \in 0..MaxHeight
  /\ dels \in SUBSET Pair
  /\ start \in [Pair -> [period : Period, height : 0..MaxHeight] \cup {NoInfo}]
  /\ slashes \in [Validator -> SUBSET Period]
  /\ rwd \in [Validator -> [period : 1..(MaxPeriod + 1), refs : [Period -> 0..3],
                            commission : Nat, outstanding : Nat]]
  /\ pool \in Nat /\ bank \in Nat
  /\ owed \in [Pair -> Nat] /\ due \in [Pair -> Nat] /\ sent \in [Pair -> Nat]

-----------------------------------------------------------------------------
(* x/distribution, as operators on the record r of one validator.          *)

\* initializeValidator: one record, for period 0, referenced by the validator.
NewValidator ==
  [period |-> 1, refs |-> [p \in Period |-> IF p = 0 THEN 1 ELSE 0],
   commission |-> 0, outstanding |-> 0]

\* IncrementValidatorPeriod ends the current period: its record is referenced
\* by the validator in place of the previous one.  A count below zero panics.
MayIncrement(r) == r.refs[r.period - 1] > 0
Incremented(r) ==
  [r EXCEPT !.period = @ + 1,
            !.refs = [r.refs EXCEPT ![r.period - 1] = @ - 1, ![r.period] = 1]]

\* initializeDelegation refers to the last ended period; more than two
\* references before that panic.
MayReference(r) == r.refs[r.period - 1] <= 2
Referenced(r) == [r EXCEPT !.refs[r.period - 1] = @ + 1]

\* withdrawDelegationRewards gives the reference up.
MayRelease(r, p) == p >= 0 /\ r.refs[p] > 0
Released(r, p) == [r EXCEPT !.refs[p] = @ - 1]

Least(a, b) == IF a <= b THEN a ELSE b

\* Nothing has accrued to a delegation that started in this very block; what is
\* paid never exceeds the outstanding rewards.
Reward(d, v) ==
  IF start[<<d, v>>].height = height THEN 0
  ELSE Least(owed[<<d, v>>], rwd[v].outstanding)

\* WithdrawDelegationRewards pays whole coins, leaves the fraction to the
\* community pool, and starts the delegation anew.
AfterWithdraw(d, v) ==
  LET paid == [Incremented(rwd[v]) EXCEPT !.outstanding = @ - Reward(d, v)]
  IN  Released(paid, start[<<d, v>>].period)

MayWithdraw(d, v) ==
  /\ start[<<d, v>>] # NoInfo
  /\ MayIncrement(rwd[v])
  /\ MayRelease(Incremented(rwd[v]), start[<<d, v>>].period)

PayOut(d, v) ==
  /\ bank' = bank - (Reward(d, v) \div Scale)
  /\ pool' = pool + (Reward(d, v) % Scale)
  /\ owed' = [owed EXCEPT ![<<d, v>>] = @ - Reward(d, v)]

StartInfo(r) == [period |-> r.period - 1, height |-> height]

WithdrawRewards(d, v) ==
  /\ MayWithdraw(d, v)
  /\ MayReference(AfterWithdraw(d, v))
  /\ PayOut(d, v)
  /\ rwd' = [rwd EXCEPT ![v] = Referenced(AfterWithdraw(d, v))]
  /\ start' = [start EXCEPT ![<<d, v>>] = StartInfo(AfterWithdraw(d, v))]
  /\ UNCHANGED slashes

\* BeforeDelegationCreated and AfterDelegationModified.
NewDelegation(d, v) ==
  /\ MayIncrement(rwd[v])
  /\ MayReference(Incremented(rwd[v]))
  /\ rwd' = [rwd EXCEPT ![v] = Referenced(Incremented(rwd[v]))]
  /\ start' = [start EXCEPT ![<<d, v>>] = StartInfo(Incremented(rwd[v]))]
  /\ UNCHANGED <<slashes, pool, bank, owed>>

\* WithdrawValidatorCommission pays the whole coins of the commission; it
\* returns an error, and changes nothing, when no commission is accumulated.
WithdrawCommission(v) ==
  LET coins == rwd[v].commission \div Scale
  IN  /\ bank' = bank - coins
      /\ rwd' = [rwd EXCEPT ![v].commission = @ % Scale,
                            ![v].outstanding = @ - coins * Scale]
      /\ UNCHANGED <<start, slashes, pool, owed>>

-----------------------------------------------------------------------------
(* The chain before the export.                                            *)

Init ==
  /\ phase = "running" /\ todo = {} /\ height = 1 /\ saved = 0 /\ dels = {}
  /\ start = [p \in Pair |-> NoInfo]
  /\ slashes = [v \in Validator |-> {}]
  /\ rwd = [v \in Validator |-> NewValidator]
  /\ pool = 0 /\ bank = 0
  /\ owed = [p \in Pair |-> 0]
  /\ due = owed /\ sent = owed

HasRoom(v) == rwd[v].period < MaxRunPeriod

\* A block begins: the validators of vs share fees, one fraction to each
\* delegation and to the commission, whole coins to the module account.
BeginBlock(vs) ==
  /\ phase = "running" /\ height < MaxHeight
  /\ \A v \in vs : \E d \in Delegator : <<d, v>> \in dels
  /\ height' = height + 1
  /\ bank' = bank + Cardinality(Delegator) * Cardinality(vs)
  /\ rwd' = [v \in Validator |->
               IF v \notin vs THEN rwd[v]
               ELSE [rwd[v] EXCEPT !.commission = @ + 1,
                       !.outstanding = @ + Cardinality(Delegator) * Scale]]
  /\ owed' = [p \in Pair |-> IF p \in dels /\ p[2] \in vs THEN owed[p] + 1 ELSE owed[p]]
  /\ UNCHANGED <<phase, todo, saved, dels, start, slashes, pool, due, sent>>

Delegate(d, v) ==
  /\ phase = "running" /\ HasRoom(v)
  /\ <<d, v>> \notin dels
  /\ NewDelegation(d, v)
  /\ dels' = dels \cup {<<d, v>>}
  /\ UNCHANGED <<phase, todo, height, saved, due, sent>>

\* A reward withdrawal, or a change of the delegated amount.
Claim(d, v) ==
  /\ phase = "running" /\ HasRoom(v)
  /\ <<d, v>> \in dels
  /\ WithdrawRewards(d, v)
  /\ UNCHANGED <<phase, todo, height, saved, dels, due, sent>>

Undelegate(d, v) ==
  /\ phase = "running" /\ HasRoom(v)
  /\ <<d, v>> \in dels
  /\ MayWithdraw(d, v)
  /\ PayOut(d, v)
  /\ rwd' = [rwd EXCEPT ![v] = AfterWithdraw(d, v)]
  /\ start' = [start EXCEPT ![<<d, v>>] = NoInfo]
  /\ dels' = dels \ {<<d, v>>}
  /\ UNCHANGED <<phase, todo, height, saved, slashes, due, sent>>

\* A slash event keeps a reference to the period it ended.
Slash(v) ==
  /\ phase = "running" /\ HasRoom(v)
  /\ \E d \in Delegator : <<d, v>> \in dels
  /\ MayIncrement(rwd[v])
  /\ rwd' = [rwd EXCEPT ![v] = Referenced(Incremented(rwd[v]))]
  /\ slashes' = [slashes EXCEPT ![v] = @ \cup {rwd[v].period}]
  /\ UNCHANGED <<phase, todo, height, saved, dels, start, pool, bank, owed, due, sent>>

-----------------------------------------------------------------------------
(* prepForZeroHeightGenesis.  The loops go in store order; any order of    *)
(* the model values is allowed for, since addresses are arbitrary.         *)

\* The stages in their order, each with what its loop visits.
Items(stage) ==
  CASE stage \in {"commissions", "validators"} -> Validator
    [] stage \in {"rewards", "delegations"} -> dels
    [] OTHER -> {}

Enter(stage) == phase' = stage /\ todo' = Items(stage)

Export ==
  /\ phase = "running"
  /\ Enter("commissions")
  /\ due' = owed
  /\ UNCHANGED <<height, saved, dels, dist, sent>>

LoopEnds ==
  /\ phase \in Loops /\ todo = {}
  /\ Enter(CASE phase = "commissions" -> "rewards"
             [] phase = "rewards" -> "clear"
             [] phase = "validators" -> "delegations"
             [] phase = "delegations" -> "reset")
  /\ UNCHANGED <<height, saved, dels, dist, due, sent>>

Visits(stage, x) ==
  /\ phase = stage /\ x \in todo
  /\ todo' = todo \ {x}
  /\ UNCHANGED <<height, saved, dels, due>>

Panic == phase' = "panicked" /\ UNCHANGED <<dist, sent>>

\* An error is only logged.
ExportCommission(v) ==
  /\ Visits("commissions", v)
  /\ IF rwd[v].commission = 0 THEN UNCHANGED dist ELSE WithdrawCommission(v)
  /\ UNCHANGED <<phase, sent>>

Mut_ExportRewardsUnslashed(d, v) ==
  /\ Visits("rewards", <<d, v>>)
  /\ IF slashes[v] # {} THEN UNCHANGED <<dist, sent>>
     ELSE /\ WithdrawRewards(d, v)
          /\ sent' = [sent EXCEPT ![<<d, v>>] = Reward(d, v) \div Scale]
  /\ UNCHANGED phase

\* An error panics, and so does a bad reference count.
ExportRewards(d, v) ==
  /\ Visits("rewards", <<d, v>>)
  /\ \/ /\ WithdrawRewards(d, v)
        /\ sent' = [sent EXCEPT ![<<d, v>>] = Reward(d, v) \div Scale]
        /\ UNCHANGED phase
     \/ ~(MayWithdraw(d, v) /\ MayReference(AfterWithdraw(d, v))) /\ Panic

Mut_ClearAtOldHeight ==
  /\ phase = "clear"
  /\ slashes' = [v \in Validator |-> {}]
  /\ rwd' = [v \in Validator |-> [rwd[v] EXCEPT !.refs = [p \in Period |-> 0]]]
  /\ Enter("validators")
  /\ UNCHANGED <<height, saved, dels, start, pool, bank, owed, due, sent>>

Mut_ClearSlashesOnly ==
  /\ phase = "clear"
  /\ slashes' = [v \in Validator |-> {}]
  /\ height' = 0 /\ saved' = height
  /\ Enter("validators")
  /\ UNCHANGED <<dels, start, rwd, pool, bank, owed, due, sent>>

\* DeleteAllValidatorSlashEvents, DeleteAllValidatorHistoricalRewards, and the
\* context height goes to zero.
Clear ==
  /\ phase = "clear"
  /\ slashes' = [v \in Validator |-> {}]
  /\ rwd' = [v \in Validator |-> [rwd[v] EXCEPT !.refs = [p \in Period |-> 0]]]
  /\ height' = 0 /\ saved' = height
  /\ Enter("validators")
  /\ UNCHANGED <<dels, start, pool, bank, owed, due, sent>>

Mut_ReinitKeepsScraps(v) ==
  /\ Visits("validators", v)
  /\ rwd' = [rwd EXCEPT ![v] = NewValidator]
  /\ UNCHANGED <<phase, start, slashes, pool, bank, owed, sent>>

Mut_ReinitTakesScraps(v) ==
  /\ Visits("validators", v)
  /\ pool' = pool - rwd[v].outstanding
  /\ rwd' = [rwd EXCEPT ![v] = NewValidator]
  /\ UNCHANGED <<phase, start, slashes, bank, owed, sent>>

Mut_ReinitDonatesOnly(v) ==
  /\ Visits("validators", v)
  /\ pool' = pool + rwd[v].outstanding
  /\ rwd' = [rwd EXCEPT ![v].outstanding = 0, ![v].commission = 0]
  /\ UNCHANGED <<phase, start, slashes, bank, owed, sent>>

\* What nobody can withdraw goes to the community pool, and
\* AfterValidatorCreated overwrites the validator's records.
ReinitValidator(v) ==
  /\ Visits("validators", v)
  /\ pool' = pool + rwd[v].outstanding
  /\ rwd' = [rwd EXCEPT ![v] =
               [NewValidator EXCEPT !.refs = [rwd[v].refs EXCEPT ![0] = 1]]]
  /\ UNCHANGED <<phase, start, slashes, bank, owed, sent>>

ReinitDelegation(d, v) ==
  /\ Visits("delegations", <<d, v>>)
  /\ \/ NewDelegation(d, v) /\ UNCHANGED <<phase, sent>>
     \/ ~(MayIncrement(rwd[v]) /\ MayReference(Incremented(rwd[v]))) /\ Panic

\* The context height is the chain's again for the staking half.
ResetHeight ==
  /\ phase = "reset"
  /\ phase' = "done"
  /\ height' = saved
  /\ UNCHANGED <<todo, saved, dels, dist, due, sent>>

Stopped == phase \in {"done", "panicked"} /\ UNCHANGED vars

Chain ==
  \/ \E vs \in SUBSET Validator : BeginBlock(vs)
  \/ \E d \in Delegator, v \in Validator :
       Delegate(d, v) \/ Claim(d, v) \/ Undelegate(d, v)
  \/ \E v \in Validator : Slash(v)
  \/ \E v \in Validator :
       /\ phase = "running" /\ rwd[v].commission > 0
       /\ WithdrawCommission(v)
       /\ UNCHANGED <<phase, todo, height, saved, dels, due, sent>>

Prepare ==
  \/ Export \/ LoopEnds \/ Clear \/ ResetHeight
  \/ \E v \in Validator : ExportCommission(v) \/ ReinitValidator(v)
  \/ \E d \in Delegator, v \in Validator :
       ExportRewards(d, v) \/ ReinitDelegation(d, v)

Next == Chain \/ Prepare \/ Stopped

Spec == Init /\ [][Next]_vars

-----------------------------------------------------------------------------

Total(f) == MapThenSumSet(LAMBDA x : f[x], DOMAIN f)
Outstanding == [v \in Validator |-> rwd[v].outstanding]

(* The books balance at every step: the coins of the module account are    *)
(* the outstanding rewards plus the community pool, to the fraction, so    *)
(* the exported genesis passes the ledger check of the distribution module *)
(* (app/export.go:86-173).                                                 *)
BooksBalance == bank * Scale = pool + Total(Outstanding)

\* Who refers to the record of period p of validator v.
Referents(v, p) ==
  {d \in Delegator : start[<<d, v>>].period = p}

RefCountOf(v, p) ==
  Cardinality(Referents(v, p)) + Cardinality(slashes[v] \cap {p})
  + (IF rwd[v].period = p + 1 THEN 1 ELSE 0)

(* Every historical record is counted once for the validator, once for     *)
(* each delegation and once for each slash event that refers to it, while  *)
(* the chain runs and again once the preparation is done: a stale record,  *)
(* or one dropped too early, breaks the next withdrawal                    *)
(* (app/export.go:124-194).                                                *)
ReferencesCounted ==
  phase \in {"running", "commissions", "rewards", "done"} =>
    \A v \in Validator, p \in Period : rwd[v].refs[p] = RefCountOf(v, p)

(* The preparation of a consistent chain reaches its end: none of the      *)
(* counters it drives through the distribution hooks under- or overflows   *)
(* (app/export.go:103-122 and 169-193).                                    *)
NeverPanics == phase # "panicked"

(* Each delegation is paid the whole coins it was owed when the export     *)
(* began, no more and no less, and nothing is left owing                   *)
(* (app/export.go:103-122).                                                *)
DelegatorsArePaid ==
  phase = "done" => \A p \in dels : sent[p] = due[p] \div Scale /\ owed[p] = 0

(* The store that is exported is the one a new chain would have after the  *)
(* same validators and delegations were created at height zero, with every *)
(* coin of the module account in the community pool                        *)
(* (app/export.go:124-197).                                                *)
FreshStart ==
  phase = "done" =>
    /\ pool = bank * Scale
    /\ \A v \in Validator :
         /\ slashes[v] = {} /\ rwd[v].commission = 0 /\ rwd[v].outstanding = 0
         /\ rwd[v].period = 1 + Cardinality({d \in Delegator : <<d, v>> \in dels})
    /\ \A p \in Pair : IF p \in dels THEN start[p] # NoInfo /\ start[p].height = 0
                       ELSE start[p] = NoInfo
    /\ \A p, q \in dels : p # q /\ p[2] = q[2] => start[p].period # start[q].period
=============================================================================
