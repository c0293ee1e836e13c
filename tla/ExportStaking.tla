---------------------------- MODULE ExportStaking ----------------------------
(***************************************************************************)
(* ExportAppStateAndValidators (app/export.go:20-65) and the second half   *)
(* of prepForZeroHeightGenesis it calls (71-82 and 199-279): the staking   *)
(* and slashing records are sent back to height zero, the validators an    *)
(* allow list does not name are jailed, and the validator set is written.  *)
(*                                                                         *)
(* x/staking and x/slashing are outside the repository and are modelled    *)
(* from how export.go uses them: the power index, the bonded set, which    *)
(* ApplyAndReturnValidatorSetUpdates derives from it at every block end,   *)
(* and the heights their records carry.  Validators are numbered in the    *)
(* order of their operator addresses.  A delegator is left out: a          *)
(* validator has at most one record of entries that leave it.              *)
(***************************************************************************)
EXTENDS Integers, Sequences, SequencesExt, FiniteSets, FiniteSetsExt

CONSTANTS
  N,                              \* validators
  MaxValidators,                  \* x/staking: how many may be bonded
  MaxProviderConsensusValidators, \* x/provider: how many of them sign blocks
  Registered,                     \* modules appModules registers
  OrderExport,                    \* modules orderInitBlockers names
  MaxPower,                       \* bound: power of a validator
  MaxHeight,                      \* bound: blocks before the export
  MaxEntries,                     \* bound: unbonding and redelegation entries
  MaxListed                       \* bound: addresses of an allow list

ASSUME ExportAssumption ==
  /\ N \in Nat \ {0} /\ MaxValidators \in Nat \ {0}
  /\ MaxProviderConsensusValidators \in Nat \ {0}
  /\ MaxPower \in Nat \ {0} /\ MaxHeight \in Nat \ {0}
  /\ MaxEntries \in Nat /\ MaxListed \in Nat

VARIABLES
  phase,      \* "committed" and "running" on chain; a stage of the export; an end
  height,     \* height of the block being built, or of the last one committed
  power, jailed, bonded,  \* the validator records
  unbHeight,              \* their UnbondingHeight
  index,      \* validators by power: who is in the index
  red, ubd,   \* per source validator, creation heights of the entries
  info,       \* StartHeight of each signing info; NoInfo when there is none
  request,    \* what the operator asked for
  todo,       \* what the loop of the export at work has still to visit
  exported    \* what was exported: the height and the validators

staking == <<power, jailed, bonded, unbHeight, index>>
records == <<red, ubd, info>>
vars == <<phase, height, staking, records, request, todo, exported>>

Validator == 1..N
NoInfo == -1
Nothing == [height |-> NoInfo, validators |-> <<>>]

\* Bech32 may be written in capitals; the code accepts both spellings of an
\* address.  "malformed" stands for an address it cannot parse.
Entry == [who : Validator, spelling : {"canonical", "capitals"}]
Malformed == [who |-> 0, spelling |-> "malformed"]

Request ==
  [forZeroHeight : BOOLEAN,
   jailAllowedAddrs : UNION {kSubset(k, Entry \cup {Malformed}) : k \in 0..MaxListed},
   modulesToExport : {{}, Registered}]

NoRequest == [forZeroHeight |-> FALSE, jailAllowedAddrs |-> {}, modulesToExport |-> {"none"}]

Chain == {"committed", "running"}
Ends == {"done", "failed", "panicked"}
Stages == {"redelegations", "unbondings", "validators", "apply", "infos", "genesis", "write"}

TypeOK ==
  /\ phase \in Chain \cup Stages \cup Ends
  /\ height \in 1..MaxHeight
  /\ power \in [Validator -> 0..MaxPower]
  /\ jailed \in [Validator -> BOOLEAN] /\ bonded \in [Validator -> BOOLEAN]
  /\ unbHeight \in [Validator -> 0..MaxHeight]
  /\ index \in SUBSET Validator /\ todo \in SUBSET Validator
  /\ red \in [Validator -> SUBSET (0..MaxHeight)]
  /\ ubd \in [Validator -> SUBSET (0..MaxHeight)]
  /\ info \in [Validator -> 0..MaxHeight \cup {NoInfo}]
  /\ request \in Request \cup {NoRequest}
  /\ exported.height \in {NoInfo, 0} \cup 2..(MaxHeight + 1)
  /\ exported.validators \in Seq(Validator)
  /\ Len(exported.validators) <= MaxProviderConsensusValidators

-----------------------------------------------------------------------------
(* x/staking.                                                              *)

\* The elements of S in order: k - 1 of them come before the k-th.
Ranked(S, Before(_, _)) ==
  [k \in 1..Cardinality(S) |->
     CHOOSE x \in S : Cardinality({y \in S : Before(y, x)}) = k - 1]

Stronger(v, w) == power[v] > power[w] \/ (power[v] = power[w] /\ v < w)
ByPower(S) == Ranked(S, Stronger)
Take(s, n) == SubSeq(s, 1, IF Len(s) < n THEN Len(s) ELSE n)

\* ApplyAndReturnValidatorSetUpdates scans the head of the index and stops at
\* the first validator without power; a jailed one it meets is a panic.
Scanned == Take(ByPower(index), MaxValidators)
Top == {v \in ToSet(Scanned) : power[v] > 0}
MeetsJailed ==
  \E i \in DOMAIN Scanned :
    jailed[Scanned[i]] /\ \A j \in 1..(i - 1) : power[Scanned[j]] > 0

\* Who enters is bonded and gets a signing info that starts now; who leaves
\* begins to unbond now.
ApplyAndReturnValidatorSetUpdates ==
  /\ bonded' = [v \in Validator |-> v \in Top]
  /\ unbHeight' = [v \in Validator |->
                     IF bonded[v] /\ v \notin Top THEN height ELSE unbHeight[v]]
  /\ info' = [v \in Validator |->
                IF ~bonded[v] /\ v \in Top THEN height ELSE info[v]]
  /\ UNCHANGED <<power, jailed, index>>

-----------------------------------------------------------------------------
(* The chain before the export.                                            *)

Init ==
  /\ phase = "committed" /\ height = 1
  /\ power = [v \in Validator |-> 1]
  /\ jailed = [v \in Validator |-> FALSE]
  /\ bonded = [v \in Validator |-> v <= MaxValidators]
  /\ unbHeight = [v \in Validator |-> 0]
  /\ index = Validator
  /\ red = [v \in Validator |-> {}] /\ ubd = red
  /\ info = [v \in Validator |-> IF bonded[v] THEN 1 ELSE NoInfo]
  /\ request = NoRequest /\ todo = {} /\ exported = Nothing


BeginBlock ==
  /\ phase = "committed" /\ height < MaxHeight
  /\ phase' = "running" /\ height' = height + 1
  /\ UNCHANGED <<staking, records, request, todo, exported>>

EndBlock ==
  /\ phase = "running" /\ ~MeetsJailed
  /\ ApplyAndReturnValidatorSetUpdates
  /\ phase' = "committed"
  /\ UNCHANGED <<height, red, ubd, request, todo, exported>>

HasRoom == MapThenSumSet(LAMBDA v : Cardinality(red[v]) + Cardinality(ubd[v]), Validator)
             < MaxEntries

Delegate(v) ==
  /\ power[v] < MaxPower
  /\ power' = [power EXCEPT ![v] = @ + 1]
  /\ UNCHANGED <<jailed, index, red, ubd>>

Undelegate(v) ==
  /\ power[v] > 0 /\ HasRoom
  /\ power' = [power EXCEPT ![v] = @ - 1]
  /\ ubd' = [ubd EXCEPT ![v] = @ \cup {height}]
  /\ UNCHANGED <<jailed, index, red>>

Redelegate(v, w) ==
  /\ v # w /\ power[v] > 0 /\ power[w] < MaxPower /\ HasRoom
  /\ power' = [power EXCEPT ![v] = @ - 1, ![w] = @ + 1]
  /\ red' = [red EXCEPT ![v] = @ \cup {height}]
  /\ UNCHANGED <<jailed, index, ubd>>

\* A jailed validator is out of the index, and back in it when it is released.
Jail(v) ==
  /\ ~jailed[v]
  /\ jailed' = [jailed EXCEPT ![v] = TRUE]
  /\ index' = index \ {v}
  /\ UNCHANGED <<power, red, ubd>>

Unjail(v) ==
  /\ jailed[v] /\ power[v] > 0
  /\ jailed' = [jailed EXCEPT ![v] = FALSE]
  /\ index' = index \cup {v}
  /\ UNCHANGED <<power, red, ubd>>

Transaction ==
  /\ phase = "running"
  /\ \/ \E v \in Validator : Delegate(v) \/ Undelegate(v) \/ Jail(v) \/ Unjail(v)
     \/ \E v, w \in Validator : Redelegate(v, w)
  /\ UNCHANGED <<phase, height, bonded, unbHeight, info, request, todo, exported>>

-----------------------------------------------------------------------------
(* The export.                                                             *)

Goto(stage) ==
  /\ phase' = stage
  /\ todo' = IF stage \in {"redelegations", "unbondings", "validators", "infos"}
             THEN Validator ELSE {}

\* ExportAppStateAndValidators begins: an allow list with an address that does
\* not parse is a panic, before anything is changed.
Export ==
  /\ phase = "committed"
  /\ request' \in Request
  /\ Goto(IF ~request'.forZeroHeight THEN "genesis"
          ELSE IF Malformed \in request'.jailAllowedAddrs THEN "panicked"
          ELSE "redelegations")
  /\ UNCHANGED <<height, staking, records, exported>>

\* A loop has visited every record.
LoopEnds ==
  /\ todo = {}
  /\ \/ phase = "redelegations" /\ Goto("unbondings")
     \/ phase = "unbondings" /\ Goto("validators")
     \/ phase = "validators" /\ Goto("apply")
     \/ phase = "infos" /\ Goto("genesis")
  /\ UNCHANGED <<height, staking, records, request, exported>>

Visit(stage, v) ==
  /\ phase = stage /\ todo' = todo \ {v}
  /\ UNCHANGED <<phase, height, request, exported>>

Lowest == Min(todo)
Highest == Max(todo)

\* The creation height of every entry of a redelegation is reset.
ResetRedelegation ==
  /\ todo # {} /\ Visit("redelegations", Lowest)
  /\ red' = [red EXCEPT ![Lowest] = {0 : h \in @}]
  /\ UNCHANGED <<staking, ubd, info>>

ResetUnbonding ==
  /\ todo # {} /\ Visit("unbondings", Lowest)
  /\ ubd' = [ubd EXCEPT ![Lowest] = {0 : h \in @}]
  /\ UNCHANGED <<staking, red, info>>

\* The list is consulted with the address as the validator's record spells it.
Listed(v) == [who |-> v, spelling |-> "canonical"] \in request.jailAllowedAddrs
\* Mutant: an empty list jails everyone.
Mut_NoListJailsAll(v) == ~Listed(v)
ToBeJailed(v) == request.jailAllowedAddrs # {} /\ ~Listed(v)

\* Mutant: jails the way x/staking does, and leaves the index consistent.
Mut_JailedLeavesIndex ==
  /\ todo # {} /\ Visit("validators", Highest)
  /\ unbHeight' = [unbHeight EXCEPT ![Highest] = 0]
  /\ jailed' = [jailed EXCEPT ![Highest] = @ \/ ToBeJailed(Highest)]
  /\ index' = IF ToBeJailed(Highest) THEN index \ {Highest} ELSE index
  /\ UNCHANGED <<power, bonded, records>>

\* Validators are visited from the last key of the store to the first.  The
\* Jailed field is set in the record; the power index is left as it is.
ResetValidator ==
  /\ todo # {} /\ Visit("validators", Highest)
  /\ unbHeight' = [unbHeight EXCEPT ![Highest] = 0]
  /\ jailed' = [jailed EXCEPT ![Highest] = @ \/ ToBeJailed(Highest)]
  /\ UNCHANGED <<power, bonded, index, records>>

\* Mutant: the validator set update is left to the first block.
Mut_NoSetUpdate ==
  /\ phase = "apply" /\ Goto("infos")
  /\ UNCHANGED <<height, staking, records, request, exported>>

\* The last committed height is still the height of the context here.
ApplyUpdates ==
  /\ phase = "apply"
  /\ IF MeetsJailed
     THEN Goto("panicked") /\ UNCHANGED <<staking, info>>
     ELSE Goto("infos") /\ ApplyAndReturnValidatorSetUpdates
  /\ UNCHANGED <<height, red, ubd, request, exported>>

\* Only validators that were bonded once have a signing info.
ResetSigningInfo ==
  /\ todo # {} /\ Visit("infos", Lowest)
  /\ info' = [info EXCEPT ![Lowest] = IF @ = NoInfo THEN NoInfo ELSE 0]
  /\ UNCHANGED <<staking, red, ubd>>

\* ExportGenesisForModules refuses a name no module is registered under; an
\* empty list stands for all the names of the export order.
ExportGenesis ==
  /\ phase = "genesis"
  /\ LET named == IF request.modulesToExport = {} THEN OrderExport
                  ELSE request.modulesToExport
     IN  Goto(IF named \subseteq Registered THEN "write" ELSE "failed")
  /\ UNCHANGED <<height, staking, records, request, exported>>

\* sort.SliceStable by Power, descending.
StableByPower(s) ==
  LET order == Ranked(DOMAIN s, LAMBDA i, j :
                 power[s[i]] > power[s[j]] \/ (power[s[i]] = power[s[j]] /\ i < j))
  IN  [k \in DOMAIN s |-> s[order[k]]]

\* staking.WriteValidators lists the bonded validators in address order.
WriteValidators == Ranked({v \in Validator : bonded[v]}, <)

\* Mutants: the list is not trimmed; it is trimmed before it is sorted.
Mut_NotTrimmed == StableByPower(WriteValidators)
Mut_TrimmedFirst == StableByPower(Take(WriteValidators, MaxProviderConsensusValidators))

ExportedValidators == Take(StableByPower(WriteValidators), MaxProviderConsensusValidators)

WriteExport ==
  /\ phase = "write" /\ Goto("done")
  /\ exported' = [height |-> IF request.forZeroHeight THEN 0 ELSE height + 1,
                  validators |-> ExportedValidators]
  /\ UNCHANGED <<height, staking, records, request>>

Ended == phase \in Ends /\ UNCHANGED vars

Next ==
  \/ BeginBlock \/ Transaction \/ EndBlock
  \/ Export \/ LoopEnds \/ ResetRedelegation \/ ResetUnbonding \/ ResetValidator
  \/ ApplyUpdates \/ ResetSigningInfo \/ ExportGenesis \/ WriteExport \/ Ended

Spec == Init /\ [][Next]_vars

-----------------------------------------------------------------------------
(* Properties.                                                             *)

\* The genesis file starts with the very validators that sign blocks now, in
\* the order x/provider ranks them: the stable sort of the address-ordered list
\* breaks ties between equal powers as the power index does, and it comes
\* before the trim (app/export.go:46-57).
ConsensusSet == Take(ByPower({v \in Validator : bonded[v]}), MaxProviderConsensusValidators)
ExportedSetIsConsensusSet == phase = "done" => exported.validators = ConsensusSet

\* After a preparation for height zero no staking or slashing record remembers
\* a height of the old chain, not even one that the validator set update of the
\* preparation, which runs at the old height, wrote (app/export.go:199-279).
NoOldHeights ==
  phase = "done" /\ request.forZeroHeight =>
    \A v \in Validator :
      /\ unbHeight[v] = 0 /\ info[v] \in {0, NoInfo}
      /\ (red[v] \cup ubd[v]) \subseteq {0}

\* An export panics when its allow list does not parse or leaves out a
\* validator that is bonded or, while there is room for one more, is the first
\* without power; an export that ends had no such list (app/export.go:77-80,
\* 247-249, 259-262).
NextInLine(v) ==
  LET stronger == {w \in index : Stronger(w, v)}
  IN  /\ v \in index /\ Cardinality(stronger) < MaxValidators
      /\ \A w \in stronger : power[w] > 0
LeavesOut(v) ==
  /\ request.jailAllowedAddrs # {}
  /\ [who |-> v, spelling |-> "canonical"] \notin request.jailAllowedAddrs
BadList ==
  /\ request.forZeroHeight
  /\ \/ Malformed \in request.jailAllowedAddrs
     \/ \E v \in Validator : (bonded[v] \/ NextInLine(v)) /\ LeavesOut(v)
PanicsForCause ==
  /\ phase = "panicked" => BadList
  /\ phase \in {"failed", "done"} => ~BadList

\* A validator the allow list leaves out signs no block of the new chain
\* (app/export.go:247-249 with 46-57).
ExportedAreAllowed ==
  phase = "done" /\ request.forZeroHeight =>
    \A v \in ToSet(exported.validators) : ~LeavesOut(v) /\ ~jailed[v]

\* What the comments of app/export.go say and the code does not do.

\* "prepare for fresh start at zero height" (app/export.go:67), with an allow
\* list that parses (71-82).
AllowListIsUsable ==
  phase = "panicked" => Malformed \in request.jailAllowedAddrs

\* "exports the state of the application for a genesis file"
\* (app/export.go:18-19), when the operator names no module.
DefaultExportSucceeds == phase = "failed" => request.modulesToExport # {}
=============================================================================
