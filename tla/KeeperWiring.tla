------------------------------ MODULE KeeperWiring ------------------------------
(***************************************************************************)
(* keepers.NewAppKeeper as the list of its statements. A keeper is a field *)
(* of AppKeepers, either a pointer or a struct; a later constructor takes  *)
(* the field itself (a struct is copied, a pointer is shared, and a        *)
(* pointer that is still nil stays nil for the one who took it), its       *)
(* address, or what the pointer points to. A setter adds to a keeper what  *)
(* only those see who do not hold an earlier copy. Addresses, codecs,      *)
(* limits and message routers play no part. One module uses one store and  *)
(* one parameter subspace.                                                 *)
(***************************************************************************)
EXTENDS Naturals, Sequences

\* The fields of AppKeepers that are pointers; the others are structs.
Pointers == {"Staking", "Gov", "Upgrade", "IBC", "EVM", "PFM"}

\* What an argument is: appKeepers.K, &appKeepers.K (a method with a pointer
\* receiver, such as Hooks, takes the address too) or what the pointer points
\* to: *appKeepers.K, or a field of it, such as appKeepers.IBCKeeper.ChannelKeeper.
Field(ks)   == {<<"field", k>> : k \in ks}
Address(ks) == {<<"address", k>> : k \in ks}
Deref(ks)   == {<<"deref", k>> : k \in ks}

\* A statement makes a keeper over a store and a subspace ("" for none), or
\* sets something of a keeper that exists. Modules and stacks count as
\* keepers that nobody holds.
New(k, store, space, args) == [op |-> "new", k |-> k, sets |-> "", store |-> store,
                               space |-> space, args |-> args]
Set(k, what, args)         == [op |-> "set", k |-> k, sets |-> what, store |-> "",
                               space |-> "", args |-> args]

GenerateKeys == {"auth", "bank", "staking", "mint", "distribution", "slashing", "gov",
                 "params", "ibc", "upgrade", "evidence", "transfer", "icahost",
                 "icacontroller", "feegrant", "authz", "packetfowardmiddleware",
                 "ratelimit", "provider", "consensus", "wasm", "ibcwasm", "erc20",
                 "feemarket", "evm", "precisebank"}

initParamsKeeper == {"auth", "staking", "bank", "mint", "distribution", "slashing", "gov",
                     "ibc", "transfer", "icacontroller", "icahost",
                     "packetfowardmiddleware", "ratelimit", "provider", "wasm"}

-----------------------------------------------------------------------------
Mut_HooksByValue == Set("Staking", "hooks", Field({"Distr", "Slashing", "Provider"}))

\* Taken before the provider keeper is made: only its address can work.
SetStakingHooks ==
  Set("Staking", "hooks", Field({"Distr", "Slashing"}) \union Address({"Provider"}))

StakingKeepers == <<
  New("Params", "params", "", {}),
  New("ConsensusParams", "consensus", "", {}),
  New("Upgrade", "upgrade", "", {}),
  New("Account", "auth", "", {}),
  New("Bank", "bank", "", Field({"Account"})),
  New("Authz", "authz", "", Field({"Account"})),
  Set("Authz", "bank", Field({"Bank"})),
  New("FeeGrant", "feegrant", "", Field({"Account"})),
  New("Staking", "staking", "", Field({"Account", "Bank"})),
  New("Distr", "distribution", "", Field({"Account", "Bank", "Staking"})),
  New("Slashing", "slashing", "", Field({"Staking"})),
  SetStakingHooks >>

ProviderAndGov == <<
  New("IBC", "ibc", "ibc", Field({"Upgrade"})),
  New("WasmClient", "ibcwasm", "", Deref({"IBC"})),
  New("Provider", "provider", "provider",
      Deref({"IBC"}) \union Field({"Staking", "Slashing", "Account", "Distr", "Bank"})),
  New("Gov", "gov", "", Field({"Account", "Bank", "Provider", "Distr"})),
  New("Mint", "mint", "", Field({"Provider", "Account", "Bank"})),
  Set("Provider", "gov", Deref({"Gov"})),
  New("ProviderModule", "provider", "provider", Address({"Provider"})),
  Set("Gov", "router", Field({"Params"})),
  Set("Gov", "hooks", Address({"Provider"})),
  New("Evidence", "evidence", "", Field({"Staking", "Slashing"})) >>

PacketKeepers == <<
  New("ICAHost", "icahost", "icahost", Deref({"IBC"}) \union Field({"Account"})),
  New("Ratelimit", "ratelimit", "ratelimit", Deref({"IBC"}) \union Field({"Bank"})),
  New("ICAController", "icacontroller", "icacontroller", Deref({"IBC"})),
  New("PFM", "packetfowardmiddleware", "", Deref({"IBC"}) \union Field({"Bank", "Ratelimit"})),
  New("Transfer", "transfer", "transfer", Deref({"IBC"}) \union Field({"Account", "Bank"})),
  Set("PFM", "transfer", Field({"Transfer"})) >>

NewAvailableStaticPrecompiles ==
  Set("EVM", "precompiles", Field({"PreciseBank", "Erc20", "Slashing", "Evidence"})
                            \union Deref({"Gov"}))

EvmKeepers == <<
  New("Feemarket", "feemarket", "", {}),
  New("PreciseBank", "precisebank", "", Field({"Bank", "Account"})),
  New("Erc20", "erc20", "", Field({"Account", "Bank", "EVM", "Staking"})
                            \union Address({"EVMTransfer"})),
  New("EVM", "evm", "", Field({"Account", "PreciseBank", "Staking", "Feemarket"})
                        \union Address({"Erc20"})),
  New("EVMTransfer", "evm", "transfer", Deref({"IBC"}) \union Field({"Account", "Bank", "Erc20"})),
  NewAvailableStaticPrecompiles,
  New("Wasm", "wasm", "", Deref({"IBC"}) \union
                          Field({"Account", "Bank", "Staking", "Distr", "Transfer"})) >>

Stacks == <<
  New("TransferStack", "", "", Field({"Transfer", "PFM", "Ratelimit"})),
  New("ICAHostStack", "", "", Field({"ICAHost"})),
  New("ICAControllerStack", "", "", Deref({"IBC"}) \union Field({"ICAController", "Wasm"})),
  Set("ICAController", "wrapper", Field({"ICAControllerStack"})),
  New("TransferStackV2", "", "", Deref({"IBC"}) \union Field({"Transfer", "Ratelimit", "Wasm"})),
  Set("IBC", "router", Field({"ICAHostStack", "ICAControllerStack", "TransferStack",
                              "ProviderModule", "Wasm"})),
  Set("IBC", "routerV2", Field({"TransferStackV2"})),
  New("ICAModule", "", "", Address({"ICAController", "ICAHost"})),
  New("TransferModule", "", "", Field({"Transfer"})),
  New("PFMModule", "", "packetfowardmiddleware", Field({"PFM"})),
  New("RatelimitModule", "", "", Field({"Ratelimit"})) >>

\* The table of the module manager. It is built from the struct NewAppKeeper
\* returned, so a field that is a struct is copied once more.
appModules == <<
  New("GovModule", "", "gov", Field({"Gov"})),
  New("StakingModule", "", "staking", Field({"Staking"})),
  New("SlashingModule", "", "slashing", Field({"Slashing", "Staking"})),
  New("MintModule", "", "mint", Field({"Mint"})),
  New("AuthzModule", "", "", Field({"Authz", "Bank"})),
  New("EvidenceModule", "", "", Field({"Evidence"})),
  New("IBCModule", "", "", Field({"IBC"})),
  New("EVMModule", "", "", Field({"EVM"})),
  New("Erc20Module", "", "", Field({"Erc20"})) >>

NewAppKeeper == StakingKeepers \o ProviderAndGov \o PacketKeepers \o EvmKeepers \o Stacks

\* An application's keepers and modules, in the order they are made.
Statements == NewAppKeeper \o appModules

-----------------------------------------------------------------------------
(* What the statements leave behind.                                       *)

\* The keepers the first n statements make.
Made(n) == {Statements[i].k : i \in {j \in 1..n : Statements[j].op = "new"}}

\* What the first n statements set of keeper k, since it was made.
Has(n, k) ==
  {Statements[i].sets : i \in {j \in 1..n :
     /\ Statements[j].op = "set" /\ Statements[j].k = k
     /\ \A m \in (j + 1)..n : Statements[m].k = k => Statements[m].op = "set"}}

\* How many statements have run on the keeper that the i-th one takes by arg,
\* when it is used: an address, or a pointer that is not nil, shows the keeper
\* as it is in the end, a copy as it was.
SeenAfter(i, arg) ==
  IF \/ arg[1] = "address"
     \/ arg[1] = "field" /\ arg[2] \in Pointers \intersect Made(i - 1)
  THEN Len(Statements) ELSE i - 1

\* The i-th statement panics when it follows a pointer that is nil, sets
\* something of a keeper that is a nil pointer, or asks for a subspace nobody
\* registered.
Panics(i) ==
  LET s == Statements[i] IN
  \/ \E arg \in s.args : arg[1] = "deref" /\ arg[2] \notin Made(i - 1)
  \/ s.op = "set" /\ s.k \in Pointers \ Made(i - 1)
  \/ s.space # "" /\ s.space \notin initParamsKeeper

ConstructionPanics == \E i \in DOMAIN Statements : Panics(i)

-----------------------------------------------------------------------------
(* What the handlers call: by uses, through its constructor or what was set, *)
(* keeper of, and relies on what was set of it.                              *)
Use(by, through, of, has) == [by |-> by, through |-> through, of |-> of, has |-> has]

Uses == {
  Use("StakingModule", "", "Staking", {"hooks"}),
  Use("Staking", "hooks", "Distr", {}), Use("Staking", "hooks", "Slashing", {}),
  Use("Staking", "hooks", "Provider", {"gov"}),
  Use("Slashing", "", "Staking", {"hooks"}),
  Use("Evidence", "", "Slashing", {}),
  Use("GovModule", "", "Gov", {"router", "hooks"}),
  Use("EVM", "precompiles", "Gov", {"hooks"}),
  Use("Gov", "", "Provider", {}), Use("Mint", "", "Provider", {}),
  Use("Gov", "hooks", "Provider", {"gov"}),
  Use("Provider", "gov", "Gov", {}),
  Use("ProviderModule", "", "Provider", {"gov"}),
  Use("AuthzModule", "", "Authz", {"bank"}),
  Use("TransferStack", "", "PFM", {"transfer"}),
  Use("PFM", "transfer", "Transfer", {}),
  Use("PFM", "", "Ratelimit", {}),
  Use("IBCModule", "", "IBC", {"router", "routerV2"}),
  Use("IBC", "router", "TransferStack", {}), Use("IBC", "routerV2", "TransferStackV2", {}),
  Use("ICAModule", "", "ICAController", {"wrapper"}),
  Use("EVMModule", "", "EVM", {"precompiles"}),
  Use("EVM", "", "Erc20", {}), Use("EVM", "", "PreciseBank", {}),
  Use("Erc20", "", "EVMTransfer", {}), Use("EVMTransfer", "", "Erc20", {}),
  Use("Wasm", "", "Transfer", {}) }

\* Converting between a coin and its contract calls the contract.
ConvertUse == Use("Erc20", "", "EVM", {})

\* A use finds its keeper: by took it under that name, and what it sees of it
\* was made and has what the use relies on.
Finds(u) ==
  \E i \in DOMAIN Statements :
    /\ Statements[i].k = u.by /\ Statements[i].sets = u.through
    /\ \E arg \in Statements[i].args :
         /\ arg[2] = u.of
         /\ u.of \in Made(SeenAfter(i, arg)) /\ u.has \subseteq Has(SeenAfter(i, arg), u.of)

\* A keeper works on a store that the application mounts.
StoresMounted == \A i \in DOMAIN Statements :
                   Statements[i].store \in GenerateKeys \union {""}
=============================================================================
