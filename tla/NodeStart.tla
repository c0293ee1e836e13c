-------------------------------- MODULE NodeStart --------------------------------
(***************************************************************************)
(* An echofid process from its launch to its end, and what survives it.    *)
(* NewRootCmd first builds a temporary application in a directory of its   *)
(* own; the command then builds the real one: start serves blocks, export  *)
(* loads a height. NewEchofiApp is a sequence of steps (at); the options   *)
(* of the EVM are settings of the process, which both applications share.  *)
(* The process can be killed at every step. x/upgrade, the consensus       *)
(* engine, the VMs and the operator are modelled from how the code uses    *)
(* them: at the height of a plan the node, which registers no upgrade      *)
(* handler, writes upgrade-info.json and stops, until the operator names   *)
(* that height in the flag that skips it. The write truncates the file     *)
(* first, so a kill can leave a torn one. A part of the disk can break     *)
(* while no process runs; each start fails on it where it is first used.   *)
(* What panics because of the binary alone (the tables of app.go:225-345,  *)
(* the command tree of cmd.go:138-148) does so in every start or in none,  *)
(* and is taken not to.                                                    *)
(*                                                                         *)
(* MaxHeight bounds the chain, MaxFaults the kills, exports and breaks,    *)
(* KeepRecent is the number of heights pruning leaves, Plans the heights   *)
(* governance may name in a plan.                                          *)
(***************************************************************************)
EXTENDS KeeperWiring, Integers, FiniteSets

CONSTANTS MaxHeight, MaxFaults, KeepRecent, EVMChainID, ChainsCoinInfo, Plans
ASSUME BoundsAssumption ==
  /\ MaxHeight \in Nat /\ MaxFaults \in Nat /\ KeepRecent \in Nat
  /\ EVMChainID \in ChainsCoinInfo /\ Plans \subseteq 1..MaxHeight

VARIABLES
  height, plan, pinned,  \* what is committed: height, height of the plan (0: none), pinned VMs
  decided,               \* the block the engine has decided and the node has not committed
  info, genesis, dirs,   \* upgrade-info.json (0: none), genesis.json, homes that exist
  broken,                \* the parts of the disk a start fails on
  flags,                 \* --unsafe-skip-upgrades, as the operator has it now
  faults,                \* kills, exports and breaks so far
  phase, cmd,            \* what the process is doing, for which command
  app, at, loaded,       \* the application built last, its next step, the height it loaded
  wired, cache,          \* its keepers, and the pinned codes its VMs hold
  sealed, denoms, evmChain,     \* the process-wide settings of evm_config.go
  open,                  \* VM directories the process has locked
  block                  \* the block being executed: its stage and the plan it leaves

chainVars   == <<height, plan, pinned, decided>>
diskVars    == <<info, genesis, dirs, broken, flags, faults>>
appVars     == <<app, at, loaded, wired, cache, block>>
configVars  == <<sealed, denoms, evmChain>>
vars == <<chainVars, diskVars, phase, cmd, appVars, configVars, open>>

Heights   == 1..MaxHeight
Latest    == -1
NotLoaded == -1
Torn      == -1
VMs       == {"WasmClient", "Wasm"}

\* What a start needs of the disk: the directory for temporary files, the
\* settings of the home and its snapshots, the VMs' directories and their
\* section of app.toml, the store, and the file of the code a VM has pinned.
Parts == {"tmp", "settings", "vm", "store"} \union VMs

Contents == {<<"empty">>, <<"cancel">>} \union {<<"schedule", h>> : h \in Plans}
            \union {<<"pin", k>> : k \in VMs}
NoBlock  == <<"none">>
Idle     == [stage |-> "idle", plan |-> 0]

Mut_NewAppAnyChain(home, latest, skip) ==
  [home |-> home, chain |-> IF home = "real" THEN EVMChainID + 1 ELSE EVMChainID,
   latest |-> latest, skip |-> skip]

\* The parameters of NewEchofiApp that matter.
NewApp(home, latest, skip) ==
  [home |-> home, chain |-> EVMChainID, latest |-> latest, skip |-> skip]
NoApp == NewApp("", FALSE, {})

\* cmd: start with or without --chain-id, export at a height or at the latest, or
\* with an empty home; all under the flags of the operator.
Commands ==
  [does: {"start"}, home: {"real"}, chainID: BOOLEAN, height: {Latest}, skip: {flags}]
  \union [does: {"export"}, home: {"real"}, chainID: {FALSE},
          height: Heights \union {Latest}, skip: {flags}]
  \union [does: {"export"}, home: {""}, chainID: {FALSE}, height: {Latest}, skip: {flags}]
NoCommand == [does |-> "", home |-> "", chainID |-> FALSE, height |-> Latest, skip |-> {}]

TypeOK ==
  /\ height \in 0..MaxHeight /\ plan \in 0..MaxHeight /\ pinned \subseteq VMs
  /\ decided \in Contents \union {NoBlock}
  /\ info \in {Torn} \union 0..MaxHeight /\ genesis \in BOOLEAN
  /\ dirs \subseteq {"real", "temp"} /\ broken \subseteq Parts
  /\ flags \subseteq Heights /\ faults \in 0..MaxFaults
  /\ phase \in {"down", "root", "command", "serving", "exported", "failed", "panicked"}
  /\ cmd.skip \subseteq Heights /\ app.skip \subseteq Heights
  /\ at \in {"options", "keepers", "handlers", "load", "pinWasm", "pinWasmClient", "ready"}
  /\ loaded \in {NotLoaded} \union 0..MaxHeight
  /\ wired \in BOOLEAN /\ cache \subseteq VMs
  /\ sealed \in BOOLEAN /\ denoms \subseteq {"display", "base"}
  /\ open \subseteq {"real", "temp"} \X VMs
  /\ block.stage \in {"idle", "begun", "dumping"} /\ block.plan \in 0..MaxHeight

\* The memory of a process that has just been launched, or that ended.
FreshMemory ==
  /\ app' = NoApp /\ at' = "options" /\ loaded' = NotLoaded /\ wired' = FALSE
  /\ cache' = {} /\ block' = Idle
  /\ sealed' = FALSE /\ denoms' = {} /\ evmChain' = 0 /\ open' = {}

Init ==
  /\ height = 0 /\ plan = 0 /\ pinned = {} /\ decided = NoBlock
  /\ info = 0 /\ genesis = FALSE /\ dirs = {} /\ broken = {} /\ faults = 0
  /\ flags \in {s \in SUBSET Heights : Cardinality(s) <= 1}
  /\ phase = "down" /\ cmd = NoCommand
  /\ app = NoApp /\ at = "options" /\ loaded = NotLoaded /\ wired = FALSE
  /\ cache = {} /\ block = Idle
  /\ sealed = FALSE /\ denoms = {} /\ evmChain = 0 /\ open = {}

-----------------------------------------------------------------------------
(* NewEchofiApp, step by step.                                               *)
Building(step) == phase \in {"root", "command"} /\ app # NoApp /\ at = step

Panic == phase' = "panicked" /\ UNCHANGED <<chainVars, diskVars, cmd, appVars, configVars, open>>

Step(step) == at' = step /\ UNCHANGED <<phase, cmd, app>>

\* Registering a denomination a second time is an error, which leaves what was
\* registered before it.
setBaseDenom == denoms' = IF "display" \in denoms THEN denoms ELSE denoms \union {"display", "base"}

\* The chain is unknown, a denomination is taken, or the EVM is configured.
OptionsFail(chain) == ~sealed /\ (chain \notin ChainsCoinInfo \/ denoms # {} \/ evmChain # 0)

Mut_NeverSealed(chain) ==
  /\ IF sealed \/ chain \notin ChainsCoinInfo THEN UNCHANGED denoms ELSE setBaseDenom
  /\ UNCHANGED sealed
  /\ IF sealed \/ OptionsFail(chain) THEN UNCHANGED evmChain ELSE evmChain' = chain

EVMAppOptions(chain) ==
  /\ IF sealed \/ chain \notin ChainsCoinInfo THEN UNCHANGED denoms ELSE setBaseDenom
  /\ IF sealed \/ OptionsFail(chain) THEN UNCHANGED <<sealed, evmChain>>
     ELSE sealed' = TRUE /\ evmChain' = chain

ConfigureEVM ==
  /\ Building("options")
  /\ EVMAppOptions(app.chain)
  /\ IF OptionsFail(app.chain) THEN phase' = "panicked" /\ UNCHANGED <<cmd, app, at>>
     ELSE Step("keepers")
  /\ UNCHANGED <<chainVars, diskVars, loaded, wired, cache, block, open>>

\* A VM locks its directory, for as long as the process lives.
MakeKeepers ==
  /\ Building("keepers")
  /\ IF \/ ConstructionPanics \/ \E k \in VMs : <<app.home, k>> \in open
        \/ app.home = "real" /\ "vm" \in broken
     THEN Panic
     ELSE /\ wired' = TRUE /\ Step("handlers")
          /\ open' = open \union ({app.home} \X VMs)
          /\ dirs' = dirs \union {app.home}
          /\ UNCHANGED <<chainVars, info, genesis, broken, flags, faults, loaded, cache,
                         block, configVars>>

\* An upgrade-info.json of an earlier stop must be readable and is left at that:
\* no store is upgraded for it, whether its height is skipped or not. The
\* temporary home has none.
setupUpgradeStoreLoaders ==
  IF app.home = "real" /\ info = Torn THEN Panic
  ELSE /\ Step(IF app.latest THEN "load" ELSE "ready")
       /\ UNCHANGED <<chainVars, diskVars, loaded, wired, cache, block, configVars, open>>

\* Stores, orders, block and ante handlers; BaseApp refuses them once it has
\* loaded a version.
SetHandlers ==
  /\ Building("handlers")
  /\ IF loaded # NotLoaded THEN Panic ELSE setupUpgradeStoreLoaders

Mut_LoadPinsOneVM ==
  /\ Building("load")
  /\ IF app.home = "real" /\ "store" \in broken THEN Panic
     ELSE /\ loaded' = IF app.home = "real" THEN height ELSE 0
          /\ Step("pinWasmClient")
          /\ UNCHANGED <<chainVars, diskVars, wired, cache, block, configVars, open>>

Mut_LoadNextVersion ==
  /\ Building("load")
  /\ IF app.home = "real" /\ "store" \in broken THEN Panic
     ELSE /\ loaded' = IF app.home = "real" THEN height + 1 ELSE 0
          /\ Step("pinWasm")
          /\ UNCHANGED <<chainVars, diskVars, wired, cache, block, configVars, open>>

\* The temporary application has an empty database in memory.
LoadLatestVersion ==
  /\ Building("load")
  /\ IF app.home = "real" /\ "store" \in broken THEN Panic
     ELSE /\ loaded' = IF app.home = "real" THEN height ELSE 0
          /\ Step("pinWasm")
          /\ UNCHANGED <<chainVars, diskVars, wired, cache, block, configVars, open>>

PinnedWhenLoaded == IF loaded > 0 THEN pinned ELSE {}

InitializePinnedCodes(k, step, next) ==
  /\ Building(step)
  /\ IF k \in PinnedWhenLoaded \intersect broken THEN Panic
     ELSE /\ cache' = cache \union ({k} \intersect PinnedWhenLoaded)
          /\ Step(next)
          /\ UNCHANGED <<chainVars, diskVars, loaded, wired, block, configVars, open>>

NewEchofiApp ==
  \/ ConfigureEVM \/ MakeKeepers \/ SetHandlers \/ LoadLatestVersion
  \/ InitializePinnedCodes("Wasm", "pinWasm", "pinWasmClient")
  \/ InitializePinnedCodes("WasmClient", "pinWasmClient", "ready")

-----------------------------------------------------------------------------
(* The launcher.                                                             *)

\* tempDir() creates its directory and removes it when it returns, so it is
\* the temporary application that makes it again.
NewRootCmd(c) ==
  /\ phase = "down"
  /\ c.does = "export" => height > 0 /\ faults < MaxFaults
  /\ cmd' = c
  /\ faults' = faults + IF c.does = "export" THEN 1 ELSE 0
  /\ \/ "tmp" \in broken /\ phase' = "panicked" /\ UNCHANGED app
     \/ "tmp" \notin broken /\ phase' = "root" /\ app' = NewApp("temp", TRUE, {})
  /\ UNCHANGED <<chainVars, info, genesis, dirs, broken, flags, at, loaded, wired, cache,
                 block, configVars, open>>

\* The rest of NewRootCmd: the options once more, and the deferred clean-up
\* of the temporary application.
RunCommand ==
  /\ phase = "root" /\ Building("ready")
  /\ EVMAppOptions(EVMChainID)
  /\ phase' = IF OptionsFail(EVMChainID) THEN "panicked" ELSE "command"
  /\ app' = NoApp /\ at' = "options" /\ loaded' = NotLoaded /\ wired' = FALSE /\ cache' = {}
  /\ dirs' = dirs \ {"temp"}
  /\ UNCHANGED <<chainVars, info, genesis, broken, flags, faults, cmd, block, open>>

\* The command runs and has no application yet.
Starting == phase = "command" /\ app = NoApp

BuildFor(latest, skip) ==
  /\ Starting
  /\ app' = NewApp("real", latest, skip)
  /\ UNCHANGED <<chainVars, diskVars, phase, cmd, at, loaded, wired, cache, block,
                 configVars, open>>

\* Without --chain-id the chain id comes from genesis.json.
NoSettings == "settings" \in broken \/ (~cmd.chainID /\ ~genesis)

Mut_SkipsForgotten ==
  /\ cmd.does = "start"
  /\ \/ ~NoSettings /\ BuildFor(TRUE, {})
     \/ NoSettings /\ Starting /\ Panic

newApp ==
  /\ cmd.does = "start"
  /\ \/ ~NoSettings /\ BuildFor(TRUE, cmd.skip)
     \/ NoSettings /\ Starting /\ Panic

\* An error ends the process as well.
Fail == phase' = "failed" /\ UNCHANGED <<chainVars, diskVars, cmd, appVars, configVars, open>>

Mut_ExportLoadsNothing ==
  /\ cmd.does = "export"
  /\ \/ cmd.home # "" /\ BuildFor(FALSE, {})
     \/ cmd.home = "" /\ Starting /\ Fail

\* The options the command passes are viper's, so their type is no error.
appExport ==
  /\ cmd.does = "export"
  /\ \/ cmd.home # "" /\ BuildFor(cmd.height = Latest, {})
     \/ cmd.home = "" /\ Starting /\ Fail

\* The heights pruning has left.
Stored == {h \in Heights : h <= height /\ h > height - KeepRecent}

\* A height that is asked for is loaded once the application is built; BaseApp
\* loads only once.
LoadHeight ==
  /\ phase = "command" /\ cmd.does = "export" /\ Building("ready")
  /\ UNCHANGED <<chainVars, diskVars, cmd, app, at, wired, cache, block, configVars, open>>
  /\ IF cmd.height = Latest
     THEN phase' = "exported" /\ UNCHANGED loaded
     ELSE IF loaded # NotLoaded
          THEN phase' = "panicked" /\ UNCHANGED loaded
          ELSE IF cmd.height \in Stored /\ "store" \notin broken
               THEN phase' = "exported" /\ loaded' = cmd.height
               ELSE phase' = "failed" /\ UNCHANGED loaded

\* The engine needs genesis.json as well.
Serve ==
  /\ phase = "command" /\ cmd.does = "start" /\ Building("ready")
  /\ phase' = IF genesis THEN "serving" ELSE "failed"
  /\ UNCHANGED <<chainVars, diskVars, cmd, appVars, configVars, open>>

-----------------------------------------------------------------------------
(* Blocks. The engine keeps the block it decided until it is committed.      *)
Decide(c) ==
  /\ phase = "serving" /\ decided = NoBlock /\ height < MaxHeight
  /\ decided' = c
  /\ UNCHANGED <<height, plan, pinned, diskVars, phase, cmd, appVars, configVars, open>>

\* A plan is due from its height on; what is skipped is a height of the chain.
Mut_DueOnce(h) == plan # 0 /\ plan = h

Due(h) == plan # 0 /\ plan <= h

\* The heights whose plan this binary can carry out.
setupUpgradeHandlers == {}

\* PreBlocker runs x/upgrade first, which truncates upgrade-info.json for a plan
\* it cannot carry out.
PreBlocker ==
  /\ phase = "serving" /\ decided # NoBlock /\ block = Idle
  /\ UNCHANGED <<chainVars, genesis, dirs, broken, flags, faults, phase, cmd, app, at, loaded,
                 wired, cache, configVars, open>>
  /\ IF Due(height + 1) /\ height + 1 \notin app.skip \union setupUpgradeHandlers
     THEN block' = [stage |-> "dumping", plan |-> plan] /\ info' = Torn
     ELSE /\ block' = [stage |-> "begun", plan |-> IF Due(height + 1) THEN 0 ELSE plan]
          /\ UNCHANGED info

\* It writes the height and stops the node.
DumpUpgradeInfo ==
  /\ phase = "serving" /\ block.stage = "dumping"
  /\ info' = height + 1 /\ phase' = "panicked"
  /\ UNCHANGED <<chainVars, genesis, dirs, broken, flags, faults, cmd, appVars, configVars, open>>

\* The block's transactions and its commit. A plan for a height that is past is
\* refused; one for this very height is not.
Commit ==
  /\ phase = "serving" /\ block.stage = "begun"
  /\ height' = height + 1
  /\ plan' = CASE decided[1] = "cancel" -> 0
               [] decided[1] = "schedule" /\ decided[2] > height -> decided[2]
               [] OTHER -> block.plan
  /\ pinned' = pinned \union {k \in VMs : decided = <<"pin", k>>}
  /\ cache' = cache \union {k \in VMs : decided = <<"pin", k>>}
  /\ decided' = NoBlock /\ block' = Idle
  /\ UNCHANGED <<diskVars, phase, cmd, app, at, loaded, wired, configVars, open>>

-----------------------------------------------------------------------------
(* The end of a process, and the operator.                                   *)
Down == phase' = "down" /\ cmd' = NoCommand /\ FreshMemory /\ UNCHANGED chainVars

Exit ==
  /\ phase \in {"exported", "failed", "panicked"}
  /\ Down /\ UNCHANGED diskVars

Kill ==
  /\ phase # "down" /\ faults < MaxFaults
  /\ faults' = faults + 1
  /\ Down /\ UNCHANGED <<info, genesis, dirs, broken, flags>>

\* echofid init.
InitHome ==
  /\ phase = "down" /\ ~genesis
  /\ genesis' = TRUE /\ dirs' = dirs \union {"real"}
  /\ UNCHANGED <<chainVars, info, broken, flags, faults, phase, cmd, appVars, configVars, open>>

\* The operator reads upgrade-info.json and names its height in the flag.
SkipUpgrade ==
  /\ info \notin flags \union {0, Torn}
  /\ flags' = flags \union {info}
  /\ UNCHANGED <<chainVars, info, genesis, dirs, broken, faults, phase, cmd, appVars,
                 configVars, open>>

\* One part breaks while nothing runs, the file of a code only if there is one.
Break(p) ==
  /\ phase = "down" /\ faults < MaxFaults
  /\ broken = {} /\ (p \in VMs => p \in pinned)
  /\ broken' = {p} /\ faults' = faults + 1
  /\ UNCHANGED <<chainVars, info, genesis, dirs, flags, phase, cmd, appVars, configVars, open>>

\* The operator restores what broke and removes a torn upgrade-info.json.
Repair ==
  /\ phase = "down" /\ (broken # {} \/ info = Torn)
  /\ broken' = {} /\ info' = IF info = Torn THEN 0 ELSE info
  /\ UNCHANGED <<chainVars, genesis, dirs, flags, faults, phase, cmd, appVars, configVars, open>>

Process == NewEchofiApp \/ RunCommand \/ newApp \/ appExport \/ LoadHeight \/ Serve
           \/ PreBlocker \/ DumpUpgradeInfo \/ Commit \/ Exit

Launch   == \E c \in Commands : NewRootCmd(c)
DecideOne == \E c \in Contents : Decide(c)

\* The bound on the chain is reached: the node waits for a block.
ChainEnds == phase = "serving" /\ height = MaxHeight /\ UNCHANGED vars

BreakOne == \E p \in Parts : Break(p)

Next == Launch \/ Process \/ DecideOne \/ Kill \/ InitHome \/ SkipUpgrade \/ BreakOne \/ Repair
        \/ ChainEnds

\* The process runs on, and the operator starts the node again and again, as a
\* supervisor does. A start truncates upgrade-info.json anew and ends a chance
\* to repair, so that the operator reacts to what is seen again and again. A
\* kill, an export, a break and the first init happen or do not.
Fairness ==
  /\ WF_vars(Process) /\ WF_vars(DecideOne) /\ SF_vars(SkipUpgrade) /\ SF_vars(Repair)
  /\ WF_vars(\E c \in Commands : c.does = "start" /\ NewRootCmd(c))

Spec == Init /\ [][Next]_vars /\ Fairness

-----------------------------------------------------------------------------
(* Properties.                                                               *)

Ready == phase = "serving"

\* What a start needs and does not find: a panic of the launcher, of newApp, or
\* of NewEchofiApp.
MissingForStart ==
  \/ "tmp" \in broken
  \/ cmd.home = "real" /\ ("vm" \in broken \/ info = Torn)
  \/ cmd.home = "real" /\ cmd.height = Latest /\ broken \intersect ({"store"} \union pinned) # {}
  \/ cmd.does = "start" /\ NoSettings

\* The plan that stopped the node is one it was not told to skip.
StoppedByPlan ==
  cmd.does = "start" /\ plan # 0 /\ info = height + 1 /\ plan <= info /\ info \notin cmd.skip

\* A process panics for what the disk lacks or for a plan whose height was not
\* skipped. A torn upgrade-info.json is what a kill left; the second
\* application of the process, its locks and its settings are no reason
\* (cmd.go:39-47 and 141, command.go:121-152, app.go:326-362, 436-440,
\* evm_config.go:38-78).
ProcessPanicsForCause == phase = "panicked" => MissingForStart \/ StoppedByPlan

\* A handler of the running node finds every keeper it reaches, made and with
\* all that was set of it later, whether it holds a copy, a pointer or an
\* address (keeper.go:226-278, 320-392, 443-467, 484-529, 573-620), and every keeper
\* has its store mounted (app.go:280-282, keys.go:40-67).
KeepersAreWired ==
  Ready => wired /\ StoresMounted /\ \A u \in Uses : Finds(u)

\* Converting an ERC-20 reaches the EVM (module.go:84).
ConversionReachesEVM == Ready => Finds(ConvertUse)

\* A plan that is due stops the chain: no height after it is committed while
\* it is still scheduled, over any restarts (app.go:232-236, 432-453).
PlanIsNotPassed == plan # 0 => height <= plan

\* Codes pinned by the chain are in the VMs of every node that serves, however
\* it came up (app.go:348-361).
PinnedCodesCached == Ready => pinned \subseteq cache

\* What runs was configured for its own chain, once, and works in the real
\* home; the temporary one is gone (cmd.go:39-75, 141, evm_config.go:38-66).
OneConfiguration ==
  phase \in {"serving", "exported"} =>
    /\ sealed /\ evmChain = app.chain /\ denoms = {"display", "base"}
    /\ app.home = "real" /\ {app.home} \X VMs \subseteq open
    /\ faults = 0 => "temp" \notin dirs

\* An export shows the height it was asked for, or the last one, of a chain it
\* leaves as it was (command.go:187-238, app.go:459-462).
ExportedIsAsked ==
  phase = "exported" => loaded = IF cmd.height = Latest THEN height ELSE cmd.height

\* A node that a plan has stopped goes on once the operator has skipped the
\* height, whatever it was doing when it was killed, in the middle of the write
\* of upgrade-info.json included, and whatever broke (app.go:436-453,
\* command.go:126-129).
UpgradeIsPassed == \A h \in Heights : (info = h) ~> (height >= h)
=============================================================================
