----------------------------- MODULE NodeStart_proofs -----------------------------
(***************************************************************************)
(* Theorems of NodeStart for a chain of any length, any number of kills    *)
(* and exports, any pruning and any table of chains.                       *)
(***************************************************************************)
EXTENDS NodeStart, SequenceTheorems, TLAPS

AppType == [home: {"", "real", "temp"}, chain: {EVMChainID}, latest: BOOLEAN,
            skip: SUBSET Heights]
CmdType == [does: {"", "start", "export"}, home: {"", "real"}, chainID: BOOLEAN,
            height: Heights \union {Latest}, skip: SUBSET Heights]

\* What is committed, and what the block under way will leave.
ChainInv ==
  /\ PlanIsNotPassed
  /\ height = 0 => pinned = {}
  /\ decided # NoBlock => height < MaxHeight
  /\ block.stage = "begun" =>
       /\ phase = "serving" /\ decided # NoBlock
       /\ block.plan # 0 => height < block.plan
  /\ block.stage = "dumping" =>
       /\ phase \in {"serving", "panicked"} /\ decided # NoBlock
       /\ plan # 0 /\ plan <= height + 1 /\ height + 1 \notin app.skip

\* Settings are made as a whole, for echofi's chain, before any keeper is.
ConfigInv ==
  /\ sealed => denoms = {"display", "base"} /\ evmChain = EVMChainID
  /\ ~sealed => /\ denoms = {} /\ evmChain = 0 /\ phase \in {"down", "root", "panicked"}
                /\ phase = "root" => at = "options"

\* An application under construction has done what precedes its step.
BuildInv ==
  /\ phase = "down" => ~sealed /\ at = "options" /\ loaded = NotLoaded /\ cache = {}
                       /\ open = {} /\ app = NoApp /\ block = Idle
  /\ phase = "root" => /\ app = NewApp("temp", TRUE, {}) /\ open \subseteq {"temp"} \X VMs
                       /\ ~(loaded > 0)
  /\ phase = "root" /\ at \in {"options", "keepers"} => open = {}
  /\ phase = "command" /\ app = NoApp =>
       at = "options" /\ cache = {} /\ open \subseteq {"temp"} \X VMs
  /\ phase = "command" /\ app # NoApp =>
       /\ app.home = "real" /\ cmd.home = "real"
       /\ at \in {"options", "keepers"} => open \subseteq {"temp"} \X VMs
       /\ at \notin {"options", "keepers"} => wired /\ {"real"} \X VMs \subseteq open
       /\ cmd.does = "start" => app.latest /\ app.skip = cmd.skip
       /\ cmd.does = "export" => (app.latest <=> cmd.height = Latest)
  /\ phase \in {"root", "command"} /\ at \in {"options", "keepers", "handlers", "load"} =>
       loaded = NotLoaded
  /\ phase \in {"root", "command"} => cmd.does \in {"start", "export"}
  /\ phase \in {"root", "command"} /\ cmd.does = "start" => cmd.home = "real" /\ cmd.height = Latest

\* A real application has loaded what is committed, and its pinned codes.
LoadInv ==
  /\ phase = "command" /\ at \in {"load", "pinWasm", "pinWasmClient"} => app.latest
  /\ phase = "command" /\ app.latest /\ at \in {"pinWasm", "pinWasmClient", "ready"} =>
       loaded = height
  /\ phase = "command" /\ ~app.latest => loaded = NotLoaded
  /\ phase = "command" /\ at = "pinWasmClient" => {"Wasm"} \intersect pinned \subseteq cache
  /\ phase = "command" /\ app.latest /\ at = "ready" => pinned \subseteq cache

ServingInv ==
  phase \in {"serving", "exported"} =>
    /\ sealed /\ app.home = "real" /\ {"real"} \X VMs \subseteq open
    /\ phase = "serving" => /\ cmd.does = "start" /\ app.skip = cmd.skip
                            /\ wired /\ pinned \subseteq cache

\* The directory of the temporary application goes with it, unless the process
\* was killed.
TempInv == (phase # "root" \/ at \in {"options", "keepers"}) /\ faults = 0 => "temp" \notin dirs

IInv == /\ TypeOK /\ app \in AppType /\ cmd \in CmdType
        /\ ChainInv /\ ConfigInv /\ BuildInv /\ LoadInv /\ ServingInv /\ TempInv
        /\ ExportedIsAsked

-----------------------------------------------------------------------------
\* A launched process starts from nothing, whatever the disk holds.
LEMMA InitInv == Init => IInv
  <1> SUFFICES ASSUME Init PROVE IInv
    OBVIOUS
  <1>1. TypeOK
    <2>1. /\ height \in 0..MaxHeight /\ plan \in 0..MaxHeight /\ info \in 0..MaxHeight
          /\ broken \subseteq Parts /\ faults \in 0..MaxFaults /\ decided \in Contents \union {NoBlock}
          /\ flags \subseteq Heights
      BY BoundsAssumption DEF Init
    <2>2. block.stage = "idle" /\ block.plan = 0 /\ cmd.skip = {} /\ app.skip = {}
      BY DEF Init, Idle, NoCommand, NoApp, NewApp
    <2> QED
      BY <2>1, <2>2, BoundsAssumption DEF Init, TypeOK
  <1>2. app \in AppType /\ cmd \in CmdType
    BY DEF Init, AppType, CmdType, NoApp, NewApp, NoCommand
  <1>3. ChainInv /\ ConfigInv
    BY DEF Init, ChainInv, PlanIsNotPassed, ConfigInv, Idle
  <1>4. BuildInv
    BY DEF Init, BuildInv
  <1>5. LoadInv /\ ServingInv /\ TempInv /\ ExportedIsAsked
    BY DEF Init, LoadInv, ServingInv, TempInv, ExportedIsAsked
  <1> QED
    BY <1>1, <1>2, <1>3, <1>4, <1>5 DEF IInv

-----------------------------------------------------------------------------
\* A process that panics leaves its memory to the exit.
LEMMA StepPanic ==
  ASSUME IInv, Panic, phase = "command" \/ (phase = "root" /\ at = "keepers")
  PROVE  IInv'
  <1> USE DEF IInv, Panic, chainVars, diskVars, appVars, configVars
  <1>1. TypeOK' /\ app' \in AppType /\ cmd' \in CmdType
    BY DEF TypeOK
  <1>2. ChainInv' /\ ConfigInv' /\ LoadInv' /\ ServingInv'
    BY DEF ChainInv, PlanIsNotPassed, ConfigInv, LoadInv, ServingInv
  <1>3. TempInv' /\ ExportedIsAsked'
    BY DEF TempInv, ExportedIsAsked
  <1>4. BuildInv'
    BY DEF BuildInv
  <1> QED
    BY <1>1, <1>2, <1>3, <1>4

\* The options of an echofi application never fail: they are made as a whole.
LEMMA StepConfigureEVM == IInv /\ ConfigureEVM => IInv'
  <1> SUFFICES ASSUME IInv, ConfigureEVM PROVE IInv'
    OBVIOUS
  <1> USE DEF IInv
  <1>1. app.chain = EVMChainID
    BY DEF AppType
  <1>2. ~OptionsFail(app.chain)
    BY <1>1, BoundsAssumption DEF OptionsFail, ConfigInv
  <1>3. /\ sealed' = TRUE /\ denoms' = {"display", "base"} /\ evmChain' = EVMChainID
        /\ at = "options" /\ at' = "keepers" /\ phase \in {"root", "command"}
        /\ app # NoApp
        /\ UNCHANGED <<chainVars, diskVars, phase, cmd, app, loaded, wired, cache, block, open>>
    BY <1>1, <1>2 DEF ConfigureEVM, EVMAppOptions, setBaseDenom, Building, Step, ConfigInv,
      OptionsFail, TypeOK
  <1> USE DEF chainVars, diskVars
  <1>4. TypeOK' /\ app' \in AppType /\ cmd' \in CmdType
    BY <1>3 DEF TypeOK
  <1>5. ChainInv' /\ ConfigInv' /\ LoadInv' /\ ServingInv' /\ TempInv' /\ ExportedIsAsked'
    BY <1>3 DEF ChainInv, PlanIsNotPassed, ConfigInv, LoadInv, ServingInv, TempInv,
      ExportedIsAsked
  <1>6. BuildInv'
    BY <1>3 DEF BuildInv
  <1> QED
    BY <1>4, <1>5, <1>6

\* No keeper is made before the options are, and the real application finds only
\* the temporary one's directories locked.
LEMMA StepMakeKeepers == IInv /\ MakeKeepers => IInv'
  <1> SUFFICES ASSUME IInv, MakeKeepers PROVE IInv'
    OBVIOUS
  <1> USE DEF IInv, chainVars, configVars
  <1>1. CASE Panic
    BY <1>1, StepPanic DEF MakeKeepers, Building
  <1>2. CASE ~Panic
    <2>1. /\ at = "keepers" /\ at' = "handlers" /\ phase \in {"root", "command"}
          /\ app # NoApp /\ wired' = TRUE /\ open' = open \union ({app.home} \X VMs)
          /\ dirs' = dirs \union {app.home}
          /\ UNCHANGED <<chainVars, info, genesis, broken, flags, faults, phase, cmd, app,
                         loaded, cache, block, configVars>>
      BY <1>2 DEF MakeKeepers, Building, Step
    <2>2. app.home \in {"temp", "real"} /\ (phase = "command" => app.home = "real")
          /\ (phase = "root" => app.home = "temp")
      BY <2>1 DEF BuildInv, NewApp
    <2>3. TypeOK' /\ app' \in AppType /\ cmd' \in CmdType
      BY <2>1, <2>2 DEF TypeOK, VMs
    <2>4. ChainInv' /\ ConfigInv' /\ LoadInv' /\ ServingInv' /\ TempInv' /\ ExportedIsAsked'
      BY <2>1, <2>2 DEF ChainInv, PlanIsNotPassed, ConfigInv, LoadInv, ServingInv, TempInv,
        ExportedIsAsked, TypeOK
    <2>5. BuildInv'
      BY <2>1, <2>2 DEF BuildInv
    <2> QED
      BY <2>3, <2>4, <2>5
  <1> QED
    BY <1>1, <1>2

\* An application has loaded nothing when its handlers are set.
LEMMA StepSetHandlers == IInv /\ SetHandlers => IInv'
  <1> SUFFICES ASSUME IInv, SetHandlers PROVE IInv'
    OBVIOUS
  <1>1. CASE Panic
    <2>1. phase \in {"root", "command"} /\ (phase = "root" => app.home = "temp")
      BY DEF SetHandlers, Building, IInv, BuildInv, NewApp
    <2>2. at = "handlers" /\ loaded = NotLoaded
      BY <2>1 DEF SetHandlers, Building, IInv, BuildInv
    <2>3. CASE phase = "root"
      BY <1>1, <2>1, <2>2, <2>3 DEF SetHandlers, setupUpgradeStoreLoaders, Panic, Step
    <2>4. CASE phase = "command"
      BY <1>1, <2>4, StepPanic
    <2> QED
      BY <2>1, <2>3, <2>4
  <1>2. CASE ~Panic
    <2> USE DEF IInv
    <2>1. /\ at = "handlers" /\ phase \in {"root", "command"} /\ app # NoApp
          /\ loaded = NotLoaded /\ at' = (IF app.latest THEN "load" ELSE "ready")
          /\ UNCHANGED <<chainVars, diskVars, phase, cmd, app, loaded, wired, cache, block,
                         configVars, open>>
      BY <1>2 DEF SetHandlers, setupUpgradeStoreLoaders, Building, BuildInv, Step
    <2> USE <2>1 DEF chainVars, diskVars, configVars
    <2>2. TypeOK' /\ app' \in AppType /\ cmd' \in CmdType
      BY DEF TypeOK
    <2>3. ChainInv' /\ ConfigInv' /\ LoadInv' /\ ServingInv' /\ TempInv' /\ ExportedIsAsked'
      BY DEF ChainInv, PlanIsNotPassed, ConfigInv, LoadInv, ServingInv, TempInv,
        ExportedIsAsked, NewApp, BuildInv
    <2>4. BuildInv'
      BY DEF BuildInv
    <2> QED
      BY <2>2, <2>3, <2>4
  <1> QED
    BY <1>1, <1>2

\* What a real application loads is what is committed.
LEMMA StepLoadLatestVersion == IInv /\ LoadLatestVersion => IInv'
  <1> SUFFICES ASSUME IInv, LoadLatestVersion PROVE IInv'
    OBVIOUS
  <1>1. CASE Panic
    <2>1. phase \in {"root", "command"} /\ (phase = "root" => app.home = "temp")
      BY DEF LoadLatestVersion, Building, IInv, BuildInv, NewApp
    <2>2. CASE phase = "root"
      BY <1>1, <2>1, <2>2 DEF LoadLatestVersion, Panic, Step
    <2>3. CASE phase = "command"
      BY <1>1, <2>3, StepPanic
    <2> QED
      BY <2>1, <2>2, <2>3
  <1>2. CASE ~Panic
    <2> USE DEF IInv
    <2>1. /\ at = "load" /\ at' = "pinWasm" /\ phase \in {"root", "command"} /\ app # NoApp
          /\ loaded' = (IF app.home = "real" THEN height ELSE 0)
          /\ UNCHANGED <<chainVars, diskVars, phase, cmd, app, wired, cache, block,
                         configVars, open>>
      BY <1>2 DEF LoadLatestVersion, Building, Step
    <2> USE <2>1 DEF chainVars, diskVars, configVars
    <2>2. TypeOK' /\ app' \in AppType /\ cmd' \in CmdType
      BY BoundsAssumption DEF TypeOK
    <2>3. phase = "command" => app.latest /\ app.home = "real"
      BY DEF LoadInv, BuildInv
    <2>4. ChainInv' /\ ConfigInv' /\ LoadInv' /\ ServingInv' /\ TempInv' /\ ExportedIsAsked'
      BY <2>3 DEF ChainInv, PlanIsNotPassed, ConfigInv, LoadInv, ServingInv, TempInv,
        ExportedIsAsked
    <2>5. phase = "root" => app.home = "temp"
      BY DEF BuildInv, NewApp
    <2>6. BuildInv'
      <3>1. phase = "root" => loaded' = 0 /\ ~(loaded' > 0)
        BY <2>5
      <3>2. phase = "command" => app.latest
        BY <2>3
      <3> QED
        BY <3>1, <3>2 DEF BuildInv
    <2> QED
      BY <2>2, <2>4, <2>6
  <1> QED
    BY <1>1, <1>2

\* The VMs of a real application that has loaded pin one after the other.
LEMMA StepPinWasm == IInv /\ InitializePinnedCodes("Wasm", "pinWasm", "pinWasmClient") => IInv'
  <1> SUFFICES ASSUME IInv, InitializePinnedCodes("Wasm", "pinWasm", "pinWasmClient") PROVE IInv'
    OBVIOUS
  <1>1. CASE Panic
    <2>1. phase \in {"root", "command"} /\ (phase = "root" => PinnedWhenLoaded = {})
      BY DEF InitializePinnedCodes, Building, IInv, BuildInv, PinnedWhenLoaded
    <2>2. CASE phase = "root"
      BY <1>1, <2>1, <2>2 DEF InitializePinnedCodes, Panic, Step
    <2>3. CASE phase = "command"
      BY <1>1, <2>3, StepPanic
    <2> QED
      BY <2>1, <2>2, <2>3
  <1>2. CASE ~Panic
    <2> USE DEF IInv
    <2>1. /\ at = "pinWasm" /\ at' = "pinWasmClient" /\ phase \in {"root", "command"}
          /\ app # NoApp /\ cache' = cache \union ({"Wasm"} \intersect PinnedWhenLoaded)
          /\ UNCHANGED <<chainVars, diskVars, phase, cmd, app, loaded, wired, block,
                         configVars, open>>
      BY <1>2 DEF InitializePinnedCodes, Building, Step
    <2> USE <2>1 DEF chainVars, diskVars, configVars
    <2>2. TypeOK' /\ app' \in AppType /\ cmd' \in CmdType
      BY DEF TypeOK, VMs
    <2>3. phase = "command" => {"Wasm"} \intersect pinned \subseteq cache'
      BY DEF LoadInv, PinnedWhenLoaded, ChainInv, TypeOK
    <2>4. ChainInv' /\ ConfigInv' /\ LoadInv' /\ ServingInv' /\ TempInv' /\ ExportedIsAsked'
      BY <2>3 DEF ChainInv, PlanIsNotPassed, ConfigInv, LoadInv, ServingInv, TempInv,
        ExportedIsAsked
    <2>5. BuildInv'
      BY DEF BuildInv
    <2> QED
      BY <2>2, <2>4, <2>5
  <1> QED
    BY <1>1, <1>2

\* PinWasmClient keeps the invariant.
LEMMA StepPinWasmClient == IInv /\ InitializePinnedCodes("WasmClient", "pinWasmClient", "ready") => IInv'
  <1> SUFFICES ASSUME IInv, InitializePinnedCodes("WasmClient", "pinWasmClient", "ready")
               PROVE IInv'
    OBVIOUS
  <1>1. CASE Panic
    <2>1. phase \in {"root", "command"} /\ (phase = "root" => PinnedWhenLoaded = {})
      BY DEF InitializePinnedCodes, Building, IInv, BuildInv, PinnedWhenLoaded
    <2>2. CASE phase = "root"
      BY <1>1, <2>1, <2>2 DEF InitializePinnedCodes, Panic, Step
    <2>3. CASE phase = "command"
      BY <1>1, <2>3, StepPanic
    <2> QED
      BY <2>1, <2>2, <2>3
  <1>2. CASE ~Panic
    <2> USE DEF IInv
    <2>1. /\ at = "pinWasmClient" /\ at' = "ready" /\ phase \in {"root", "command"}
          /\ app # NoApp /\ cache' = cache \union ({"WasmClient"} \intersect PinnedWhenLoaded)
          /\ UNCHANGED <<chainVars, diskVars, phase, cmd, app, loaded, wired, block,
                         configVars, open>>
      BY <1>2 DEF InitializePinnedCodes, Building, Step
    <2> USE <2>1 DEF chainVars, diskVars, configVars
    <2>2. TypeOK' /\ app' \in AppType /\ cmd' \in CmdType
      BY DEF TypeOK, VMs
    <2>3. phase = "command" => pinned \subseteq cache'
      BY DEF LoadInv, PinnedWhenLoaded, ChainInv, TypeOK, VMs
    <2>4. ChainInv' /\ ConfigInv' /\ LoadInv' /\ ServingInv' /\ TempInv' /\ ExportedIsAsked'
      BY <2>3 DEF ChainInv, PlanIsNotPassed, ConfigInv, LoadInv, ServingInv, TempInv,
        ExportedIsAsked
    <2>5. BuildInv'
      BY DEF BuildInv
    <2> QED
      BY <2>2, <2>4, <2>5
  <1> QED
    BY <1>1, <1>2

-----------------------------------------------------------------------------
\* A launch changes nothing but the process.
LEMMA StepNewRootCmd == ASSUME NEW c \in Commands PROVE IInv /\ NewRootCmd(c) => IInv'
  <1> SUFFICES ASSUME IInv, NewRootCmd(c) PROVE IInv'
    OBVIOUS
  <1> USE DEF IInv
  <1>1. /\ phase = "down" /\ cmd' = c /\ phase' \in {"panicked", "root"}
        /\ phase' = "panicked" => app' = app
        /\ phase' = "root" => app' = NewApp("temp", TRUE, {})
        /\ c.does = "export" => faults < MaxFaults
        /\ faults' = faults + IF c.does = "export" THEN 1 ELSE 0
        /\ UNCHANGED <<chainVars, info, genesis, dirs, broken, flags, at, loaded, wired, cache,
                       block, configVars, open>>
    BY DEF NewRootCmd
  <1>2. /\ ~sealed /\ at = "options" /\ loaded = NotLoaded /\ cache = {} /\ open = {}
        /\ app = NoApp /\ block = Idle
    BY <1>1 DEF BuildInv
  <1>3. cmd' \in CmdType /\ cmd'.skip \subseteq Heights
    BY <1>1 DEF Commands, CmdType, TypeOK
  <1>4. app' \in AppType /\ app'.skip = {}
    <2>1. NoApp \in AppType /\ NoApp.skip = {}
      BY DEF AppType, NewApp, NoApp
    <2>2. NewApp("temp", TRUE, {}) \in AppType /\ NewApp("temp", TRUE, {}).skip = {}
      BY DEF AppType, NewApp
    <2> QED
      BY <1>1, <1>2, <2>1, <2>2
  <1>5. faults' \in 0..MaxFaults /\ (faults' = 0 => faults = 0)
    <2>1. faults \in Nat /\ MaxFaults \in Nat /\ faults <= MaxFaults
      BY BoundsAssumption DEF TypeOK
    <2> QED
      BY <1>1, <2>1
  <1>6. TypeOK'
    BY <1>1, <1>3, <1>4, <1>5 DEF TypeOK, chainVars, configVars
  <1>7. block.stage = "idle"
    BY <1>2 DEF Idle
  <1>8. ChainInv' /\ ConfigInv'
    BY <1>1, <1>2, <1>7 DEF ChainInv, PlanIsNotPassed, ConfigInv, chainVars, configVars
  <1>9. LoadInv' /\ ServingInv' /\ ExportedIsAsked'
    BY <1>1 DEF LoadInv, ServingInv, ExportedIsAsked
  <1>10. TempInv'
    BY <1>1, <1>5 DEF TempInv
  <1>11. BuildInv'
    <2>1. c.does \in {"start", "export"}
          /\ (c.does = "start" => c.home = "real" /\ c.height = Latest)
      BY DEF Commands
    <2>2. ~(loaded > 0)
      BY <1>2 DEF NotLoaded
    <2> QED
      BY <1>1, <1>2, <2>1, <2>2 DEF BuildInv
  <1> QED
    BY <1>3, <1>4, <1>6, <1>8, <1>9, <1>10, <1>11

\* The second configuration of the process finds the options sealed.
LEMMA StepRunCommand == IInv /\ RunCommand => IInv'
  <1> SUFFICES ASSUME IInv, RunCommand PROVE IInv'
    OBVIOUS
  <1> USE DEF IInv
  <1>1. phase = "root" /\ at = "ready" /\ sealed
    BY DEF RunCommand, Building, ConfigInv
  <1>2. /\ phase' = "command" /\ app' = NoApp /\ at' = "options" /\ loaded' = NotLoaded
        /\ cache' = {} /\ dirs' = dirs \ {"temp"} /\ wired' = FALSE
        /\ UNCHANGED <<chainVars, info, genesis, broken, flags, faults, cmd, block, open,
                       configVars>>
    BY <1>1 DEF RunCommand, OptionsFail, EVMAppOptions, configVars
  <1> USE <1>1, <1>2 DEF chainVars, configVars
  <1>3. app' \in AppType /\ app'.skip = {} /\ ~app'.latest
    BY DEF AppType, NoApp, NewApp
  <1>4. TypeOK' /\ cmd' \in CmdType
    BY <1>3 DEF TypeOK
  <1>5. ChainInv' /\ ConfigInv' /\ LoadInv' /\ ServingInv' /\ TempInv' /\ ExportedIsAsked'
    BY <1>3 DEF ChainInv, PlanIsNotPassed, ConfigInv, LoadInv, ServingInv, TempInv,
      ExportedIsAsked
  <1>6. BuildInv'
    BY DEF BuildInv
  <1> QED
    BY <1>3, <1>4, <1>5, <1>6

\* What start and export have in common: an application in the real home.
LEMMA StepBuildFor ==
  ASSUME NEW latest \in BOOLEAN, NEW skip \in SUBSET Heights, IInv, BuildFor(latest, skip),
         cmd.home = "real", cmd.does = "start" => latest /\ skip = cmd.skip,
         cmd.does = "export" => (latest <=> cmd.height = Latest)
  PROVE  IInv'
  <1> USE DEF IInv
  <1>1. /\ phase = "command" /\ app = NoApp /\ app' = NewApp("real", latest, skip)
        /\ UNCHANGED <<chainVars, diskVars, phase, cmd, at, loaded, wired, cache, block,
                       configVars, open>>
    BY DEF BuildFor, Starting
  <1> USE <1>1 DEF chainVars, diskVars, configVars
  <1>2. /\ app' \in AppType /\ app'.skip = skip /\ app'.home = "real" /\ app'.latest = latest
        /\ app' # NoApp
    BY DEF AppType, NewApp, NoApp
  <1>3. at = "options" /\ loaded = NotLoaded /\ cache = {}
    BY DEF BuildInv
  <1>4. TypeOK' /\ cmd' \in CmdType
    BY <1>2 DEF TypeOK
  <1>5. ChainInv' /\ ConfigInv' /\ LoadInv' /\ ServingInv' /\ TempInv' /\ ExportedIsAsked'
    BY <1>2, <1>3 DEF ChainInv, PlanIsNotPassed, ConfigInv, LoadInv, ServingInv, TempInv,
      ExportedIsAsked
  <1>6. BuildInv'
    BY <1>2, <1>3 DEF BuildInv
  <1> QED
    BY <1>2, <1>4, <1>5, <1>6

\* NewApp keeps the invariant.
LEMMA StepNewApp == IInv /\ newApp => IInv'
  <1> SUFFICES ASSUME IInv, newApp PROVE IInv'
    OBVIOUS
  <1>1. cmd.does = "start" /\ cmd.skip \in SUBSET Heights
    BY DEF newApp, IInv, CmdType
  <1>2. CASE BuildFor(TRUE, cmd.skip)
    <2>1. cmd.home = "real"
      BY <1>1, <1>2 DEF BuildFor, Starting, IInv, BuildInv
    <2> QED
      BY <1>1, <1>2, <2>1, StepBuildFor
  <1>3. CASE phase = "command" /\ Panic
    BY <1>3, StepPanic
  <1> QED
    BY <1>2, <1>3 DEF newApp, Starting

\* An error before the application is built leaves none.
LEMMA StepFail == IInv /\ Starting /\ Fail => IInv'
  <1> SUFFICES ASSUME IInv, Starting, Fail PROVE IInv'
    OBVIOUS
  <1> USE DEF IInv, Starting, Fail, chainVars, diskVars, appVars, configVars
  <1>1. TypeOK' /\ app' \in AppType /\ cmd' \in CmdType
    BY DEF TypeOK
  <1>2. ChainInv' /\ ConfigInv' /\ LoadInv' /\ ServingInv' /\ TempInv' /\ ExportedIsAsked'
    BY DEF ChainInv, PlanIsNotPassed, ConfigInv, LoadInv, ServingInv, TempInv, ExportedIsAsked
  <1>3. BuildInv'
    BY DEF BuildInv
  <1> QED
    BY <1>1, <1>2, <1>3

\* AppExport keeps the invariant.
LEMMA StepAppExport == IInv /\ appExport => IInv'
  <1> SUFFICES ASSUME IInv, appExport PROVE IInv'
    OBVIOUS
  <1>1. CASE cmd.home # "" /\ BuildFor(cmd.height = Latest, {})
    <2>1. cmd.does = "export" /\ cmd.home = "real" /\ {} \in SUBSET Heights
      BY <1>1 DEF appExport, IInv, CmdType
    <2>2. (cmd.height = Latest) \in BOOLEAN
      OBVIOUS
    <2> QED
      BY <1>1, <2>1, <2>2, StepBuildFor
  <1>2. CASE Starting /\ Fail
    BY <1>2, StepFail
  <1> QED
    BY <1>1, <1>2 DEF appExport

\* The asked height is loaded into an application that has loaded none.
LEMMA StepLoadHeight == IInv /\ LoadHeight => IInv'
  <1> SUFFICES ASSUME IInv, LoadHeight PROVE IInv'
    OBVIOUS
  <1> USE DEF IInv
  <1>1. /\ phase = "command" /\ cmd.does = "export" /\ at = "ready" /\ app # NoApp
        /\ UNCHANGED <<chainVars, diskVars, cmd, app, at, wired, cache, block, configVars, open>>
    BY DEF LoadHeight, Building
  <1> USE <1>1 DEF chainVars, diskVars, configVars
  <1>2. /\ sealed /\ app.home = "real" /\ {"real"} \X VMs \subseteq open
        /\ app.latest <=> cmd.height = Latest
        /\ app.latest => loaded = height
        /\ ~app.latest => loaded = NotLoaded
        /\ block.stage \notin {"begun", "dumping"}
    BY DEF ConfigInv, BuildInv, LoadInv, ChainInv
  <1>3. /\ phase' \in {"exported", "failed"}
        /\ loaded' \in {loaded, cmd.height} /\ (loaded' # loaded => cmd.height \in Stored)
        /\ phase' = "exported" => loaded' = IF cmd.height = Latest THEN height ELSE cmd.height
    BY <1>2 DEF LoadHeight
  <1>4. TypeOK' /\ app' \in AppType /\ cmd' \in CmdType
    BY <1>3 DEF TypeOK, Stored, Heights
  <1>5. ChainInv' /\ ConfigInv' /\ LoadInv' /\ ServingInv' /\ TempInv' /\ ExportedIsAsked'
    BY <1>2, <1>3 DEF ChainInv, PlanIsNotPassed, ConfigInv, LoadInv, ServingInv, TempInv,
      ExportedIsAsked
  <1>6. BuildInv'
    BY <1>3 DEF BuildInv
  <1> QED
    BY <1>4, <1>5, <1>6

\* A node serves with what it has loaded and pinned.
LEMMA StepServe == IInv /\ Serve => IInv'
  <1> SUFFICES ASSUME IInv, Serve PROVE IInv'
    OBVIOUS
  <1> USE DEF IInv
  <1>1. /\ phase = "command" /\ cmd.does = "start" /\ at = "ready" /\ app # NoApp
        /\ phase' \in {"serving", "failed"}
        /\ UNCHANGED <<chainVars, diskVars, cmd, appVars, configVars, open>>
    BY DEF Serve, Building
  <1> USE <1>1 DEF chainVars, diskVars, appVars, configVars
  <1>2. /\ sealed /\ app.home = "real" /\ {"real"} \X VMs \subseteq open
        /\ app.skip = cmd.skip /\ wired /\ pinned \subseteq cache
        /\ block.stage \notin {"begun", "dumping"}
    BY DEF ConfigInv, BuildInv, LoadInv, ChainInv
  <1>3. TypeOK' /\ app' \in AppType /\ cmd' \in CmdType
    BY DEF TypeOK
  <1>4. ChainInv' /\ ConfigInv' /\ LoadInv' /\ ServingInv' /\ TempInv' /\ ExportedIsAsked'
    BY <1>2 DEF ChainInv, PlanIsNotPassed, ConfigInv, LoadInv, ServingInv, TempInv,
      ExportedIsAsked
  <1>5. BuildInv'
    BY DEF BuildInv
  <1> QED
    BY <1>3, <1>4, <1>5

-----------------------------------------------------------------------------
\* Decide keeps the invariant.
LEMMA StepDecide == ASSUME NEW c \in Contents PROVE IInv /\ Decide(c) => IInv'
  <1> SUFFICES ASSUME IInv, Decide(c) PROVE IInv'
    OBVIOUS
  <1> USE DEF IInv
  <1>1. /\ phase = "serving" /\ decided = NoBlock /\ decided' = c /\ height < MaxHeight
        /\ UNCHANGED <<height, plan, pinned, diskVars, phase, cmd, appVars, configVars, open>>
    BY DEF Decide
  <1> USE <1>1 DEF diskVars, appVars, configVars
  <1>2. TypeOK' /\ app' \in AppType /\ cmd' \in CmdType
    BY DEF TypeOK
  <1>3. ChainInv' /\ ConfigInv' /\ LoadInv' /\ ServingInv' /\ TempInv' /\ ExportedIsAsked'
    BY DEF ChainInv, PlanIsNotPassed, ConfigInv, LoadInv, ServingInv, TempInv, ExportedIsAsked
  <1>4. BuildInv'
    BY DEF BuildInv
  <1> QED
    BY <1>2, <1>3, <1>4

\* A block that begins leaves no plan that is due.
LEMMA StepPreBlocker == IInv /\ PreBlocker => IInv'
  <1> SUFFICES ASSUME IInv, PreBlocker PROVE IInv'
    OBVIOUS
  <1> USE DEF IInv
  <1>1. /\ phase = "serving" /\ decided # NoBlock /\ block = Idle
        /\ UNCHANGED <<chainVars, genesis, dirs, broken, flags, faults, phase, cmd, app, at,
                       loaded, wired, cache, configVars, open>>
    BY DEF PreBlocker
  <1> USE <1>1 DEF chainVars, configVars
  <1>2. height \in Nat /\ plan \in Nat /\ MaxHeight \in Nat
    BY BoundsAssumption DEF TypeOK
  <1>3. \/ /\ block'.stage = "dumping" /\ block'.plan = plan /\ info' = Torn
           /\ plan # 0 /\ plan <= height + 1 /\ height + 1 \notin app.skip
        \/ /\ info' = info /\ block'.stage = "begun"
           /\ block'.plan \in {0, plan} /\ (block'.plan # 0 => height < block'.plan)
    BY <1>2 DEF PreBlocker, Due
  <1>4. info' \in {Torn} \union 0..MaxHeight
    BY <1>3 DEF TypeOK
  <1>5. block'.stage \in {"idle", "begun", "dumping"} /\ block'.plan \in 0..MaxHeight
    BY <1>2, <1>3 DEF TypeOK
  <1>6. TypeOK' /\ app' \in AppType /\ cmd' \in CmdType
    BY <1>4, <1>5 DEF TypeOK
  <1>7. ChainInv'
    BY <1>3 DEF ChainInv, PlanIsNotPassed
  <1>8. ConfigInv' /\ LoadInv' /\ ServingInv' /\ TempInv' /\ ExportedIsAsked'
    BY DEF ConfigInv, LoadInv, ServingInv, TempInv, ExportedIsAsked
  <1>9. BuildInv'
    BY DEF BuildInv
  <1> QED
    BY <1>6, <1>7, <1>8, <1>9

\* The height that is written is one of the chain's.
LEMMA StepDumpUpgradeInfo == IInv /\ DumpUpgradeInfo => IInv'
  <1> SUFFICES ASSUME IInv, DumpUpgradeInfo PROVE IInv'
    OBVIOUS
  <1> USE DEF IInv
  <1>1. /\ phase = "serving" /\ block.stage = "dumping" /\ phase' = "panicked"
        /\ info' = height + 1
        /\ UNCHANGED <<chainVars, genesis, dirs, broken, flags, faults, cmd, appVars, configVars,
                       open>>
    BY DEF DumpUpgradeInfo
  <1> USE <1>1 DEF chainVars, appVars, configVars
  <1>2. info' \in 0..MaxHeight
    BY BoundsAssumption DEF TypeOK, ChainInv
  <1>3. TypeOK' /\ app' \in AppType /\ cmd' \in CmdType
    BY <1>2 DEF TypeOK
  <1>4. ChainInv' /\ ConfigInv' /\ LoadInv' /\ ServingInv' /\ TempInv' /\ ExportedIsAsked'
    BY DEF ChainInv, PlanIsNotPassed, ConfigInv, LoadInv, ServingInv, TempInv, ExportedIsAsked
  <1>5. BuildInv'
    BY DEF BuildInv
  <1> QED
    BY <1>3, <1>4, <1>5

\* A plan the block leaves or makes is for a later height, or for the one that
\* is being committed.
LEMMA StepCommit == IInv /\ Commit => IInv'
  <1> SUFFICES ASSUME IInv, Commit PROVE IInv'
    OBVIOUS
  <1> USE DEF IInv
  <1>1. /\ phase = "serving" /\ block.stage = "begun" /\ height' = height + 1
        /\ decided' = NoBlock /\ block' = Idle
        /\ UNCHANGED <<diskVars, phase, cmd, app, at, loaded, wired, configVars, open>>
    BY DEF Commit
  <1> USE <1>1 DEF diskVars, configVars
  <1>2. height \in Nat /\ MaxHeight \in Nat /\ height < MaxHeight /\ decided \in Contents
    BY BoundsAssumption DEF TypeOK, ChainInv
  <1>3. decided[1] = "schedule" => decided[2] \in Heights
    <2>1. CASE decided \in {<<"schedule", h>> : h \in Plans}
      <3>1. PICK h \in Plans : decided = <<"schedule", h>>
        BY <2>1
      <3>2. h \in Heights
        BY BoundsAssumption DEF Heights
      <3> QED BY <3>1, <3>2
    <2>2. CASE decided \notin {<<"schedule", h>> : h \in Plans}
      <3>1. decided[1] # "schedule"
        BY <1>2, <2>2 DEF Contents
      <3> QED BY <3>1
    <2> QED BY <2>1, <2>2
  <1>4. plan' \in 0..MaxHeight /\ (plan' # 0 => height < plan')
    BY <1>2, <1>3 DEF Commit, ChainInv, TypeOK, Heights
  <1>5. pinned' \subseteq VMs /\ cache' \subseteq VMs /\ pinned' \subseteq cache'
    BY DEF Commit, TypeOK, ServingInv
  <1>6. block'.stage = "idle" /\ block'.plan = 0
    BY DEF Idle
  <1>7. TypeOK' /\ app' \in AppType /\ cmd' \in CmdType
    BY <1>2, <1>4, <1>5, <1>6 DEF TypeOK
  <1>8. ChainInv'
    BY <1>2, <1>4, <1>6 DEF ChainInv, PlanIsNotPassed, TypeOK
  <1>9. ConfigInv' /\ LoadInv' /\ ServingInv' /\ TempInv' /\ ExportedIsAsked'
    BY <1>5 DEF ConfigInv, LoadInv, ServingInv, TempInv, ExportedIsAsked
  <1>10. BuildInv'
    BY DEF BuildInv
  <1> QED
    BY <1>7, <1>8, <1>9, <1>10

-----------------------------------------------------------------------------
\* The end of a process, by itself or by force.
LEMMA StepDown ==
  ASSUME IInv, Down, UNCHANGED <<info, genesis, dirs, broken, flags>>,
         faults' \in 0..MaxFaults, faults' = faults + 1 \/ (faults' = faults /\ phase # "root")
  PROVE  IInv'
  <1> USE DEF IInv, Down, FreshMemory, chainVars
  <1>1. /\ cmd' \in CmdType /\ app' \in AppType /\ cmd'.skip = {} /\ app'.skip = {}
        /\ block'.stage = "idle" /\ block'.plan = 0
    BY DEF CmdType, AppType, NoCommand, NoApp, NewApp, Idle
  <1>2. TypeOK'
    <2>1. 0 \in 0..MaxHeight
      BY BoundsAssumption
    <2> QED
      BY <1>1, <2>1 DEF TypeOK
  <1>3. ChainInv' /\ ConfigInv' /\ LoadInv' /\ ServingInv' /\ ExportedIsAsked'
    BY <1>1 DEF ChainInv, PlanIsNotPassed, ConfigInv, LoadInv, ServingInv, ExportedIsAsked
  <1>4. TempInv'
    BY DEF TempInv, TypeOK
  <1>5. BuildInv'
    BY DEF BuildInv
  <1> QED
    BY <1>1, <1>2, <1>3, <1>4, <1>5

\* Exit keeps the invariant.
LEMMA StepExit == IInv /\ Exit => IInv'
  <1> SUFFICES ASSUME IInv, Exit PROVE IInv'
    OBVIOUS
  <1>1. Down /\ UNCHANGED <<info, genesis, dirs, broken, flags, faults>> /\ phase # "root"
    BY DEF Exit, diskVars
  <1>2. faults' \in 0..MaxFaults
    BY <1>1 DEF IInv, TypeOK
  <1> QED
    BY <1>1, <1>2, StepDown

\* Kill keeps the invariant.
LEMMA StepKill == IInv /\ Kill => IInv'
  <1> SUFFICES ASSUME IInv, Kill PROVE IInv'
    OBVIOUS
  <1>1. Down /\ UNCHANGED <<info, genesis, dirs, broken, flags>> /\ faults' = faults + 1
    BY DEF Kill
  <1>2. faults' \in 0..MaxFaults
    BY <1>1, BoundsAssumption DEF IInv, TypeOK, Kill
  <1> QED
    BY <1>1, <1>2, StepDown

\* init makes the real home, while no process runs.
LEMMA StepInitHome == IInv /\ InitHome => IInv'
  <1> SUFFICES ASSUME IInv, InitHome PROVE IInv'
    OBVIOUS
  <1> USE DEF IInv, InitHome, chainVars, appVars, configVars
  <1>1. TypeOK' /\ app' \in AppType /\ cmd' \in CmdType
    BY DEF TypeOK
  <1>2. ChainInv' /\ ConfigInv' /\ LoadInv' /\ ServingInv' /\ TempInv' /\ ExportedIsAsked'
    BY DEF ChainInv, PlanIsNotPassed, ConfigInv, LoadInv, ServingInv, TempInv, ExportedIsAsked
  <1>3. BuildInv'
    BY DEF BuildInv
  <1> QED
    BY <1>1, <1>2, <1>3

\* Flags count from the next launch on.
LEMMA StepSkipUpgrade == IInv /\ SkipUpgrade => IInv'
  <1> SUFFICES ASSUME IInv, SkipUpgrade PROVE IInv'
    OBVIOUS
  <1> USE DEF IInv, SkipUpgrade, chainVars, appVars, configVars
  <1>1. flags' \subseteq Heights
    BY BoundsAssumption DEF TypeOK, Heights, Torn
  <1>2. TypeOK' /\ app' \in AppType /\ cmd' \in CmdType
    BY <1>1 DEF TypeOK
  <1>3. ChainInv' /\ ConfigInv' /\ LoadInv' /\ ServingInv' /\ TempInv' /\ ExportedIsAsked'
    BY DEF ChainInv, PlanIsNotPassed, ConfigInv, LoadInv, ServingInv, TempInv, ExportedIsAsked
  <1>4. BuildInv'
    BY DEF BuildInv
  <1> QED
    BY <1>2, <1>3, <1>4

\* What breaks and is repaired is no part of a process.
LEMMA StepBreak == ASSUME NEW p \in Parts PROVE IInv /\ Break(p) => IInv'
  <1> SUFFICES ASSUME IInv, Break(p) PROVE IInv'
    OBVIOUS
  <1> USE DEF IInv, Break, chainVars, appVars, configVars
  <1>1. faults' \in 0..MaxFaults
    BY BoundsAssumption DEF TypeOK
  <1>2. TypeOK' /\ app' \in AppType /\ cmd' \in CmdType
    BY <1>1 DEF TypeOK
  <1>3. ChainInv' /\ ConfigInv' /\ LoadInv' /\ ServingInv' /\ TempInv' /\ ExportedIsAsked'
    BY DEF ChainInv, PlanIsNotPassed, ConfigInv, LoadInv, ServingInv, TempInv, ExportedIsAsked,
      TypeOK
  <1>4. BuildInv'
    BY DEF BuildInv
  <1> QED
    BY <1>2, <1>3, <1>4

\* Repair keeps the invariant.
LEMMA StepRepair == IInv /\ Repair => IInv'
  <1> SUFFICES ASSUME IInv, Repair PROVE IInv'
    OBVIOUS
  <1> USE DEF IInv, Repair, chainVars, appVars, configVars
  <1>1. info' \in {Torn} \union 0..MaxHeight
    BY BoundsAssumption DEF TypeOK
  <1>2. TypeOK' /\ app' \in AppType /\ cmd' \in CmdType
    BY <1>1 DEF TypeOK
  <1>3. ChainInv' /\ ConfigInv' /\ LoadInv' /\ ServingInv' /\ TempInv' /\ ExportedIsAsked'
    BY DEF ChainInv, PlanIsNotPassed, ConfigInv, LoadInv, ServingInv, TempInv, ExportedIsAsked
  <1>4. BuildInv'
    BY DEF BuildInv
  <1> QED
    BY <1>2, <1>3, <1>4

\* Stutter keeps the invariant.
LEMMA StepStutter == IInv /\ UNCHANGED vars => IInv'
  <1> SUFFICES ASSUME IInv, UNCHANGED vars PROVE IInv'
    OBVIOUS
  <1> USE DEF IInv, vars, chainVars, diskVars, appVars, configVars
  <1>1. TypeOK' /\ app' \in AppType /\ cmd' \in CmdType
    BY DEF TypeOK
  <1>2. ChainInv' /\ ConfigInv' /\ LoadInv' /\ ServingInv' /\ TempInv' /\ ExportedIsAsked'
    BY DEF ChainInv, PlanIsNotPassed, ConfigInv, LoadInv, ServingInv, TempInv, ExportedIsAsked
  <1>3. BuildInv'
    BY DEF BuildInv
  <1> QED
    BY <1>1, <1>2, <1>3

\* The invariant is inductive.
LEMMA StepInv == IInv /\ [Next]_vars => IInv'
  <1> SUFFICES ASSUME IInv, [Next]_vars PROVE IInv'
    OBVIOUS
  <1>1. CASE Launch
    BY <1>1, StepNewRootCmd DEF Launch
  <1>2. CASE Process
    <2>1. CASE NewEchofiApp
      BY <2>1, StepConfigureEVM, StepMakeKeepers, StepSetHandlers, StepLoadLatestVersion,
        StepPinWasm, StepPinWasmClient DEF NewEchofiApp
    <2> QED
      BY <1>2, <2>1, StepRunCommand, StepNewApp, StepAppExport, StepLoadHeight, StepServe,
        StepPreBlocker, StepDumpUpgradeInfo, StepCommit, StepExit DEF Process
  <1>3. CASE DecideOne
    BY <1>3, StepDecide DEF DecideOne
  <1>4. CASE Kill \/ InitHome \/ SkipUpgrade \/ BreakOne \/ Repair
    BY <1>4, StepKill, StepInitHome, StepSkipUpgrade, StepBreak, StepRepair DEF BreakOne
  <1>5. CASE ChainEnds \/ UNCHANGED vars
    BY <1>5, StepStutter DEF ChainEnds
  <1> QED
    BY <1>1, <1>2, <1>3, <1>4, <1>5 DEF Next

-----------------------------------------------------------------------------
\* The inductive invariant holds in every state of every run.
THEOREM InvHolds == Spec => []IInv
  BY InitInv, StepInv, PTL DEF Spec

\* Types are kept.
THEOREM TypeCorrect == Spec => []TypeOK
  <1>1. IInv => TypeOK
    BY DEF IInv
  <1> QED
    BY <1>1, InvHolds, PTL

\* No height is committed past a plan that is still scheduled, whenever the
\* process is killed (app.go:232-236, 432-453).
THEOREM PlanStopsChain == Spec => []PlanIsNotPassed
  <1>1. IInv => PlanIsNotPassed
    BY DEF IInv, ChainInv
  <1> QED
    BY <1>1, InvHolds, PTL

\* Every node that serves has the chain's pinned codes in its VMs (app.go:348-361).
THEOREM PinnedCodesAreCached == Spec => []PinnedCodesCached
  <1>1. IInv => PinnedCodesCached
    BY DEF IInv, ServingInv, PinnedCodesCached, Ready
  <1> QED
    BY <1>1, InvHolds, PTL

\* An export shows the height it was asked for (command.go:187-238).
THEOREM ExportShowsAsked == Spec => []ExportedIsAsked
  <1>1. IInv => ExportedIsAsked
    BY DEF IInv
  <1> QED
    BY <1>1, InvHolds, PTL

\* The application that runs was configured once, for its own chain, and the
\* temporary one left nothing behind (cmd.go:39-75, 141, evm_config.go:38-66).
THEOREM ConfiguredOnce == Spec => []OneConfiguration
  <1>1. IInv => OneConfiguration
    BY DEF IInv, ServingInv, ConfigInv, TempInv, AppType, OneConfiguration
  <1> QED
    BY <1>1, InvHolds, PTL

-----------------------------------------------------------------------------
(* The construction of the keepers: what its statements are, by their number. *)

\* The pointers that arguments follow are among ks.
Only(args, ks) == \A arg \in args : arg[1] = "deref" => arg[2] \in ks

\* Store and subspace of the statement s exist, and only the pointers to Gov and
\* IBC are followed.
Sound(s) ==
  /\ s.store \in GenerateKeys \union {""} /\ s.space \in initParamsKeeper \union {""}
  /\ Only(s.args, {"Gov", "IBC"})

\* Statement s makes keeper k; it sets what of keeper k.
Makes(s, k) == s.op = "new" /\ s.k = k /\ s.sets = "" /\ Sound(s)
Sets(s, k, what) == s.op = "set" /\ s.k = k /\ s.sets = what /\ Sound(s)

\* What the arguments of a constructor are.
LEMMA Arguments ==
  ASSUME NEW ks
  PROVE  /\ \A arg \in Field(ks) : arg[1] = "field" /\ arg[2] \in ks
         /\ \A arg \in Address(ks) : arg[1] = "address" /\ arg[2] \in ks
         /\ \A arg \in Deref(ks) : arg[1] = "deref" /\ arg[2] \in ks
         /\ \A k \in ks : /\ <<"field", k>> \in Field(ks)
                          /\ <<"address", k>> \in Address(ks)
                          /\ <<"deref", k>> \in Deref(ks)
  BY DEF Field, Address, Deref

\* Arguments that follow a pointer (keeper.go:313, 368, 525), or none.
LEMMA Followed ==
  ASSUME NEW ks
  PROVE  /\ Only({}, ks)
         /\ \A js : Only(Field(js), ks) /\ Only(Address(js), ks)
         /\ \A k \in ks : Only(Deref({k}), ks)
         /\ \A a, b : Only(a, ks) /\ Only(b, ks) => Only(a \union b, ks)
  <1>1. Only({}, ks)
    BY DEF Only
  <1>2. ASSUME NEW js PROVE Only(Field(js), ks) /\ Only(Address(js), ks)
    BY Arguments DEF Only
  <1>3. ASSUME NEW k \in ks PROVE Only(Deref({k}), ks)
    BY Arguments DEF Only
  <1>4. ASSUME NEW a, NEW b, Only(a, ks), Only(b, ks) PROVE Only(a \union b, ks)
    BY <1>4 DEF Only
  <1> QED
    BY <1>1, <1>2, <1>3, <1>4

\* The same for the two pointers that are followed.
LEMMA Through ==
  /\ Only({}, {"Gov", "IBC"})
  /\ \A js : Only(Field(js), {"Gov", "IBC"}) /\ Only(Address(js), {"Gov", "IBC"})
  /\ Only(Deref({"Gov"}), {"Gov", "IBC"}) /\ Only(Deref({"IBC"}), {"Gov", "IBC"})
  /\ \A a, b : Only(a, {"Gov", "IBC"}) /\ Only(b, {"Gov", "IBC"}) => Only(a \union b, {"Gov", "IBC"})
  BY Followed

\* The parts of NewAppKeeper are sequences over one set.
LEMMA Sequences ==
  \E S : /\ StakingKeepers \in Seq(S) /\ ProviderAndGov \in Seq(S) /\ PacketKeepers \in Seq(S)
         /\ EvmKeepers \in Seq(S) /\ Stacks \in Seq(S) /\ appModules \in Seq(S)
  <1> DEFINE S == {StakingKeepers[i] : i \in 1..12} \union {ProviderAndGov[i] : i \in 1..10}
                  \union {PacketKeepers[i] : i \in 1..6} \union {EvmKeepers[i] : i \in 1..7}
                  \union {Stacks[i] : i \in 1..11} \union {appModules[i] : i \in 1..9}
  <1>1. StakingKeepers = [i \in 1..12 |-> StakingKeepers[i]]
    BY DEF StakingKeepers
  <1>2. ProviderAndGov = [i \in 1..10 |-> ProviderAndGov[i]]
    BY DEF ProviderAndGov
  <1>3. PacketKeepers = [i \in 1..6 |-> PacketKeepers[i]]
    BY DEF PacketKeepers
  <1>4. EvmKeepers = [i \in 1..7 |-> EvmKeepers[i]]
    BY DEF EvmKeepers
  <1>5. Stacks = [i \in 1..11 |-> Stacks[i]]
    BY DEF Stacks
  <1>6. appModules = [i \in 1..9 |-> appModules[i]]
    BY DEF appModules
  <1>7. StakingKeepers \in Seq(S) /\ ProviderAndGov \in Seq(S) /\ PacketKeepers \in Seq(S)
    BY <1>1, <1>2, <1>3
  <1>8. EvmKeepers \in Seq(S) /\ Stacks \in Seq(S) /\ appModules \in Seq(S)
    BY <1>4, <1>5, <1>6
  <1> HIDE DEF S
  <1> QED BY <1>7, <1>8

\* How many statements each part has.
LEMMA Lengths ==
  /\ Len(StakingKeepers) = 12 /\ Len(ProviderAndGov) = 10 /\ Len(PacketKeepers) = 6
  /\ Len(EvmKeepers) = 7 /\ Len(Stacks) = 11 /\ Len(appModules) = 9
  BY DEF StakingKeepers, ProviderAndGov, PacketKeepers, EvmKeepers, Stacks, appModules

\* Where the elements of two joined sequences are.
LEMMA Joined ==
  ASSUME NEW S, NEW s \in Seq(S), NEW t \in Seq(S)
  PROVE  /\ s \o t \in Seq(S) /\ Len(s \o t) = Len(s) + Len(t)
         /\ \A i \in 1..Len(s) : (s \o t)[i] = s[i]
         /\ \A i \in 1..Len(t) : (s \o t)[Len(s) + i] = t[i]
  <1>1. Len(s) \in Nat /\ Len(t) \in Nat
    OBVIOUS
  <1>2. \A i \in 1..Len(t) : Len(s) + i \in 1..(Len(s) + Len(t))
                              /\ ~(Len(s) + i <= Len(s)) /\ (Len(s) + i) - Len(s) = i
    BY <1>1
  <1>3. \A i \in 1..Len(s) : i \in 1..(Len(s) + Len(t)) /\ i <= Len(s)
    BY <1>1
  <1> QED BY <1>2, <1>3, ConcatProperties

\* The number of each statement.
LEMMA Placed ==
  /\ DOMAIN Statements = 1..55 /\ Len(Statements) = 55
  /\ \A i \in 1..12 : Statements[i] = StakingKeepers[i]
  /\ \A i \in 1..10 : Statements[12 + i] = ProviderAndGov[i]
  /\ \A i \in 1..6 : Statements[22 + i] = PacketKeepers[i]
  /\ \A i \in 1..7 : Statements[28 + i] = EvmKeepers[i]
  /\ \A i \in 1..11 : Statements[35 + i] = Stacks[i]
  /\ \A i \in 1..9 : Statements[46 + i] = appModules[i]
  <1> DEFINE s2 == StakingKeepers \o ProviderAndGov
             s3 == s2 \o PacketKeepers
             s4 == s3 \o EvmKeepers
  <1>1. PICK S : /\ StakingKeepers \in Seq(S) /\ ProviderAndGov \in Seq(S)
                 /\ PacketKeepers \in Seq(S) /\ EvmKeepers \in Seq(S)
                 /\ Stacks \in Seq(S) /\ appModules \in Seq(S)
    BY Sequences
  <1>2. s2 \in Seq(S) /\ Len(s2) = 22
    <2>1. s2 = StakingKeepers \o ProviderAndGov
      BY DEF s2
    <2> HIDE DEF s2, s3, s4
    <2>2. s2 \in Seq(S) /\ Len(s2) = Len(StakingKeepers) + Len(ProviderAndGov)
      <3>1. StakingKeepers \in Seq(S)
        BY <1>1
      <3> QED BY <1>1, <2>1, <3>1, Joined
    <2> QED BY <2>2, Lengths
  <1>3. /\ \A i \in 1..12 : s2[i] = StakingKeepers[i]
        /\ \A i \in 1..10 : s2[12 + i] = ProviderAndGov[i]
    <2>1. s2 = StakingKeepers \o ProviderAndGov
      BY DEF s2
    <2> HIDE DEF s2, s3, s4
    <2>2. StakingKeepers \in Seq(S)
      BY <1>1
    <2>3. /\ \A i \in 1..Len(StakingKeepers) : s2[i] = StakingKeepers[i]
          /\ \A i \in 1..Len(ProviderAndGov) : s2[Len(StakingKeepers) + i] = ProviderAndGov[i]
      BY <1>1, <2>1, <2>2, Joined
    <2>4. Len(StakingKeepers) = 12 /\ Len(ProviderAndGov) = 10
      BY Lengths
    <2> QED BY <2>3, <2>4
  <1>4. s3 \in Seq(S) /\ Len(s3) = 28
    <2>1. s3 = s2 \o PacketKeepers
      BY DEF s3
    <2> HIDE DEF s2, s3, s4
    <2>2. s3 \in Seq(S) /\ Len(s3) = Len(s2) + Len(PacketKeepers)
      <3>1. s2 \in Seq(S)
        BY <1>2
      <3> QED BY <1>1, <2>1, <3>1, Joined
    <2> QED BY <2>2, Lengths, <1>2
  <1>5. /\ \A i \in 1..22 : s3[i] = s2[i]
        /\ \A i \in 1..6 : s3[22 + i] = PacketKeepers[i]
    <2>1. s3 = s2 \o PacketKeepers
      BY DEF s3
    <2> HIDE DEF s2, s3, s4
    <2>2. s2 \in Seq(S)
      BY <1>2
    <2>3. /\ \A i \in 1..Len(s2) : s3[i] = s2[i]
          /\ \A i \in 1..Len(PacketKeepers) : s3[Len(s2) + i] = PacketKeepers[i]
      BY <1>1, <2>1, <2>2, Joined
    <2>4. Len(s2) = 22 /\ Len(PacketKeepers) = 6
      BY Lengths, <1>2
    <2> QED BY <2>3, <2>4
  <1>6. s4 \in Seq(S) /\ Len(s4) = 35
    <2>1. s4 = s3 \o EvmKeepers
      BY DEF s4
    <2> HIDE DEF s2, s3, s4
    <2>2. s4 \in Seq(S) /\ Len(s4) = Len(s3) + Len(EvmKeepers)
      <3>1. s3 \in Seq(S)
        BY <1>4
      <3> QED BY <1>1, <2>1, <3>1, Joined
    <2> QED BY <2>2, Lengths, <1>4
  <1>7. /\ \A i \in 1..28 : s4[i] = s3[i]
        /\ \A i \in 1..7 : s4[28 + i] = EvmKeepers[i]
    <2>1. s4 = s3 \o EvmKeepers
      BY DEF s4
    <2> HIDE DEF s2, s3, s4
    <2>2. s3 \in Seq(S)
      BY <1>4
    <2>3. /\ \A i \in 1..Len(s3) : s4[i] = s3[i]
          /\ \A i \in 1..Len(EvmKeepers) : s4[Len(s3) + i] = EvmKeepers[i]
      BY <1>1, <2>1, <2>2, Joined
    <2>4. Len(s3) = 28 /\ Len(EvmKeepers) = 7
      BY Lengths, <1>4
    <2> QED BY <2>3, <2>4
  <1>8. NewAppKeeper \in Seq(S) /\ Len(NewAppKeeper) = 46
    <2>1. NewAppKeeper = s4 \o Stacks
      BY DEF NewAppKeeper
    <2> HIDE DEF s2, s3, s4
    <2>2. NewAppKeeper \in Seq(S) /\ Len(NewAppKeeper) = Len(s4) + Len(Stacks)
      <3>1. s4 \in Seq(S)
        BY <1>6
      <3> QED BY <1>1, <2>1, <3>1, Joined
    <2> QED BY <2>2, Lengths, <1>6
  <1>9. /\ \A i \in 1..35 : NewAppKeeper[i] = s4[i]
        /\ \A i \in 1..11 : NewAppKeeper[35 + i] = Stacks[i]
    <2>1. NewAppKeeper = s4 \o Stacks
      BY DEF NewAppKeeper
    <2> HIDE DEF s2, s3, s4
    <2>2. s4 \in Seq(S)
      BY <1>6
    <2>3. /\ \A i \in 1..Len(s4) : NewAppKeeper[i] = s4[i]
          /\ \A i \in 1..Len(Stacks) : NewAppKeeper[Len(s4) + i] = Stacks[i]
      BY <1>1, <2>1, <2>2, Joined
    <2>4. Len(s4) = 35 /\ Len(Stacks) = 11
      BY Lengths, <1>6
    <2> QED BY <2>3, <2>4
  <1>10. Statements \in Seq(S) /\ Len(Statements) = 55
    <2>1. Statements = NewAppKeeper \o appModules
      BY DEF Statements
    <2> HIDE DEF s2, s3, s4
    <2>2. Statements \in Seq(S) /\ Len(Statements) = Len(NewAppKeeper) + Len(appModules)
      <3>1. NewAppKeeper \in Seq(S)
        BY <1>8
      <3> QED BY <1>1, <2>1, <3>1, Joined
    <2> QED BY <2>2, Lengths, <1>8
  <1>11. /\ \A i \in 1..46 : Statements[i] = NewAppKeeper[i]
        /\ \A i \in 1..9 : Statements[46 + i] = appModules[i]
    <2>1. Statements = NewAppKeeper \o appModules
      BY DEF Statements
    <2> HIDE DEF s2, s3, s4
    <2>2. NewAppKeeper \in Seq(S)
      BY <1>8
    <2>3. /\ \A i \in 1..Len(NewAppKeeper) : Statements[i] = NewAppKeeper[i]
          /\ \A i \in 1..Len(appModules) : Statements[Len(NewAppKeeper) + i] = appModules[i]
      BY <1>1, <2>1, <2>2, Joined
    <2>4. Len(NewAppKeeper) = 46 /\ Len(appModules) = 9
      BY Lengths, <1>8
    <2> QED BY <2>3, <2>4
  <1> HIDE DEF s2, s3, s4
  <1>12. DOMAIN Statements = 1..55 /\ Len(Statements) = 55
    BY <1>10
  <1>13. ASSUME NEW i \in 1..12 PROVE Statements[i] = StakingKeepers[i]
    <2>1. i \in 1..22 /\ i \in 1..28 /\ i \in 1..35 /\ i \in 1..46
      OBVIOUS
    <2> QED BY <2>1, <1>3, <1>5, <1>7, <1>9, <1>11
  <1>14. ASSUME NEW i \in 1..10 PROVE Statements[12 + i] = ProviderAndGov[i]
    <2>1. 12 + i \in 1..22 /\ 12 + i \in 1..28 /\ 12 + i \in 1..35 /\ 12 + i \in 1..46
      OBVIOUS
    <2> QED BY <2>1, <1>3, <1>5, <1>7, <1>9, <1>11
  <1>15. ASSUME NEW i \in 1..6 PROVE Statements[22 + i] = PacketKeepers[i]
    <2>1. 22 + i \in 1..28 /\ 22 + i \in 1..35 /\ 22 + i \in 1..46
      OBVIOUS
    <2> QED BY <2>1, <1>5, <1>7, <1>9, <1>11
  <1>16. ASSUME NEW i \in 1..7 PROVE Statements[28 + i] = EvmKeepers[i]
    <2>1. 28 + i \in 1..35 /\ 28 + i \in 1..46
      OBVIOUS
    <2> QED BY <2>1, <1>7, <1>9, <1>11
  <1>17. ASSUME NEW i \in 1..11 PROVE Statements[35 + i] = Stacks[i]
    <2>1. 35 + i \in 1..46
      OBVIOUS
    <2> QED BY <2>1, <1>9, <1>11
  <1> QED BY <1>11, <1>12, <1>13, <1>14, <1>15, <1>16, <1>17

\* What keeper.go:180-278 makes and sets.
LEMMA StakingKeepersRows ==
  /\ Makes(StakingKeepers[1], "Params") /\ Makes(StakingKeepers[2], "ConsensusParams")
  /\ Makes(StakingKeepers[3], "Upgrade") /\ Makes(StakingKeepers[4], "Account")
  /\ Makes(StakingKeepers[5], "Bank") /\ Makes(StakingKeepers[6], "Authz")
  /\ Sets(StakingKeepers[7], "Authz", "bank") /\ Makes(StakingKeepers[8], "FeeGrant")
  /\ Makes(StakingKeepers[9], "Staking") /\ Makes(StakingKeepers[10], "Distr")
  /\ Makes(StakingKeepers[11], "Slashing") /\ Sets(StakingKeepers[12], "Staking", "hooks")
  <1>1. /\ Makes(StakingKeepers[1], "Params") /\ Makes(StakingKeepers[2], "ConsensusParams")
        /\ Makes(StakingKeepers[3], "Upgrade") /\ Makes(StakingKeepers[4], "Account")
        /\ Makes(StakingKeepers[5], "Bank")
    BY Through DEF Makes, Sets, Sound, StakingKeepers, New, Set, GenerateKeys,
      initParamsKeeper, SetStakingHooks
  <1>2. /\ Makes(StakingKeepers[6], "Authz") /\ Sets(StakingKeepers[7], "Authz", "bank")
        /\ Makes(StakingKeepers[8], "FeeGrant") /\ Makes(StakingKeepers[9], "Staking")
        /\ Makes(StakingKeepers[10], "Distr")
    BY Through DEF Makes, Sets, Sound, StakingKeepers, New, Set, GenerateKeys,
      initParamsKeeper, SetStakingHooks
  <1>3. /\ Makes(StakingKeepers[11], "Slashing")
        /\ Sets(StakingKeepers[12], "Staking", "hooks")
    BY Through DEF Makes, Sets, Sound, StakingKeepers, New, Set, GenerateKeys,
      initParamsKeeper, SetStakingHooks
  <1> QED BY <1>1, <1>2, <1>3

\* What keeper.go:280-403 makes and sets.
LEMMA ProviderAndGovRows ==
  /\ Makes(ProviderAndGov[1], "IBC") /\ Makes(ProviderAndGov[2], "WasmClient")
  /\ Makes(ProviderAndGov[3], "Provider") /\ Makes(ProviderAndGov[4], "Gov")
  /\ Makes(ProviderAndGov[5], "Mint") /\ Sets(ProviderAndGov[6], "Provider", "gov")
  /\ Makes(ProviderAndGov[7], "ProviderModule") /\ Sets(ProviderAndGov[8], "Gov", "router")
  /\ Sets(ProviderAndGov[9], "Gov", "hooks") /\ Makes(ProviderAndGov[10], "Evidence")
  <1>1. /\ Makes(ProviderAndGov[1], "IBC") /\ Makes(ProviderAndGov[2], "WasmClient")
        /\ Makes(ProviderAndGov[3], "Provider") /\ Makes(ProviderAndGov[4], "Gov")
        /\ Makes(ProviderAndGov[5], "Mint")
    BY Through DEF Makes, Sets, Sound, ProviderAndGov, New, Set, GenerateKeys,
      initParamsKeeper
  <1>2. /\ Sets(ProviderAndGov[6], "Provider", "gov")
        /\ Makes(ProviderAndGov[7], "ProviderModule")
        /\ Sets(ProviderAndGov[8], "Gov", "router")
        /\ Sets(ProviderAndGov[9], "Gov", "hooks") /\ Makes(ProviderAndGov[10], "Evidence")
    BY Through DEF Makes, Sets, Sound, ProviderAndGov, New, Set, GenerateKeys,
      initParamsKeeper
  <1> QED BY <1>1, <1>2

\* What keeper.go:405-467 makes and sets.
LEMMA PacketKeepersRows ==
  /\ Makes(PacketKeepers[1], "ICAHost") /\ Makes(PacketKeepers[2], "Ratelimit")
  /\ Makes(PacketKeepers[3], "ICAController") /\ Makes(PacketKeepers[4], "PFM")
  /\ Makes(PacketKeepers[5], "Transfer") /\ Sets(PacketKeepers[6], "PFM", "transfer")
  <1>1. /\ Makes(PacketKeepers[1], "ICAHost") /\ Makes(PacketKeepers[2], "Ratelimit")
        /\ Makes(PacketKeepers[3], "ICAController")
    BY Through DEF Makes, Sets, Sound, PacketKeepers, New, Set, GenerateKeys,
      initParamsKeeper
  <1>2. /\ Makes(PacketKeepers[4], "PFM") /\ Makes(PacketKeepers[5], "Transfer")
        /\ Sets(PacketKeepers[6], "PFM", "transfer")
    BY Through DEF Makes, Sets, Sound, PacketKeepers, New, Set, GenerateKeys,
      initParamsKeeper
  <1> QED BY <1>1, <1>2

\* What keeper.go:469-555 makes and sets.
LEMMA EvmKeepersRows ==
  /\ Makes(EvmKeepers[1], "Feemarket") /\ Makes(EvmKeepers[2], "PreciseBank")
  /\ Makes(EvmKeepers[3], "Erc20") /\ Makes(EvmKeepers[4], "EVM")
  /\ Makes(EvmKeepers[5], "EVMTransfer") /\ Sets(EvmKeepers[6], "EVM", "precompiles")
  /\ Makes(EvmKeepers[7], "Wasm")
  <1>1. /\ Makes(EvmKeepers[1], "Feemarket") /\ Makes(EvmKeepers[2], "PreciseBank")
        /\ Makes(EvmKeepers[3], "Erc20") /\ Makes(EvmKeepers[4], "EVM")
        /\ Makes(EvmKeepers[5], "EVMTransfer")
    BY Through DEF Makes, Sets, Sound, EvmKeepers, New, Set, GenerateKeys,
      initParamsKeeper, NewAvailableStaticPrecompiles
  <1>2. /\ Sets(EvmKeepers[6], "EVM", "precompiles") /\ Makes(EvmKeepers[7], "Wasm")
    BY Through DEF Makes, Sets, Sound, EvmKeepers, New, Set, GenerateKeys,
      initParamsKeeper, NewAvailableStaticPrecompiles
  <1> QED BY <1>1, <1>2

\* What keeper.go:557-620 makes and sets.
LEMMA StacksRows ==
  /\ Makes(Stacks[1], "TransferStack") /\ Makes(Stacks[2], "ICAHostStack")
  /\ Makes(Stacks[3], "ICAControllerStack") /\ Sets(Stacks[4], "ICAController", "wrapper")
  /\ Makes(Stacks[5], "TransferStackV2") /\ Sets(Stacks[6], "IBC", "router")
  /\ Sets(Stacks[7], "IBC", "routerV2") /\ Makes(Stacks[8], "ICAModule")
  /\ Makes(Stacks[9], "TransferModule") /\ Makes(Stacks[10], "PFMModule")
  /\ Makes(Stacks[11], "RatelimitModule")
  BY Through DEF Makes, Sets, Sound, Stacks, New, Set, GenerateKeys,
    initParamsKeeper

\* What module.go:87-129 makes.
LEMMA AppModulesRows ==
  /\ Makes(appModules[1], "GovModule") /\ Makes(appModules[2], "StakingModule")
  /\ Makes(appModules[3], "SlashingModule") /\ Makes(appModules[4], "MintModule")
  /\ Makes(appModules[5], "AuthzModule") /\ Makes(appModules[6], "EvidenceModule")
  /\ Makes(appModules[7], "IBCModule") /\ Makes(appModules[8], "EVMModule")
  /\ Makes(appModules[9], "Erc20Module")
  BY Through DEF Makes, Sets, Sound, appModules, New, Set, GenerateKeys,
    initParamsKeeper

\* Keeper k, a pointer, has been made before the i-th statement.
Before(k, i) ==
  \/ k = "Staking" /\ i > 9
  \/ k = "IBC" /\ i > 13
  \/ k = "Gov" /\ i > 16
  \/ k = "PFM" /\ i > 26
  \/ k = "EVM" /\ i > 32

\* What holds of s, the i-th statement: what it sets has been made, and no
\* keeper that something is set of is made again.
Fine(i, s) ==
  /\ Sound(s)
  /\ s.op = "set" /\ s.k \in Pointers => Before(s.k, i)
  /\ s.op # "set" => /\ s.k = "Authz" => i = 6
                     /\ s.k = "Staking" => i = 9
                     /\ s.k = "IBC" => i = 13
                     /\ s.k = "Provider" => i = 15
                     /\ s.k = "Gov" => i = 16
                     /\ s.k = "ICAController" => i = 25
                     /\ s.k = "PFM" => i = 26
                     /\ s.k = "EVM" => i = 32

\* It holds of every statement.
LEMMA AllFine == \A i \in 1..55 : Fine(i, Statements[i])
  <1>1. \A j \in 1..12 : Fine(j, StakingKeepers[j])
    <2>1. /\ Fine(1, StakingKeepers[1]) /\ Fine(2, StakingKeepers[2])
          /\ Fine(3, StakingKeepers[3]) /\ Fine(4, StakingKeepers[4])
          /\ Fine(5, StakingKeepers[5]) /\ Fine(6, StakingKeepers[6])
          /\ Fine(8, StakingKeepers[8]) /\ Fine(9, StakingKeepers[9])
          /\ Fine(10, StakingKeepers[10]) /\ Fine(11, StakingKeepers[11])
      BY StakingKeepersRows DEF Makes, Fine
    <2>2. /\ Fine(7, StakingKeepers[7]) /\ Fine(12, StakingKeepers[12])
      BY StakingKeepersRows DEF Sets, Fine, Before, Pointers
    <2> QED BY <2>1, <2>2
  <1>2. \A j \in 1..10 : Fine(12 + j, ProviderAndGov[j])
    <2>1. /\ Fine(13, ProviderAndGov[1]) /\ Fine(14, ProviderAndGov[2])
          /\ Fine(15, ProviderAndGov[3]) /\ Fine(16, ProviderAndGov[4])
          /\ Fine(17, ProviderAndGov[5]) /\ Fine(19, ProviderAndGov[7])
          /\ Fine(22, ProviderAndGov[10])
      BY ProviderAndGovRows DEF Makes, Fine
    <2>2. /\ Fine(18, ProviderAndGov[6]) /\ Fine(20, ProviderAndGov[8])
          /\ Fine(21, ProviderAndGov[9])
      BY ProviderAndGovRows DEF Sets, Fine, Before, Pointers
    <2> QED BY <2>1, <2>2
  <1>3. \A j \in 1..6 : Fine(22 + j, PacketKeepers[j])
    <2>1. /\ Fine(23, PacketKeepers[1]) /\ Fine(24, PacketKeepers[2])
          /\ Fine(25, PacketKeepers[3]) /\ Fine(26, PacketKeepers[4])
          /\ Fine(27, PacketKeepers[5])
      BY PacketKeepersRows DEF Makes, Fine
    <2>2. Fine(28, PacketKeepers[6])
      BY PacketKeepersRows DEF Sets, Fine, Before, Pointers
    <2> QED BY <2>1, <2>2
  <1>4. \A j \in 1..7 : Fine(28 + j, EvmKeepers[j])
    <2>1. /\ Fine(29, EvmKeepers[1]) /\ Fine(30, EvmKeepers[2]) /\ Fine(31, EvmKeepers[3])
          /\ Fine(32, EvmKeepers[4]) /\ Fine(33, EvmKeepers[5]) /\ Fine(35, EvmKeepers[7])
      BY EvmKeepersRows DEF Makes, Fine
    <2>2. Fine(34, EvmKeepers[6])
      BY EvmKeepersRows DEF Sets, Fine, Before, Pointers
    <2> QED BY <2>1, <2>2
  <1>5. \A j \in 1..11 : Fine(35 + j, Stacks[j])
    <2>1. /\ Fine(36, Stacks[1]) /\ Fine(37, Stacks[2]) /\ Fine(38, Stacks[3])
          /\ Fine(40, Stacks[5]) /\ Fine(43, Stacks[8]) /\ Fine(44, Stacks[9])
          /\ Fine(45, Stacks[10]) /\ Fine(46, Stacks[11])
      BY StacksRows DEF Makes, Fine
    <2>2. /\ Fine(39, Stacks[4]) /\ Fine(41, Stacks[6]) /\ Fine(42, Stacks[7])
      BY StacksRows DEF Sets, Fine, Before, Pointers
    <2> QED BY <2>1, <2>2
  <1>6. \A j \in 1..9 : Fine(46 + j, appModules[j])
    <2>1. /\ Fine(47, appModules[1]) /\ Fine(48, appModules[2]) /\ Fine(49, appModules[3])
          /\ Fine(50, appModules[4]) /\ Fine(51, appModules[5]) /\ Fine(52, appModules[6])
          /\ Fine(53, appModules[7]) /\ Fine(54, appModules[8]) /\ Fine(55, appModules[9])
      BY AppModulesRows DEF Makes, Fine
    <2> QED BY <2>1
  <1>7. ASSUME NEW i \in 1..55 PROVE Fine(i, Statements[i])
    <2>1. CASE i \in 1..12
      BY <2>1, <1>1, Placed
    <2>2. CASE i \in 13..22
      <3>1. i - 12 \in 1..10 /\ i = 12 + (i - 12)
        BY <2>2
      <3> QED BY <3>1, <1>2, Placed
    <2>3. CASE i \in 23..28
      <3>1. i - 22 \in 1..6 /\ i = 22 + (i - 22)
        BY <2>3
      <3> QED BY <3>1, <1>3, Placed
    <2>4. CASE i \in 29..35
      <3>1. i - 28 \in 1..7 /\ i = 28 + (i - 28)
        BY <2>4
      <3> QED BY <3>1, <1>4, Placed
    <2>5. CASE i \in 36..46
      <3>1. i - 35 \in 1..11 /\ i = 35 + (i - 35)
        BY <2>5
      <3> QED BY <3>1, <1>5, Placed
    <2>6. CASE i \in 47..55
      <3>1. i - 46 \in 1..9 /\ i = 46 + (i - 46)
        BY <2>6
      <3> QED BY <3>1, <1>6, Placed
    <2> QED BY <2>1, <2>2, <2>3, <2>4, <2>5, <2>6
  <1> QED BY <1>7

\* Who is made by the i-th statement is made in the end.
LEMMA MadeSince ==
  ASSUME NEW n \in 0..55, NEW i \in 1..55, NEW k, Makes(Statements[i], k), n >= i
  PROVE  k \in Made(n)
  <1>1. i \in 1..n
    OBVIOUS
  <1>2. Statements[i].op = "new" /\ Statements[i].k = k
    BY DEF Makes
  <1> QED BY <1>1, <1>2 DEF Made

\* No statement from the i-th on makes keeper k.
MadeBy(k, i) ==
  \A m \in 1..55 : Statements[m].k = k /\ Statements[m].op # "set" => m < i

\* What the i-th statement sets stays set, unless the keeper is made later.
LEMMA SetSince ==
  ASSUME NEW n \in 0..55, NEW i \in 1..55, NEW k, NEW what, Sets(Statements[i], k, what),
         MadeBy(k, i), n >= i
  PROVE  what \in Has(n, k)
  <1>1. Statements[i].op = "set" /\ Statements[i].k = k /\ Statements[i].sets = what
    BY DEF Sets
  <1>2. i \in 1..n /\ \A m \in (i + 1)..n : m \in 1..55 /\ ~(m < i)
    OBVIOUS
  <1> QED BY <1>1, <1>2 DEF Has, MadeBy

\* The keepers the handlers reach, and where they are made.
LEMMA Makers ==
  /\ Makes(Statements[6], "Authz") /\ Makes(Statements[9], "Staking")
  /\ Makes(Statements[10], "Distr") /\ Makes(Statements[11], "Slashing")
  /\ Makes(Statements[13], "IBC") /\ Makes(Statements[15], "Provider")
  /\ Makes(Statements[16], "Gov") /\ Makes(Statements[24], "Ratelimit")
  /\ Makes(Statements[25], "ICAController") /\ Makes(Statements[26], "PFM")
  /\ Makes(Statements[27], "Transfer") /\ Makes(Statements[30], "PreciseBank")
  /\ Makes(Statements[31], "Erc20") /\ Makes(Statements[32], "EVM")
  /\ Makes(Statements[33], "EVMTransfer") /\ Makes(Statements[36], "TransferStack")
  /\ Makes(Statements[40], "TransferStackV2")
  <1>1. /\ Statements[6] = StakingKeepers[6] /\ Statements[9] = StakingKeepers[9]
        /\ Statements[10] = StakingKeepers[10] /\ Statements[11] = StakingKeepers[11]
    BY Placed
  <1>2. /\ Statements[13] = ProviderAndGov[1] /\ Statements[15] = ProviderAndGov[3]
        /\ Statements[16] = ProviderAndGov[4]
    BY Placed
  <1>3. /\ Statements[24] = PacketKeepers[2] /\ Statements[25] = PacketKeepers[3]
        /\ Statements[26] = PacketKeepers[4] /\ Statements[27] = PacketKeepers[5]
    BY Placed
  <1>4. /\ Statements[30] = EvmKeepers[2] /\ Statements[31] = EvmKeepers[3]
        /\ Statements[32] = EvmKeepers[4] /\ Statements[33] = EvmKeepers[5]
    BY Placed
  <1>5. /\ Statements[36] = Stacks[1] /\ Statements[40] = Stacks[5]
    BY Placed
  <1> QED BY <1>1, <1>2, <1>3, <1>4, <1>5,
    StakingKeepersRows, ProviderAndGovRows, PacketKeepersRows, EvmKeepersRows, StacksRows

\* What is set of them, and where.
LEMMA Setters ==
  /\ Sets(Statements[7], "Authz", "bank") /\ Sets(Statements[12], "Staking", "hooks")
  /\ Sets(Statements[18], "Provider", "gov") /\ Sets(Statements[20], "Gov", "router")
  /\ Sets(Statements[21], "Gov", "hooks") /\ Sets(Statements[28], "PFM", "transfer")
  /\ Sets(Statements[34], "EVM", "precompiles")
  /\ Sets(Statements[39], "ICAController", "wrapper")
  /\ Sets(Statements[41], "IBC", "router") /\ Sets(Statements[42], "IBC", "routerV2")
  <1>1. /\ Statements[7] = StakingKeepers[7] /\ Statements[12] = StakingKeepers[12]
    BY Placed
  <1>2. /\ Statements[18] = ProviderAndGov[6] /\ Statements[20] = ProviderAndGov[8]
        /\ Statements[21] = ProviderAndGov[9]
    BY Placed
  <1>3. Statements[28] = PacketKeepers[6]
    BY Placed
  <1>4. Statements[34] = EvmKeepers[6]
    BY Placed
  <1>5. /\ Statements[39] = Stacks[4] /\ Statements[41] = Stacks[6]
        /\ Statements[42] = Stacks[7]
    BY Placed
  <1> QED BY <1>1, <1>2, <1>3, <1>4, <1>5,
    StakingKeepersRows, ProviderAndGovRows, PacketKeepersRows, EvmKeepersRows, StacksRows

\* Nothing follows the pointers to IBC and to governance before they are made.
LEMMA PlainBefore ==
  /\ \A i \in 1..13 : Only(Statements[i].args, {})
  /\ \A i \in 14..16 : Only(Statements[i].args, {"IBC"})
  <1>1. \A js : Only(Field(js), {}) /\ Only(Address(js), {})
    BY Followed
  <1>2. Only({}, {}) /\ \A a, b : Only(a, {}) /\ Only(b, {}) => Only(a \union b, {})
    BY Followed
  <1>3. /\ Only(StakingKeepers[1].args, {}) /\ Only(StakingKeepers[2].args, {})
        /\ Only(StakingKeepers[3].args, {}) /\ Only(StakingKeepers[4].args, {})
        /\ Only(StakingKeepers[5].args, {}) /\ Only(StakingKeepers[6].args, {})
    BY <1>1, <1>2 DEF StakingKeepers, New, Set
  <1>4. /\ Only(StakingKeepers[7].args, {}) /\ Only(StakingKeepers[8].args, {})
        /\ Only(StakingKeepers[9].args, {}) /\ Only(StakingKeepers[10].args, {})
        /\ Only(StakingKeepers[11].args, {}) /\ Only(StakingKeepers[12].args, {})
    BY <1>1, <1>2 DEF StakingKeepers, New, Set, SetStakingHooks
  <1>5. Only(ProviderAndGov[1].args, {})
    BY <1>1 DEF ProviderAndGov, New
  <1>6. /\ \A js : Only(Field(js), {"IBC"})
        /\ Only(Deref({"IBC"}), {"IBC"})
        /\ \A a, b : Only(a, {"IBC"}) /\ Only(b, {"IBC"}) => Only(a \union b, {"IBC"})
    BY Followed
  <1>7. /\ Only(ProviderAndGov[2].args, {"IBC"}) /\ Only(ProviderAndGov[3].args, {"IBC"})
        /\ Only(ProviderAndGov[4].args, {"IBC"})
    BY <1>6 DEF ProviderAndGov, New
  <1>8. /\ Statements[13] = ProviderAndGov[1] /\ Statements[14] = ProviderAndGov[2]
        /\ Statements[15] = ProviderAndGov[3] /\ Statements[16] = ProviderAndGov[4]
    BY Placed
  <1>9. ASSUME NEW i \in 1..12 PROVE Only(Statements[i].args, {})
    <2>1. \A j \in 1..12 : Only(StakingKeepers[j].args, {})
      BY <1>3, <1>4
    <2>2. Statements[i] = StakingKeepers[i]
      BY Placed
    <2> QED BY <2>1, <2>2
  <1>10. ASSUME NEW i \in 1..13 PROVE i \in 1..12 \/ i = 13
    OBVIOUS
  <1>11. ASSUME NEW i \in 14..16 PROVE i = 14 \/ i = 15 \/ i = 16
    OBVIOUS
  <1> QED BY <1>5, <1>7, <1>8, <1>9, <1>10, <1>11

\* Who has been made when n statements have run.
LEMMA MadeAt ==
  ASSUME NEW n \in 0..55
  PROVE  /\ (n >= 6 => "Authz" \in Made(n)) /\ (n >= 9 => "Staking" \in Made(n))
         /\ (n >= 10 => "Distr" \in Made(n)) /\ (n >= 11 => "Slashing" \in Made(n))
         /\ (n >= 13 => "IBC" \in Made(n)) /\ (n >= 15 => "Provider" \in Made(n))
         /\ (n >= 16 => "Gov" \in Made(n)) /\ (n >= 24 => "Ratelimit" \in Made(n))
         /\ (n >= 25 => "ICAController" \in Made(n)) /\ (n >= 26 => "PFM" \in Made(n))
         /\ (n >= 27 => "Transfer" \in Made(n)) /\ (n >= 30 => "PreciseBank" \in Made(n))
         /\ (n >= 31 => "Erc20" \in Made(n)) /\ (n >= 32 => "EVM" \in Made(n))
         /\ (n >= 33 => "EVMTransfer" \in Made(n))
         /\ (n >= 36 => "TransferStack" \in Made(n))
         /\ (n >= 40 => "TransferStackV2" \in Made(n))
  BY MadeSince, Makers

\* What has been set by then.
LEMMA HasAt ==
  ASSUME NEW n \in 0..55
  PROVE  /\ (n >= 7 => "bank" \in Has(n, "Authz"))
         /\ (n >= 12 => "hooks" \in Has(n, "Staking"))
         /\ (n >= 18 => "gov" \in Has(n, "Provider"))
         /\ (n >= 20 => "router" \in Has(n, "Gov"))
         /\ (n >= 21 => "hooks" \in Has(n, "Gov"))
         /\ (n >= 28 => "transfer" \in Has(n, "PFM"))
         /\ (n >= 34 => "precompiles" \in Has(n, "EVM"))
         /\ (n >= 39 => "wrapper" \in Has(n, "ICAController"))
         /\ (n >= 41 => "router" \in Has(n, "IBC"))
         /\ (n >= 42 => "routerV2" \in Has(n, "IBC"))
  <1>1. \A m \in 1..55 : Fine(m, Statements[m])
    BY AllFine
  <1>2. n >= 7 => "bank" \in Has(n, "Authz")
    <2>1. MadeBy("Authz", 7)
      BY <1>1 DEF Fine, MadeBy
    <2> QED BY <2>1, SetSince, Setters
  <1>3. n >= 12 => "hooks" \in Has(n, "Staking")
    <2>1. MadeBy("Staking", 12)
      BY <1>1 DEF Fine, MadeBy
    <2> QED BY <2>1, SetSince, Setters
  <1>4. n >= 18 => "gov" \in Has(n, "Provider")
    <2>1. MadeBy("Provider", 18)
      BY <1>1 DEF Fine, MadeBy
    <2> QED BY <2>1, SetSince, Setters
  <1>5. n >= 20 => "router" \in Has(n, "Gov")
    <2>1. MadeBy("Gov", 20)
      BY <1>1 DEF Fine, MadeBy
    <2> QED BY <2>1, SetSince, Setters
  <1>6. n >= 21 => "hooks" \in Has(n, "Gov")
    <2>1. MadeBy("Gov", 21)
      BY <1>1 DEF Fine, MadeBy
    <2> QED BY <2>1, SetSince, Setters
  <1>7. n >= 28 => "transfer" \in Has(n, "PFM")
    <2>1. MadeBy("PFM", 28)
      BY <1>1 DEF Fine, MadeBy
    <2> QED BY <2>1, SetSince, Setters
  <1>8. n >= 34 => "precompiles" \in Has(n, "EVM")
    <2>1. MadeBy("EVM", 34)
      BY <1>1 DEF Fine, MadeBy
    <2> QED BY <2>1, SetSince, Setters
  <1>9. n >= 39 => "wrapper" \in Has(n, "ICAController")
    <2>1. MadeBy("ICAController", 39)
      BY <1>1 DEF Fine, MadeBy
    <2> QED BY <2>1, SetSince, Setters
  <1>10. n >= 41 => "router" \in Has(n, "IBC")
    <2>1. MadeBy("IBC", 41)
      BY <1>1 DEF Fine, MadeBy
    <2> QED BY <2>1, SetSince, Setters
  <1>11. n >= 42 => "routerV2" \in Has(n, "IBC")
    <2>1. MadeBy("IBC", 42)
      BY <1>1 DEF Fine, MadeBy
    <2> QED BY <2>1, SetSince, Setters
  <1> QED BY <1>2, <1>3, <1>4, <1>5, <1>6, <1>7, <1>8, <1>9, <1>10, <1>11

\* No constructor and no setter panics: each pointer that is followed, or set
\* something of, has been made, and each subspace is registered
\* (keeper.go:151-660).
THEOREM ConstructorsDoNotPanic == ~ConstructionPanics
  <1>1. SUFFICES ASSUME NEW i \in 1..55 PROVE ~Panics(i)
    BY Placed DEF ConstructionPanics
  <1>2. Fine(i, Statements[i]) /\ i - 1 \in 0..55
    BY AllFine
  <1>3. ASSUME NEW arg \in Statements[i].args, arg[1] = "deref" PROVE arg[2] \in Made(i - 1)
    <2>1. arg[2] = "Gov" \/ arg[2] = "IBC"
      BY <1>2, <1>3 DEF Fine, Sound, Only
    <2>2. (arg[2] = "Gov" => i > 16) /\ (arg[2] = "IBC" => i > 13)
      BY <1>3, PlainBefore DEF Only
    <2> QED BY <1>2, <2>1, <2>2, MadeAt
  <1>4. ASSUME Statements[i].op = "set", Statements[i].k \in Pointers
        PROVE  Statements[i].k \in Made(i - 1)
    <2>1. Before(Statements[i].k, i)
      BY <1>2, <1>4 DEF Fine
    <2> QED BY <1>2, <2>1, MadeAt DEF Before
  <1>5. Statements[i].space # "" => Statements[i].space \in initParamsKeeper
    BY <1>2 DEF Fine, Sound
  <1> QED BY <1>3, <1>4, <1>5 DEF Panics

\* Every store a keeper is given is mounted.
LEMMA StoresAre == StoresMounted
  BY AllFine, Placed DEF StoresMounted, Fine, Sound

\* The i-th statement hands of to by, by a field, an address or a copy.
Hands(s, by, through, how, of) ==
  s.k = by /\ s.sets = through /\ <<how, of>> \in s.args
Takes(i, by, through, how, of) == Hands(Statements[i], by, through, how, of)

\* A use that relies on nothing that is set later finds what was made before.
LEMMA BareUse ==
  ASSUME NEW i \in 1..55, NEW by, NEW through, NEW how, NEW of,
         Takes(i, by, through, how, of), of \in Made(i - 1)
  PROVE  Finds(Use(by, through, of, {}))
  <1>1. of \in Made(55)
    BY DEF Made
  <1>2. SeenAfter(i, <<how, of>>) \in {i - 1, 55}
    BY Placed DEF SeenAfter
  <1>3. i \in DOMAIN Statements
    BY Placed
  <1> QED BY <1>1, <1>2, <1>3 DEF Finds, Use, Takes, Hands

\* A use through an address or a pointer finds the keeper as it is in the end.
LEMMA LiveUse ==
  ASSUME NEW i \in 1..55, NEW by, NEW through, NEW how, NEW of, NEW has,
         Takes(i, by, through, how, of),
         how = "address" \/ (how = "field" /\ of \in Pointers /\ of \in Made(i - 1)),
         of \in Made(55), has \subseteq Has(55, of)
  PROVE  Finds(Use(by, through, of, has))
  <1>1. SeenAfter(i, <<how, of>>) = 55
    BY Placed DEF SeenAfter
  <1>2. i \in DOMAIN Statements
    BY Placed
  <1> QED BY <1>1, <1>2 DEF Finds, Use, Takes, Hands

\* A use through a copy finds the keeper as it was.
LEMMA CopyUse ==
  ASSUME NEW i \in 1..55, NEW by, NEW through, NEW how, NEW of, NEW has,
         Takes(i, by, through, how, of),
         how = "deref" \/ (how = "field" /\ of \notin Pointers),
         of \in Made(i - 1), has \subseteq Has(i - 1, of)
  PROVE  Finds(Use(by, through, of, has))
  <1>1. SeenAfter(i, <<how, of>>) = i - 1
    BY DEF SeenAfter
  <1>2. i \in DOMAIN Statements
    BY Placed
  <1> QED BY <1>1, <1>2 DEF Finds, Use, Takes, Hands

\* What the constructors and setters of the handlers take.
LEMMA Takings ==
  /\ Takes(11, "Slashing", "", "field", "Staking")
  /\ Takes(12, "Staking", "hooks", "field", "Distr")
  /\ Takes(12, "Staking", "hooks", "field", "Slashing")
  /\ Takes(12, "Staking", "hooks", "address", "Provider")
  /\ Takes(16, "Gov", "", "field", "Provider") /\ Takes(17, "Mint", "", "field", "Provider")
  /\ Takes(18, "Provider", "gov", "deref", "Gov")
  /\ Takes(19, "ProviderModule", "", "address", "Provider")
  /\ Takes(21, "Gov", "hooks", "address", "Provider")
  /\ Takes(22, "Evidence", "", "field", "Slashing")
  /\ Takes(26, "PFM", "", "field", "Ratelimit")
  /\ Takes(28, "PFM", "transfer", "field", "Transfer")
  /\ Takes(31, "Erc20", "", "address", "EVMTransfer")
  /\ Takes(32, "EVM", "", "address", "Erc20")
  /\ Takes(32, "EVM", "", "field", "PreciseBank")
  /\ Takes(33, "EVMTransfer", "", "field", "Erc20")
  /\ Takes(34, "EVM", "precompiles", "deref", "Gov")
  /\ Takes(35, "Wasm", "", "field", "Transfer")
  /\ Takes(36, "TransferStack", "", "field", "PFM")
  /\ Takes(41, "IBC", "router", "field", "TransferStack")
  /\ Takes(42, "IBC", "routerV2", "field", "TransferStackV2")
  /\ Takes(43, "ICAModule", "", "address", "ICAController")
  /\ Takes(47, "GovModule", "", "field", "Gov")
  /\ Takes(48, "StakingModule", "", "field", "Staking")
  /\ Takes(51, "AuthzModule", "", "field", "Authz")
  /\ Takes(53, "IBCModule", "", "field", "IBC")
  /\ Takes(54, "EVMModule", "", "field", "EVM")
  <1>1. /\ Takes(11, "Slashing", "", "field", "Staking")
        /\ Takes(12, "Staking", "hooks", "field", "Distr")
        /\ Takes(12, "Staking", "hooks", "field", "Slashing")
        /\ Takes(12, "Staking", "hooks", "address", "Provider")
    <2>1. /\ Hands(StakingKeepers[11], "Slashing", "", "field", "Staking")
          /\ Hands(StakingKeepers[12], "Staking", "hooks", "field", "Distr")
          /\ Hands(StakingKeepers[12], "Staking", "hooks", "field", "Slashing")
          /\ Hands(StakingKeepers[12], "Staking", "hooks", "address", "Provider")
      BY DEF Hands, StakingKeepers, New, Set, Field, Address, Deref, SetStakingHooks
    <2>2. /\ Statements[11] = StakingKeepers[11] /\ Statements[12] = StakingKeepers[12]
      BY Placed
    <2> QED BY <2>1, <2>2 DEF Takes
  <1>2. /\ Takes(16, "Gov", "", "field", "Provider")
        /\ Takes(17, "Mint", "", "field", "Provider")
        /\ Takes(18, "Provider", "gov", "deref", "Gov")
        /\ Takes(19, "ProviderModule", "", "address", "Provider")
        /\ Takes(21, "Gov", "hooks", "address", "Provider")
        /\ Takes(22, "Evidence", "", "field", "Slashing")
    <2>1. /\ Hands(ProviderAndGov[4], "Gov", "", "field", "Provider")
          /\ Hands(ProviderAndGov[5], "Mint", "", "field", "Provider")
          /\ Hands(ProviderAndGov[6], "Provider", "gov", "deref", "Gov")
          /\ Hands(ProviderAndGov[7], "ProviderModule", "", "address", "Provider")
          /\ Hands(ProviderAndGov[9], "Gov", "hooks", "address", "Provider")
          /\ Hands(ProviderAndGov[10], "Evidence", "", "field", "Slashing")
      BY DEF Hands, ProviderAndGov, New, Set, Field, Address, Deref
    <2>2. /\ Statements[16] = ProviderAndGov[4] /\ Statements[17] = ProviderAndGov[5]
          /\ Statements[18] = ProviderAndGov[6] /\ Statements[19] = ProviderAndGov[7]
          /\ Statements[21] = ProviderAndGov[9] /\ Statements[22] = ProviderAndGov[10]
      BY Placed
    <2> QED BY <2>1, <2>2 DEF Takes
  <1>3. /\ Takes(26, "PFM", "", "field", "Ratelimit")
        /\ Takes(28, "PFM", "transfer", "field", "Transfer")
    <2>1. /\ Hands(PacketKeepers[4], "PFM", "", "field", "Ratelimit")
          /\ Hands(PacketKeepers[6], "PFM", "transfer", "field", "Transfer")
      BY DEF Hands, PacketKeepers, New, Set, Field, Address, Deref
    <2>2. /\ Statements[26] = PacketKeepers[4] /\ Statements[28] = PacketKeepers[6]
      BY Placed
    <2> QED BY <2>1, <2>2 DEF Takes
  <1>4. /\ Takes(31, "Erc20", "", "address", "EVMTransfer")
        /\ Takes(32, "EVM", "", "address", "Erc20")
        /\ Takes(32, "EVM", "", "field", "PreciseBank")
        /\ Takes(33, "EVMTransfer", "", "field", "Erc20")
        /\ Takes(34, "EVM", "precompiles", "deref", "Gov")
        /\ Takes(35, "Wasm", "", "field", "Transfer")
    <2>1. /\ Hands(EvmKeepers[3], "Erc20", "", "address", "EVMTransfer")
          /\ Hands(EvmKeepers[4], "EVM", "", "address", "Erc20")
          /\ Hands(EvmKeepers[4], "EVM", "", "field", "PreciseBank")
          /\ Hands(EvmKeepers[5], "EVMTransfer", "", "field", "Erc20")
          /\ Hands(EvmKeepers[6], "EVM", "precompiles", "deref", "Gov")
          /\ Hands(EvmKeepers[7], "Wasm", "", "field", "Transfer")
      BY DEF Hands, EvmKeepers, New, Set, Field, Address, Deref, NewAvailableStaticPrecompiles
    <2>2. /\ Statements[31] = EvmKeepers[3] /\ Statements[32] = EvmKeepers[4]
          /\ Statements[33] = EvmKeepers[5] /\ Statements[34] = EvmKeepers[6]
          /\ Statements[35] = EvmKeepers[7]
      BY Placed
    <2> QED BY <2>1, <2>2 DEF Takes
  <1>5. /\ Takes(36, "TransferStack", "", "field", "PFM")
        /\ Takes(41, "IBC", "router", "field", "TransferStack")
        /\ Takes(42, "IBC", "routerV2", "field", "TransferStackV2")
        /\ Takes(43, "ICAModule", "", "address", "ICAController")
    <2>1. /\ Hands(Stacks[1], "TransferStack", "", "field", "PFM")
          /\ Hands(Stacks[6], "IBC", "router", "field", "TransferStack")
          /\ Hands(Stacks[7], "IBC", "routerV2", "field", "TransferStackV2")
          /\ Hands(Stacks[8], "ICAModule", "", "address", "ICAController")
      BY DEF Hands, Stacks, New, Set, Field, Address, Deref
    <2>2. /\ Statements[36] = Stacks[1] /\ Statements[41] = Stacks[6]
          /\ Statements[42] = Stacks[7] /\ Statements[43] = Stacks[8]
      BY Placed
    <2> QED BY <2>1, <2>2 DEF Takes
  <1>6. /\ Takes(47, "GovModule", "", "field", "Gov")
        /\ Takes(48, "StakingModule", "", "field", "Staking")
        /\ Takes(51, "AuthzModule", "", "field", "Authz")
        /\ Takes(53, "IBCModule", "", "field", "IBC")
        /\ Takes(54, "EVMModule", "", "field", "EVM")
    <2>1. /\ Hands(appModules[1], "GovModule", "", "field", "Gov")
          /\ Hands(appModules[2], "StakingModule", "", "field", "Staking")
          /\ Hands(appModules[5], "AuthzModule", "", "field", "Authz")
          /\ Hands(appModules[7], "IBCModule", "", "field", "IBC")
          /\ Hands(appModules[8], "EVMModule", "", "field", "EVM")
      BY DEF Hands, appModules, New, Set, Field, Address, Deref
    <2>2. /\ Statements[47] = appModules[1] /\ Statements[48] = appModules[2]
          /\ Statements[51] = appModules[5] /\ Statements[53] = appModules[7]
          /\ Statements[54] = appModules[8]
      BY Placed
    <2> QED BY <2>1, <2>2 DEF Takes
  <1> QED BY <1>1, <1>2, <1>3, <1>4, <1>5, <1>6

\* Every handler finds what it uses. One that relies on what is set later
\* holds an address, or a pointer that was not nil (keeper.go:226-278, 320-392).
LEMMA AllFound == \A u \in Uses : Finds(u)
  <1>1. Finds(Use("StakingModule", "", "Staking", {"hooks"}))
    <2>1. 48 \in 1..55 /\ "Staking" \in Made(55) /\ "Staking" \in Made(48 - 1)
      BY MadeAt
    <2>2. {"hooks"} \subseteq Has(55, "Staking")
      BY HasAt
    <2> QED BY <2>1, <2>2, Takings, LiveUse DEF Pointers
  <1>2. Finds(Use("Staking", "hooks", "Distr", {}))
    <2>1. 12 \in 1..55 /\ "Distr" \in Made(12 - 1)
      BY MadeAt
    <2> QED BY <2>1, Takings, BareUse
  <1>3. Finds(Use("Staking", "hooks", "Slashing", {}))
    <2>1. 12 \in 1..55 /\ "Slashing" \in Made(12 - 1)
      BY MadeAt
    <2> QED BY <2>1, Takings, BareUse
  <1>4. Finds(Use("Staking", "hooks", "Provider", {"gov"}))
    <2>1. 12 \in 1..55 /\ "Provider" \in Made(55)
      BY MadeAt
    <2>2. {"gov"} \subseteq Has(55, "Provider")
      BY HasAt
    <2> QED BY <2>1, <2>2, Takings, LiveUse
  <1>5. Finds(Use("Slashing", "", "Staking", {"hooks"}))
    <2>1. 11 \in 1..55 /\ "Staking" \in Made(55) /\ "Staking" \in Made(11 - 1)
      BY MadeAt
    <2>2. {"hooks"} \subseteq Has(55, "Staking")
      BY HasAt
    <2> QED BY <2>1, <2>2, Takings, LiveUse DEF Pointers
  <1>6. Finds(Use("Evidence", "", "Slashing", {}))
    <2>1. 22 \in 1..55 /\ "Slashing" \in Made(22 - 1)
      BY MadeAt
    <2> QED BY <2>1, Takings, BareUse
  <1>7. Finds(Use("GovModule", "", "Gov", {"router", "hooks"}))
    <2>1. 47 \in 1..55 /\ "Gov" \in Made(55) /\ "Gov" \in Made(47 - 1)
      BY MadeAt
    <2>2. {"router", "hooks"} \subseteq Has(55, "Gov")
      BY HasAt
    <2> QED BY <2>1, <2>2, Takings, LiveUse DEF Pointers
  <1>8. Finds(Use("EVM", "precompiles", "Gov", {"hooks"}))
    <2>1. 34 \in 1..55 /\ "Gov" \in Made(34 - 1)
      BY MadeAt
    <2>2. {"hooks"} \subseteq Has(34 - 1, "Gov")
      BY HasAt
    <2> QED BY <2>1, <2>2, Takings, CopyUse
  <1>9. Finds(Use("Gov", "", "Provider", {}))
    <2>1. 16 \in 1..55 /\ "Provider" \in Made(16 - 1)
      BY MadeAt
    <2> QED BY <2>1, Takings, BareUse
  <1>10. Finds(Use("Mint", "", "Provider", {}))
    <2>1. 17 \in 1..55 /\ "Provider" \in Made(17 - 1)
      BY MadeAt
    <2> QED BY <2>1, Takings, BareUse
  <1>11. Finds(Use("Gov", "hooks", "Provider", {"gov"}))
    <2>1. 21 \in 1..55 /\ "Provider" \in Made(55)
      BY MadeAt
    <2>2. {"gov"} \subseteq Has(55, "Provider")
      BY HasAt
    <2> QED BY <2>1, <2>2, Takings, LiveUse
  <1>12. Finds(Use("Provider", "gov", "Gov", {}))
    <2>1. 18 \in 1..55 /\ "Gov" \in Made(18 - 1)
      BY MadeAt
    <2> QED BY <2>1, Takings, BareUse
  <1>13. Finds(Use("ProviderModule", "", "Provider", {"gov"}))
    <2>1. 19 \in 1..55 /\ "Provider" \in Made(55)
      BY MadeAt
    <2>2. {"gov"} \subseteq Has(55, "Provider")
      BY HasAt
    <2> QED BY <2>1, <2>2, Takings, LiveUse
  <1>14. Finds(Use("AuthzModule", "", "Authz", {"bank"}))
    <2>1. 51 \in 1..55 /\ "Authz" \in Made(51 - 1)
      BY MadeAt
    <2>2. {"bank"} \subseteq Has(51 - 1, "Authz")
      BY HasAt
    <2> QED BY <2>1, <2>2, Takings, CopyUse DEF Pointers
  <1>15. Finds(Use("TransferStack", "", "PFM", {"transfer"}))
    <2>1. 36 \in 1..55 /\ "PFM" \in Made(55) /\ "PFM" \in Made(36 - 1)
      BY MadeAt
    <2>2. {"transfer"} \subseteq Has(55, "PFM")
      BY HasAt
    <2> QED BY <2>1, <2>2, Takings, LiveUse DEF Pointers
  <1>16. Finds(Use("PFM", "transfer", "Transfer", {}))
    <2>1. 28 \in 1..55 /\ "Transfer" \in Made(28 - 1)
      BY MadeAt
    <2> QED BY <2>1, Takings, BareUse
  <1>17. Finds(Use("PFM", "", "Ratelimit", {}))
    <2>1. 26 \in 1..55 /\ "Ratelimit" \in Made(26 - 1)
      BY MadeAt
    <2> QED BY <2>1, Takings, BareUse
  <1>18. Finds(Use("IBCModule", "", "IBC", {"router", "routerV2"}))
    <2>1. 53 \in 1..55 /\ "IBC" \in Made(55) /\ "IBC" \in Made(53 - 1)
      BY MadeAt
    <2>2. {"router", "routerV2"} \subseteq Has(55, "IBC")
      BY HasAt
    <2> QED BY <2>1, <2>2, Takings, LiveUse DEF Pointers
  <1>19. Finds(Use("IBC", "router", "TransferStack", {}))
    <2>1. 41 \in 1..55 /\ "TransferStack" \in Made(41 - 1)
      BY MadeAt
    <2> QED BY <2>1, Takings, BareUse
  <1>20. Finds(Use("IBC", "routerV2", "TransferStackV2", {}))
    <2>1. 42 \in 1..55 /\ "TransferStackV2" \in Made(42 - 1)
      BY MadeAt
    <2> QED BY <2>1, Takings, BareUse
  <1>21. Finds(Use("ICAModule", "", "ICAController", {"wrapper"}))
    <2>1. 43 \in 1..55 /\ "ICAController" \in Made(55)
      BY MadeAt
    <2>2. {"wrapper"} \subseteq Has(55, "ICAController")
      BY HasAt
    <2> QED BY <2>1, <2>2, Takings, LiveUse
  <1>22. Finds(Use("EVMModule", "", "EVM", {"precompiles"}))
    <2>1. 54 \in 1..55 /\ "EVM" \in Made(55) /\ "EVM" \in Made(54 - 1)
      BY MadeAt
    <2>2. {"precompiles"} \subseteq Has(55, "EVM")
      BY HasAt
    <2> QED BY <2>1, <2>2, Takings, LiveUse DEF Pointers
  <1>23. Finds(Use("EVM", "", "Erc20", {}))
    <2>1. 32 \in 1..55 /\ "Erc20" \in Made(32 - 1)
      BY MadeAt
    <2> QED BY <2>1, Takings, BareUse
  <1>24. Finds(Use("EVM", "", "PreciseBank", {}))
    <2>1. 32 \in 1..55 /\ "PreciseBank" \in Made(32 - 1)
      BY MadeAt
    <2> QED BY <2>1, Takings, BareUse
  <1>25. Finds(Use("Erc20", "", "EVMTransfer", {}))
    <2>1. 31 \in 1..55 /\ "EVMTransfer" \in Made(55)
      BY MadeAt
    <2>2. {} \subseteq Has(55, "EVMTransfer")
      OBVIOUS
    <2> QED BY <2>1, <2>2, Takings, LiveUse
  <1>26. Finds(Use("EVMTransfer", "", "Erc20", {}))
    <2>1. 33 \in 1..55 /\ "Erc20" \in Made(33 - 1)
      BY MadeAt
    <2> QED BY <2>1, Takings, BareUse
  <1>27. Finds(Use("Wasm", "", "Transfer", {}))
    <2>1. 35 \in 1..55 /\ "Transfer" \in Made(35 - 1)
      BY MadeAt
    <2> QED BY <2>1, Takings, BareUse
  <1> QED BY <1>1, <1>2, <1>3, <1>4, <1>5, <1>6, <1>7, <1>8, <1>9, <1>10, <1>11, <1>12,
    <1>13, <1>14, <1>15, <1>16, <1>17, <1>18, <1>19, <1>20, <1>21, <1>22, <1>23, <1>24,
    <1>25, <1>26, <1>27 DEF Uses

-----------------------------------------------------------------------------
\* In every node that serves the handlers find the keepers they reach, made and
\* with all that was set of them, over mounted stores (keeper.go:226-278,
\* 320-392, 443-467, 484-529, 573-620, app.go:280-282, keys.go:40-67).
THEOREM KeepersWired == Spec => []KeepersAreWired
  <1>1. IInv => KeepersAreWired
    BY StoresAre, AllFound DEF IInv, ServingInv, KeepersAreWired, Ready
  <1> QED
    BY <1>1, InvHolds, PTL

-----------------------------------------------------------------------------
\* Why a process panics, carried along the steps.
LEMMA PanicStep ==
  ASSUME IInv, ProcessPanicsForCause, [Next]_vars
  PROVE  ProcessPanicsForCause'
  <1> DEFINE Causes == <<cmd, genesis, plan, pinned, info, height, broken>>
  <1> USE DEF chainVars, diskVars
  <1>1. ASSUME UNCHANGED Causes, MissingForStart \/ StoppedByPlan
        PROVE  ProcessPanicsForCause'
    BY <1>1 DEF ProcessPanicsForCause, MissingForStart, StoppedByPlan, NoSettings
  <1>2. CASE phase = "panicked" /\ phase' = "panicked"
    <2>1. UNCHANGED Causes
      BY <1>2 DEF Next, Launch, Process, DecideOne, NewEchofiApp, NewRootCmd, ConfigureEVM,
        MakeKeepers, SetHandlers, LoadLatestVersion, InitializePinnedCodes, Building, Starting,
        RunCommand, newApp, appExport, BuildFor, LoadHeight, Serve, Decide, PreBlocker, Commit,
        DumpUpgradeInfo, Exit, Kill, Down, InitHome, SkipUpgrade, BreakOne, Break, Repair,
        ChainEnds, vars
    <2> QED
      BY <1>1, <1>2, <2>1 DEF ProcessPanicsForCause
  <1>3. CASE phase # "panicked" /\ phase' = "panicked"
    <2>1. ASSUME NEW c \in Commands, NewRootCmd(c) PROVE ProcessPanicsForCause'
      <3>1. "tmp" \in broken /\ broken' = broken
        BY <1>3, <2>1 DEF NewRootCmd
      <3> QED
        BY <3>1 DEF ProcessPanicsForCause, MissingForStart
    <2>2. ASSUME ConfigureEVM PROVE FALSE
      <3>1. app.chain = EVMChainID
        BY DEF IInv, AppType
      <3>2. ~OptionsFail(app.chain)
        BY <3>1, <2>2, BoundsAssumption DEF OptionsFail, IInv, ConfigInv
      <3> QED
        BY <1>3, <2>2, <3>2 DEF ConfigureEVM, Step
    <2>3. CASE NewEchofiApp /\ ~ConfigureEVM
      <3>1. phase \in {"root", "command"} /\ app # NoApp
        BY <2>3 DEF NewEchofiApp, MakeKeepers, SetHandlers, LoadLatestVersion,
          InitializePinnedCodes, Building
      <3>2. /\ phase = "root" => app.home = "temp" /\ PinnedWhenLoaded = {}
            /\ phase = "command" => app.home = "real" /\ cmd.home = "real"
        BY <3>1 DEF IInv, BuildInv, NewApp, PinnedWhenLoaded
      <3>3. phase = "command" /\ at \in {"load", "pinWasm", "pinWasmClient"} => cmd.height = Latest
        BY <3>1 DEF IInv, BuildInv, LoadInv
      <3>4. CASE MakeKeepers
        <4>1. at = "keepers" /\ ~(\E k \in VMs : <<app.home, k>> \in open)
          BY <3>1, <3>4 DEF MakeKeepers, Building, IInv, BuildInv
        <4>2. Panic /\ app.home = "real" /\ "vm" \in broken
          BY <1>3, <3>4, <4>1, ConstructorsDoNotPanic DEF MakeKeepers, Step
        <4>3. MissingForStart /\ UNCHANGED Causes
          BY <3>1, <3>2, <4>2 DEF MissingForStart, Panic
        <4> QED
          BY <1>1, <4>3
      <3>5. CASE SetHandlers
        <4>1. loaded = NotLoaded
          BY <3>5 DEF SetHandlers, Building, IInv, BuildInv
        <4>2. Panic /\ app.home = "real" /\ info = Torn
          BY <1>3, <3>5, <4>1 DEF SetHandlers, setupUpgradeStoreLoaders, Step
        <4>3. MissingForStart /\ UNCHANGED Causes
          BY <3>1, <3>2, <4>2 DEF MissingForStart, Panic
        <4> QED
          BY <1>1, <4>3
      <3>6. CASE LoadLatestVersion
        <4>1. Panic /\ at = "load" /\ app.home = "real" /\ "store" \in broken
          BY <1>3, <3>6 DEF LoadLatestVersion, Building, Step
        <4>2. MissingForStart /\ UNCHANGED Causes
          BY <3>1, <3>2, <3>3, <4>1 DEF MissingForStart, Panic
        <4> QED
          BY <1>1, <4>2
      <3>7. ASSUME NEW k, NEW next,
                   \/ InitializePinnedCodes(k, "pinWasm", next)
                   \/ InitializePinnedCodes(k, "pinWasmClient", next)
            PROVE  ProcessPanicsForCause'
        <4>1. Panic /\ at \in {"pinWasm", "pinWasmClient"} /\ k \in PinnedWhenLoaded \intersect broken
          BY <1>3, <3>7 DEF InitializePinnedCodes, Building, Step
        <4>2. k \in pinned \intersect broken /\ phase = "command"
          BY <3>1, <3>2, <4>1 DEF PinnedWhenLoaded
        <4>3. MissingForStart /\ UNCHANGED Causes
          BY <3>2, <3>3, <4>1, <4>2 DEF MissingForStart, Panic
        <4> QED
          BY <1>1, <4>3
      <3> QED
        BY <2>3, <3>4, <3>5, <3>6, <3>7 DEF NewEchofiApp
    <2>4. ASSUME RunCommand PROVE FALSE
      <3>1. sealed
        BY <2>4 DEF RunCommand, Building, IInv, ConfigInv
      <3> QED
        BY <1>3, <2>4, <3>1 DEF RunCommand, OptionsFail
    <2>5. ASSUME LoadHeight PROVE FALSE
      <3>1. cmd.height # Latest => loaded = NotLoaded
        BY <2>5 DEF LoadHeight, Building, IInv, BuildInv, LoadInv
      <3> QED
        BY <1>3, <2>5, <3>1 DEF LoadHeight
    <2>6. CASE newApp
      <3>1. MissingForStart /\ UNCHANGED Causes
        BY <1>3, <2>6 DEF newApp, BuildFor, Panic, MissingForStart
      <3> QED
        BY <1>1, <3>1
    <2>7. CASE DumpUpgradeInfo
      <3>1. /\ plan # 0 /\ plan <= height + 1 /\ height + 1 \notin app.skip
            /\ info' = height + 1 /\ UNCHANGED <<chainVars, cmd>>
        BY <2>7 DEF DumpUpgradeInfo, IInv, ChainInv
      <3>2. cmd.does = "start" /\ app.skip = cmd.skip
        BY <2>7 DEF DumpUpgradeInfo, IInv, ServingInv
      <3> QED
        BY <3>1, <3>2 DEF ProcessPanicsForCause, StoppedByPlan
    <2> QED
      BY <1>3, <2>1, <2>2, <2>3, <2>4, <2>5, <2>6, <2>7 DEF Next, Launch, Process, DecideOne,
        appExport, BuildFor, Fail, Serve, Decide, PreBlocker, Commit, Exit, Kill, Down, InitHome,
        SkipUpgrade, BreakOne, Break, Repair, ChainEnds, vars
  <1> QED
    BY <1>2, <1>3 DEF ProcessPanicsForCause

\* A process panics for what the disk lacks, a torn upgrade-info.json included,
\* or for a plan that was not skipped; of the causes in its own memory, the
\* second application, locks, settings and keepers, none ever arises
\* (cmd.go:39-47 and 141, command.go:121-152, app.go:326-362, 436-440,
\* evm_config.go:38-78).
THEOREM PanicsOnlyForCause == Spec => []ProcessPanicsForCause
  <1>1. Init => ProcessPanicsForCause
    BY DEF Init, ProcessPanicsForCause
  <1>2. IInv /\ ProcessPanicsForCause /\ [Next]_vars => ProcessPanicsForCause'
    BY PanicStep
  <1> QED
    BY <1>1, <1>2, InvHolds, PTL DEF Spec
=============================================================================
