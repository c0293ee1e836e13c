SPECIFICATION Spec
CONSTANTS
  N = 3
  MaxValidators = 2
  MaxProviderConsensusValidators = 1
  Registered = {"staking"}
  OrderExport = {"staking", "crisis"}
  MaxPower = 2
  MaxHeight = 3
  MaxEntries = 1
  MaxListed = 2
INVARIANTS
  TypeOK
  ExportedSetIsConsensusSet
  NoOldHeights
  PanicsForCause
  ExportedAreAllowed
