SPECIFICATION Spec
CONSTANTS
  N = 3
  MaxValidators = 2
  MaxPower = 2
  MaxBaseFee = 2
  MaxHeight = 3
INVARIANTS
  TypeOK
  NothingLeftOver
  SetFollowsStaking
  GenesisSetComplete
