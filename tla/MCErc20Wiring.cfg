SPECIFICATION Spec
CONSTANTS
  MaxHeight = 3
  MaxFaults = 2
  KeepRecent = 2
  EVMChainID = 1
  ChainsCoinInfo = {1}
  Plans = {2}
INVARIANT
  ConversionReachesEVM
