SPECIFICATION Spec
CONSTANTS
  MaxPackets = 3
  MaxEpoch = 1
  MaxRecv = 1
  MaxSend = 1
  Supply = 2
  AtHome = {"A", "E"}
  Abroad = {"B"}
INVARIANTS
  TypeOK
  EscrowBacksVouchers
  FlowsCounted
  QuotasHold
PROPERTIES
  ImplementsTransfers
  TransfersEnd
CHECK_DEADLOCK FALSE
