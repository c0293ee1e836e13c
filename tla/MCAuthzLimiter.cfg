SPECIFICATION Spec
CONSTANTS
  NumMsgs = 5
  MaxNestedMsgs = 4
  Url <- MCUrl
  DisabledMsgTypes <- MCDisabled
  Txs <- MCTxs
INVARIANTS
  TypeOK
  AcceptedIsClean
  RejectedForCause
  RecursionIsBounded
PROPERTIES
  ImplementsPolicy
