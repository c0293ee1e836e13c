SPECIFICATION Spec
CONSTANTS
  Account = {"ann", "bob"}
  Tx <- MCTx
  KeyType <- MCKeyType
  Funds = 2
  MaxHeight = 2
INVARIANTS
  TypeOK
  AtMostOnce
  RefusedForCause
PROPERTY
  ImplementsLedger
