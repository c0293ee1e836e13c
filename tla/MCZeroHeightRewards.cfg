SPECIFICATION Spec
CONSTANTS
  Validator = {v1, v2}
  Delegator = {d1, d2}
  Scale = 2
  MaxRunPeriod = 4
  MaxHeight = 3
SYMMETRY Symmetry
INVARIANTS
  TypeOK
  BooksBalance
  ReferencesCounted
  NeverPanics
  DelegatorsArePaid
  FreshStart
