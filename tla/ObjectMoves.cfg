SPECIFICATION Spec
CONSTANTS
  Keys = {1, 2, 3}
  PageSize = 1
  MaxRetries = 1
  MaxOps = 2
  MaxForeign = 1
  MaxLate = 1
INVARIANTS
  TypeOK
  MoveKeepsObject
  ListComplete
  WipeClears
