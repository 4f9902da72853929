SPECIFICATION Spec
CONSTANTS
  Calls = {c1}
  MaxRetries = 2
INVARIANTS
  TypeOK
  NoDuplicateEffect
  RefusalIsFinal
  TransientFaultsMasked
PROPERTIES
  EveryCallReturns
  ImplementsRemoteCall
