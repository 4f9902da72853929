SPECIFICATION Spec
CONSTANTS
  MaxOps = 3
  MaxCodes = 3
  Expiry = 3
  MaxSleep = 2
INVARIANTS
  TypeOK
  CodeOnce
PROPERTIES
  LoginEnds
