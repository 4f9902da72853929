SPECIFICATION Spec
CONSTANTS
  Threads = {t1, t2}
  Size = 2
  MaxRetries = 1
  MaxTransfers = 3
  MaxCloses = 2
INVARIANTS
  TypeOK
  SuccessIsWhole
  ProgressCovers
  OneOpenClient
