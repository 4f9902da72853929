SPECIFICATION Spec
CONSTANTS
  Threads = {t1}
  Size = 2
  MaxRetries = 2
  MaxTransfers = 1
  MaxCloses = 1
INVARIANTS
  PipeUploadedWhole
