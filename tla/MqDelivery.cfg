SPECIFICATION Spec
CONSTANTS
  Messages <- MCMessages
  Beginnings <- MCBeginnings
  Batches <- MCBatches
  NoId <- MCNoId
  BatchMax = 2
  MaxRetries = 1
  MaxCalls = 3
  MaxPending = 1
  MaxExpiries = 1
INVARIANTS
  TypeOK
  NothingLost
  AckRemovesOnlyHandled
  PurgeSparesLater
PROPERTY
  ImplementsMailbox
