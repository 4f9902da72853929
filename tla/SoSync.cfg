SPECIFICATION Spec
CONSTANTS
  Paths <- MCPaths
  Places <- MCPlaces
  Scenarios <- MCScenarios
  Workers = 2
  PageSize = 1
  MaxRuns = 2
  MaxForeign = 1
INVARIANTS
  TypeOK
  MirrorOnSuccess
  LossOnlyAfterMirror
  OnlyDestinationChanges
  ArrivalsSurvive
PROPERTIES
  RunEnds
