SPECIFICATION Spec
CONSTANTS
  Paths <- MCPaths
  Places <- MCPlaces
  Scenarios <- MCSingleObject
  Workers = 2
  PageSize = 1
  MaxRuns = 2
  MaxForeign = 0
INVARIANTS
  DownloadedFilesStay
