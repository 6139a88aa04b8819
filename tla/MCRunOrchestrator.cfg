SPECIFICATION Spec
CONSTANTS
  r1 = r1
  r2 = r2
  h1 = h1
  h2 = h2
  None = None
  Runners <- MCRunners
  Hashes <- MCHashes
  Ids <- MCIds
  Cases <- MCCases
  MaxClock = 2
  Suites <- MCSuites
  KeepLasts <- MCKeepLasts
  Bounds <- MCBounds
  Profiles <- MCProfiles
SYMMETRY Symmetry
INVARIANTS
  ResultsBehindCheckpoint
  NoCaseLost
  CompletedMeansClean
PROPERTIES
  FailedKept
CHECK_DEADLOCK FALSE
