SPECIFICATION Spec
CONSTANTS
  None = None
  s1 = s1
  s2 = s2
  s3 = s3
  s4 = s4
  gone = gone
  th1 = th1
  th2 = th2
  Ids <- MCIds
  Threads <- MCThreads
  Suites <- MCSuites
INVARIANTS
  TreeSound
  SharedThreadCaught
  GoldenIsWitnessed
PROPERTIES
  SuiteEnds
CHECK_DEADLOCK FALSE
