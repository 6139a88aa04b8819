CONSTANTS
  p1 = p1  p2 = p2  e1 = e1  e2 = e2  c1 = c1  c2 = c2
  m1 = m1  m2 = m2  b1 = b1  b2 = b2
  None = None  Broken = Broken
  Procs = {p1, p2}
  Exps = {e1, e2}
  Cases = {c1, c2}
  Metrics = {m1, m2}
  Bundles = {b1, b2}
  MaxCommands = 2
  Results <- MCResults
  Sources <- MCSources
  BundleOf <- MCBundleOf
  Stores <- MCStores
  DoctorWorlds <- MCDoctorWorlds
  Filters <- MCFilters
  Captures <- MCCaptures
  Versions <- MCVersions
  Environments <- MCEnvironments
  Remotes <- MCRemotes
  Queues <- MCQueues
SPECIFICATION Spec
SYMMETRY Symmetry
INVARIANTS
  VerdictTellsTruth
  NothingDangles
  TriageSpeaksOfOneRun
PROPERTIES
  IssueMovesByTheMatrix
CHECK_DEADLOCK FALSE
