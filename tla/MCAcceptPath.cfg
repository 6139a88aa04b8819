SPECIFICATION Spec
CONSTANTS
  h1 = h1
  h2 = h2
  m1 = m1
  m2 = m2
  s1 = s1
  s2 = s2
  None = None
  Hooks <- MCHooks
  Messages <- MCMessages
  Sessions <- MCSessions
  MaxGens = 2
  Profiles <- MCProfiles
SYMMETRY Symmetry
INVARIANTS
  OneSessionPerMessage
  RecordedOnce
PROPERTIES
  SessionKeepsMessage
CHECK_DEADLOCK FALSE
