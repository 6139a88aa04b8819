SPECIFICATION Spec
CONSTANTS
  d1 = d1
  d2 = d2
  e1 = e1
  e2 = e2
  r = r
  Drainers <- MCDrainers
  Enqueuers <- MCEnqueuers
  Retry = r
  NoOne = noone
  Profiles <- CrashProfiles
  FaultCap = 3
  UploadCap = 3
INVARIANTS
  DrainNeverRaises
