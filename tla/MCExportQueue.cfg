SPECIFICATION FairSpec
CONSTANTS
  d1 = d1
  d2 = d2
  e1 = e1
  e2 = e2
  r = r
  Drainers <- MCDrainers
  Enqueuers <- MCEnqueuers
  Retry = r
  NoOne = noone
  Profiles <- AllProfiles
  FaultCap = 3
  UploadCap = 4
INVARIANTS
  OneUploader
  UploadedOnce
PROPERTIES
  StatusesMoveLegally
  EventuallySent
