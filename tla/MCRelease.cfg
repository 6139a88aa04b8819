SPECIFICATION ReleaseSpec
CONSTANTS
  Commits <- MCCommits
  Requests <- MCRequests
  Foreign <- MCForeign
  Starts <- MCStarts
  MaxLog = 3
  MaxPart = 3
  MaxTags = 2
  MaxTries = 3
  Nothing = Nothing
INVARIANTS
  TagsAreCuts
CHECK_DEADLOCK FALSE
