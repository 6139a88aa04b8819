SPECIFICATION FairSpec
CONSTANTS
  Intents <- MCIntents
  Types <- MCTypes
  Matrix <- MCMatrix
  NoIntent = nointent
  NoType = "notype"
  Unknown = unknown
  Chore = "chore"
  Guidances <- MCGuidances
  NoGuidance = noguidance
  DirectiveOf <- MCDirectiveOf
  ScopeOnly = "scope"
  WordCodes = {"GOLD_BODY_GENERIC"}
  InfoCodes = {"GOLD_SPLIT_PREFERRED"}
  Issues = {1}
  Verbs = {"Refs", "Closes"}
  NoFile = nofile
  Configs <- AllConfigs
  ContextSet <- MCContexts
INVARIANTS
  TypeOK
  ReAnchorAgrees
  StrictCommitsClean
  LockHonoured
  FloorOrSkeleton
  AcceptedIsPresented
  ExitTellsTruth
PROPERTIES
  MenuAsPromised
  Responsive
