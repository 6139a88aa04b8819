SPECIFICATION MenuFairSpec
CONSTANTS
  Intents <- MCIntents
  Types <- MCTypes
  Matrix <- MCMatrix
  NoIntent = nointent
  NoType = "notype"
  Unknown = unknown
  Chore = "chore"
  Settings <- MCSettings
  TypeOf <- MCTypeOf
  Guidances <- MCGuidances
  NoGuidance = noguidance
  DirectiveOf <- MCDirectiveOf
  ScopeOnly = "scope"
  StreakLimit = 8
PROPERTIES
  MenuKeepsPromise
  UnattendedEnds
