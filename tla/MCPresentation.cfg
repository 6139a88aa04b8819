SPECIFICATION Spec
CONSTANTS
  None = None
  Facts <- MCFacts
  Stem <- MCStem
  Inputs <- MCInputs
  Answers <- MCAnswers
  MaxRegens = 2
INVARIANTS
  CleanOrSkeleton
  JudgesAgree
  OverlayIsStable
  BlueprintHonoured
