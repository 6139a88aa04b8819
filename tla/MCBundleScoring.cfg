SPECIFICATION Spec
CONSTANTS
  None = None
  craft = craft
  relevance = relevance
  Judged <- MCJudged
  Cases <- MCCases
INVARIANTS
  JudgeMovesNoGate
  CountersTellTheCalls
CHECK_DEADLOCK FALSE
