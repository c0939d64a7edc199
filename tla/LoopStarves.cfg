SPECIFICATION Spec
CONSTANTS
  SummarizeThreshold = 1
  DumpInterval = 10
  DumpThreshold = 4
  MaxRecent = 20
  MaxTurns = 6
  MaxAnswers = 3
  MaxCommands = 2
  TokenCosts <- MCTokenCosts
  Faults <- MCNoFaults
INVARIANT LoopNeverBlind
