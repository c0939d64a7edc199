SPECIFICATION Spec
CONSTANTS
  SummarizeThreshold = 1
  DumpInterval = 10
  DumpThreshold = 100
  MaxRecent = 20
  MaxTurns = 3
  MaxAnswers = 5
  MaxCommands = 1
  TokenCosts <- MCTokenCosts
  Faults <- MCSendFails
INVARIANT OutcomeIsFinal
