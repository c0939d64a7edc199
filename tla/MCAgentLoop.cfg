SPECIFICATION Spec
CONSTANTS
  SummarizeThreshold = 2
  DumpInterval = 2
  DumpThreshold = 100
  MaxRecent = 2
  MaxTurns = 5
  MaxAnswers = 3
  MaxCommands = 2
  TokenCosts <- MCTokenCosts
  Faults <- MCAllFaults
INVARIANTS
  TypeOK
  StepAccounting
  RecentIsSuffix
  NoDoubleSubmit
  CheckpointSkipsOnlyEvicted
  CompletionIsLogged
  LoopNeverBlind
PROPERTIES
  SuccessNeedsTwoClaims
