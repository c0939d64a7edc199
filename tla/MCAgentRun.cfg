SPECIFICATION RunSpec
CONSTANTS
  SummarizeThreshold = 2
  DumpInterval = 2
  DumpThreshold = 100
  MaxRecent = 3
  MaxTurns = 3
  MaxAnswers = 2
  MaxCommands = 1
  TokenCosts <- MCTokenCosts
  KeepSession = FALSE
  Faults <- MCLoopFaults
  RunFaults <- MCAllRunFaults
INVARIANTS
  RunTypeOK
  ReleasedAtEnd
  RecordMatchesLedger
PROPERTIES
  EventuallyReleased
  ImplementsLedger
