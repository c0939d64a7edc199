SPECIFICATION Spec
CONSTANTS
  Height = 2
  HistoryLimit = 2
  TailLimit = 3
  MaxLength = 3
  BlockingMax = 3
  MaxDuration = 1
  PollInterval = 2
  MaxExec = 1
  Durations <- MCDurations
  Texts <- MCTexts
  MaxCommands = 2
  MaxOutput = 1
INVARIANTS
  TerminalTypeOK
  NoSilentGap
  EnteredInOrder
  ChunksAreTight
  WaitIsBounded
PROPERTY ResetHasCause
