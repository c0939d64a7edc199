SPECIFICATION Spec
CONSTANTS
  w1 = w1
  w2 = w2
  Workers <- MCWorkers
  Playouts = 3
  KeepSession = TRUE
  ExitExpected = FALSE
  Faults <- MCAllFaults
INVARIANTS
  MctsTypeOK
  CountersAddUp
  BreadthBounded
  EveryNodePersisted
  SuccessIsReturned
PROPERTIES
  SearchEnds
  ImplementsSearch
