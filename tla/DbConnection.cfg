SPECIFICATION Spec
CONSTANTS
  Cap = 2
  MaxQueries = 3
  MaxSignals = 2
INVARIANTS DbInv
PROPERTIES EveryAnswerHandled StopEnds
CHECK_DEADLOCK FALSE
