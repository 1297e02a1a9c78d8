CONSTANTS
  MaxDecisions = 2
  MaxMessages = 1
  MaxSleeping = 1
  Faults = {}
SPECIFICATION Spec
INVARIANTS BarTellsTheTruth
CHECK_DEADLOCK FALSE
