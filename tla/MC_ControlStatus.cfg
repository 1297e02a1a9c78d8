CONSTANTS
  MaxDecisions = 2
  MaxMessages = 1
  MaxSleeping = 1
  Faults <- AllFaults
SPECIFICATION Spec
CONSTRAINT NotYetCrossed
INVARIANTS  BarFollowsStatus ControlIsSeen StatusIsFree
CHECK_DEADLOCK FALSE
