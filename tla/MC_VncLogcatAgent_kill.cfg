CONSTANTS
  MaxRuns = 2
  MaxConns = 2
SPECIFICATION Spec
INVARIANTS KillsOnlyLogcat
CHECK_DEADLOCK FALSE
