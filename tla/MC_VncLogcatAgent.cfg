CONSTANTS
  MaxRuns = 2
  MaxConns = 1
SPECIFICATION FairSpec
INVARIANTS OneThread NothingForgotten
PROPERTIES SessionCloses FlagEndsThread
CHECK_DEADLOCK FALSE
