CONSTANTS
  MaxSockets = 2
  MaxTries = 2
  MaxSize = 2
  MaxInt = 3
SPECIFICATION FairSpec
INVARIANTS SocketHasItsReader
PROPERTIES StopIsHeard CommandsEnd
CHECK_DEADLOCK FALSE
