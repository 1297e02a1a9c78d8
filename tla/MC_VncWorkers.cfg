CONSTANTS
  MaxCommands = 2
  MaxShots = 2
SPECIFICATION FairSpec
INVARIANTS TypeOK AnsweredAsAsked OneLateShot NoDumperForgotten CaptureHasItsLog
PROPERTIES WorkersEnd
CHECK_DEADLOCK FALSE
