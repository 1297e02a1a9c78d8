CONSTANTS
  s1 = s1
  s2 = s2
  Sessions <- OneSession
  NoSession = NoSession
  Outsider = Outsider
  SrvIds <- Armed
  Hanging <- Armed
SPECIFICATION FairSpec
PROPERTIES EventuallyReleased
CHECK_DEADLOCK FALSE
