CONSTANTS
  s1 = s1
  s2 = s2
  Sessions <- MC_Sessions
  NoSession = NoSession
  Outsider = Outsider
  SrvIds <- Armed
  Hanging <- NoneHangs
SPECIFICATION Spec
CONSTRAINT NotYetOverlapped
INVARIANTS TypeOK MisuseOnlyByOverlap LiveSessionIsWhole
PROPERTIES TornDownWhenDue TakesTurns
CHECK_DEADLOCK FALSE
