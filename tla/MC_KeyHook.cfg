CONSTANTS
  MaxHooks = 2
  MaxEvents = 5
  Gaps <- MCGaps
  Limit = 2
  Half = 8
  PerRead = 2
SPECIFICATION Spec
INVARIANTS TypeOK ExitsAsDue
PROPERTIES EventsAreHandled
CONSTRAINT NotTwice
CHECK_DEADLOCK FALSE
