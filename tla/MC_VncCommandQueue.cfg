CONSTANTS
  Producers = {p1, p2, alarm}
  Handler = alarm
  Members = {p1, c1}
  Consumers = {c1}
  NoThread = none
  Usecs <- MCUsecs
  MaxPackages = 1
SPECIFICATION AlarmSpec
INVARIANTS ExactlyOnceInOrder
PROPERTIES ChannelWhileServed HandlerEnds
CHECK_DEADLOCK FALSE
