CONSTANTS
  NumPkgs = 5
  Start <- MCStart
  MaxRead = 38
  InitAlloc = 30
  Byte = 16
  Minus = 10
  Url = 11
  Path = 12
  Size = 13
  Crc32 <- MCCrc32
  Sent <- MCSent
  T2P_CMD_REMOTE_PUSH_FILE = 22
  Producers = {reader}
  Consumers = {processor}
  Reader = reader
  Processor = processor
  NoThread = none
  Usecs <- MCUsecs
  MaxPackages = 5
SPECIFICATION PathSpec
INVARIANTS PackagesIntact NoneHeldBack CacheBounded ContentsArrive 
PROPERTIES CommandsArrive
CHECK_DEADLOCK FALSE
