SPECIFICATION FairSpec
CONSTANTS
  Msgs = {"pair", "short"}
  Size <- SizePairShort
  PartBytes = 2
  MaxBytes = 5
  Window = 2
  MaxInFlight = 1
  TTLTicks = 1
  MayDuplicate = FALSE
CHECK_DEADLOCK FALSE
PROPERTIES
  EventuallyDelivered
  EventuallyFinished
  StaleEntriesExpire
