SPECIFICATION Spec
CONSTANTS
  Msgs = {"long", "empty", "overlong"}
  Size <- SizeLong
  PartBytes = 2
  MaxBytes = 5
  Window = 2
  MaxInFlight = 1
  TTLTicks = 1
  MayDuplicate = TRUE
CHECK_DEADLOCK FALSE
INVARIANTS
  TypeOK
  AcknowledgedIsHeld
  FinishedMeansDelivered
  ResendPending
  WindowRespected
PROPERTY ChannelSpec
