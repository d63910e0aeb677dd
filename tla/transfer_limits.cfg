SPECIFICATION Spec
CONSTANTS
  Msgs = {"edge", "pair"}
  Size <- SizeEdgePair
  PartBytes = 2
  MaxBytes = 3
  Window = 2
  MaxInFlight = 1
  TTLTicks = 2
  MayDuplicate = FALSE
CHECK_DEADLOCK FALSE
INVARIANTS
  OnlyDeliverableEmitted
  CollectorBounded
