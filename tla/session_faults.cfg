SPECIFICATION FairSpec
CONSTANTS
  Ends = {a, b}
  Retries = 2
  Fins = 2
  SilenceTicks = 1
  MayLose = TRUE
  MayCrash = TRUE
  MayClose = TRUE
  Timely = FALSE
INVARIANTS
  TypeOK
  ConnectedIsBacked
PROPERTIES
  OneSidedResolves
  TransientEnds
