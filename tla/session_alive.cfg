SPECIFICATION FairSpec
CONSTANTS
  Ends = {a, b}
  Retries = 10
  Fins = 5
  SilenceTicks = 4
  MayLose = FALSE
  MayCrash = FALSE
  MayClose = FALSE
  Timely = TRUE
PROPERTIES
  KeptAlive
  HandshakeSucceeds
