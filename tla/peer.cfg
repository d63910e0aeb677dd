SPECIFICATION FairSpec
CONSTANTS
  Addrs = {r, d}
  Relay = r
  Distant = d
  MaxSessions = 2
CHECK_DEADLOCK FALSE
INVARIANTS
  TypeOK
  SessionsCanSpeak
  EndIsClean
  OneReason
  OutcomeMatchesReason
  ConnectedHasSession
PROPERTIES
  PromisesSettle
  AttemptEnds
  ClosingEnds
