SPECIFICATION FairSpec
CONSTANTS
  Peers = {"alice", "bob"}
  Tag <- TagOf
  Wants <- WantsOf
  NoPeer = NoPeer
  Proxied = {}
  MaxPending = 2
  MaxRequests = 1
  Sweeps = {1}
CHECK_DEADLOCK FALSE
PROPERTY PendingDisconnects
