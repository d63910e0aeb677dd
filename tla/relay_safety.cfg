SPECIFICATION Spec
CONSTANTS
  Peers = {"alice", "bob", "carol"}
  Tag <- TagOf
  Wants <- WantsOf
  NoPeer = NoPeer
  Proxied = {"A"}
  MaxPending = 1
  MaxRequests = 2
  Sweeps = {s1, s2}
SYMMETRY SweepSymmetry
CHECK_DEADLOCK FALSE
INVARIANTS
  TypeOK
  PendingHasSession
  NeverBothPending
  MutualIntroductions
