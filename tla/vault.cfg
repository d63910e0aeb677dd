SPECIFICATION Spec
CONSTANTS
  Peers = {p1, p2}
  Tags = {t1, t2}
  Keys = {k1, k2}
  Generators = {g1, g2}
  NoKey = NoKey
  Torn = Torn
  NoRequest = NoRequest
SYMMETRY Symmetry
CHECK_DEADLOCK FALSE
INVARIANTS
  TypeOK
  TagsSound
  KeysSound
PROPERTIES
  DamagedStays
  StoreSpec
