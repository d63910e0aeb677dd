SPECIFICATION Spec
CONSTANTS
  Files = {"doc", "new"}
  Name <- NameOf
  Chunks <- ChunksOf
  Patient = TRUE
CHECK_DEADLOCK FALSE
INVARIANT IntactFiles
