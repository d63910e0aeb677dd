SPECIFICATION FairSpec
CONSTANTS
  Files = {"doc", "pic"}
  Name <- NameOf
  Chunks <- ChunksOf
  Patient = FALSE
CHECK_DEADLOCK FALSE
INVARIANTS
  TypeOK
  IntactFiles
PROPERTY FilesArrive
