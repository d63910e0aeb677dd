--------------------------- MODULE MCDataTransfer ---------------------------
(* Instances of DataTransfer for TLC.  PartBytes is 2.  With MaxBytes = 5,    *)
(* "long" is the longest message and "overlong" has a part too many; with     *)
(* MaxBytes = 3, "pair" is the longest and "edge" is one byte too long though *)
(* it has no more parts than "pair".                                          *)
EXTENDS DataTransfer, FiniteSetsExt, TLC

MCSize == [long |-> 5, short |-> 1, pair |-> 3, edge |-> 4,
           empty |-> 0, overlong |-> 7]
SizeOf(msgs) == [m \in msgs |-> MCSize[m]]

SizeLong      == SizeOf({"long", "empty", "overlong"})
SizePairShort == SizeOf({"pair", "short"})
SizeEdgePair  == SizeOf({"edge", "pair"})
=============================================================================
