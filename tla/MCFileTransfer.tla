--------------------------- MODULE MCFileTransfer ---------------------------
(* Instances of FileTransfer for TLC: "doc" and "pic" have names of their   *)
(* own; "doc" and "new" are two versions of one file.                       *)
EXTENDS FileTransfer, TLC

NameOf   == [f \in Files |-> IF f = "pic" THEN "pic" ELSE "doc"]
ChunksOf == [f \in Files |-> IF f = "pic" THEN 1 ELSE 2]
=============================================================================
