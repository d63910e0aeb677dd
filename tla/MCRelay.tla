------------------------------- MODULE MCRelay ------------------------------
(* Instances of Relay for TLC.  "alice" and "bob" ask for each other; nobody  *)
(* asks for "carol", whose requests "clone" sends as well, from another       *)
(* address.                                                                   *)
EXTENDS Relay, TLC

MCTag   == [alice |-> "A", bob |-> "B", carol |-> "C", clone |-> "C"]
MCWants == [alice |-> "B", bob |-> "A", carol |-> "A", clone |-> "A"]
TagOf   == [p \in Peers |-> MCTag[p]]
WantsOf == [p \in Peers |-> MCWants[p]]

SweepSymmetry == Permutations(Sweeps)
=============================================================================
