------------------------------- MODULE MCVault -------------------------------
(* An instance of Vault for TLC.  Peers, tags, keys and generators are each  *)
(* interchangeable: no definition tells one from another.                    *)
EXTENDS Vault, TLC

Symmetry ==
  UNION {Permutations(Peers), Permutations(Tags), Permutations(Keys),
         Permutations(Generators)}
=============================================================================
