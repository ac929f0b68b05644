------------------------------ MODULE MCHolder ------------------------------
(* Small instances of HolderLease for TLC.                                 *)
EXTENDS HolderProperties, TLC

Symmetry == Permutations(Runner)
=============================================================================
