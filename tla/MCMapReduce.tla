---------------------------- MODULE MCMapReduce -----------------------------
(* MapReduce on small instances: the symmetry of the TLC configurations.    *)
EXTENDS MapReduce, TLC

MCSymmetry == Permutations(Instances)
=============================================================================
