---------------------------- MODULE MCFilterPaths ----------------------------
(* Instances of FilterPaths for TLC: processors are interchangeable.       *)
EXTENDS FilterPaths, TLC
Symmetry == Permutations(Cpu)
=============================================================================
