-------------------------- MODULE MCTsSubscription --------------------------
(* Instances of TsSubscription for TLC: addresses, threads and handles are *)
(* interchangeable.                                                        *)
EXTENDS TsSubscription, TLC
Symmetry == Permutations(Ring) \cup Permutations(Mdl) \cup Permutations(Thread)
              \cup Permutations(Handle)
=============================================================================
