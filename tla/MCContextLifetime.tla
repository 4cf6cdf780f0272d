------------------------- MODULE MCContextLifetime -------------------------
(* Instances of ContextLifetime for TLC.                                    *)
EXTENDS ContextLifetime, TLC

(* Addresses, threads and filters are interchangeable.                     *)
Symmetry == Permutations(Ctx) \cup Permutations(Thread) \cup Permutations(Filter)
=============================================================================
