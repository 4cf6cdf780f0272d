--------------------------- MODULE MCTestSendRing ---------------------------
(* Instances of TestSendRing for TLC: senders and processors are           *)
(* interchangeable.                                                        *)
EXTENDS TestSendRing, TLC
Symmetry == Permutations(Sender) \cup Permutations(Completer) \cup Permutations(Extra)
            \cup Permutations(Foreign)
=============================================================================
