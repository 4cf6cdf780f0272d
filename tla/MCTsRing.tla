------------------------------ MODULE MCTsRing ------------------------------
(* Instances of TsRing for TLC.                                            *)
EXTENDS TsRing
=============================================================================
