------------------------------ MODULE MCTxPoll ------------------------------
(* Instances of TxPoll for TLC.                                            *)
EXTENDS TxPoll
=============================================================================
