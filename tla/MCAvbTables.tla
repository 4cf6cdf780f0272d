----------------------------- MODULE MCAvbTables -----------------------------
(* The instance of AvbTables TLC explores.  The tables and the settings    *)
(* share nothing but the threads: a behaviour that has used the one leaves *)
(* the other alone.  These requests work on the context only; for all that *)
(* work on the adapter, TLC first evaluates the analysis of their scripts. *)
EXTENDS AvbTables, ScriptFacts
Symmetry == Permutations(Thread) \cup Permutations(Content)
OneConcern == begun = 0 \/ next = [k \in Table |-> 1]
=============================================================================
