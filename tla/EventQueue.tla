----------------------------- MODULE EventQueue -----------------------------
(***************************************************************************)
(* What a subscription promises: the events posted to it are numbered as   *)
(* they are stored, at most Capacity of them wait, one that finds the      *)
(* queue full is dropped and counted, and they are taken in order, each    *)
(* once.                                                                   *)
(***************************************************************************)
EXTENDS Naturals

CONSTANT Capacity

VARIABLES
  stored,    \* the number of the last event stored
  taken,     \* how many were taken
  dropped,   \* how many were dropped
  received   \* the number of the event taken last

qvars == <<stored, taken, dropped, received>>

QInit == stored = 0 /\ taken = 0 /\ dropped = 0 /\ received = 0

Store ==
  /\ stored - taken < Capacity
  /\ stored' = stored + 1
  /\ UNCHANGED <<taken, dropped, received>>

Drop ==
  /\ stored - taken = Capacity
  /\ dropped' = dropped + 1
  /\ UNCHANGED <<stored, taken, received>>

Take ==
  /\ taken < stored
  /\ taken' = taken + 1
  /\ received' = taken + 1
  /\ UNCHANGED <<stored, dropped>>

QNext == Store \/ Drop \/ Take

QSpec == QInit /\ [][QNext]_qvars
=============================================================================
