CONSTANTS
  N = 2
  Ring = {r1, r2, r3}
  Mdl = {m1, m2}
  Handle = {h1}
  Thread = {t1}
  MaxIds = 3
  NoRing = NoRing
  NoMdl = NoMdl
  NoHandle = NoHandle
SPECIFICATION Spec
SYMMETRY Symmetry
CHECK_DEADLOCK FALSE
INVARIANT ClosedHandleHoldsNothing
