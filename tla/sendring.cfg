CONSTANTS
  N = 3
  Extra = {x1}
  Foreign = {f1, f2}
  Sender = {t1, t2, t3}
  Completer = {c1, c2, c3}
  NoPacket = NoPacket
SPECIFICATION Spec
SYMMETRY Symmetry
CHECK_DEADLOCK FALSE
INVARIANT TypeOK
INVARIANT SlotsAreAccountedFor
INVARIANT HeldSlotsAreAllocated
INVARIANT PoolsOutliveRing
INVARIANT LeftWereTaken
