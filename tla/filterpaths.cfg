CONSTANTS
  Cpu = {c1, c2, c3}
  MaxLists = 3
  MaxOdd = 2
SPECIFICATION Spec
SYMMETRY Symmetry
INVARIANT TypeOK
INVARIANT GaugesAreExact
INVARIANT SendGaugeNeverOverstates
INVARIANT ReceivesAreTracked
INVARIANT PendingOidIsLive
