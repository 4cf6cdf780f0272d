SPECIFICATION Spec
CONSTANTS
  Workloads <- MCWorkloads
  MaxTime = 3
  MaxExpiries = 2
  MaxPackets = 5
INVARIANTS TypeOK ReadsAreTimes ClockRuns ReadyMeansTicking StateMatchesMapping BorrowedIsReturned
  PhyIsHandedOver NoPollAfterStop ExpiryIsReported StampsAreWhole
