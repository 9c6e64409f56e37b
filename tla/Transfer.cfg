\* Where a transfer has ended and all events are spent, nothing needs to happen.
CHECK_DEADLOCK FALSE
SPECIFICATION Spec
CONSTANTS
  Last = 1
  MaxVersions = 2
  MaxEvents = 3
  NoHash = NoHash
  Nobody = Nobody
INVARIANTS
  CompletedMeansArrived
  ArrivedAreSnapshots
  OnlyReuploadsStrand
PROPERTIES
  InterruptedTransfersComplete
