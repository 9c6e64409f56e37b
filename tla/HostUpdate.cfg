\* Two runs, one after the other or at once, two failing calls or power cuts.
\* Once no run is queued, or an exposure is met, nothing has to happen.
CHECK_DEADLOCK FALSE
SPECIFICATION Spec
CONSTANTS
  Executors = {e1, e2}
  Platforms = {"deb", "rpm", "windows"}
  MaxRuns = 2
  MaxItems = 1
  MaxTroubles = 2
  None = None
SYMMETRY MCSymmetry
INVARIANTS
  SettledDataIsKept
  OneAtATime
