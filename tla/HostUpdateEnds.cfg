\* One run with two troubles: a failure, and another one while things are put back.
\* Once no run is queued, or an exposure is met, nothing has to happen.
CHECK_DEADLOCK FALSE
SPECIFICATION Spec
CONSTANTS
  Executors = {e1, e2}
  Platforms = {"deb", "rpm", "windows"}
  MaxRuns = 1
  MaxItems = 2
  MaxTroubles = 2
  None = None
PROPERTIES
  EndsAre
  RunsEnd
