\* A signal comes while the workers are being forked.
\* The parent really ends, so a state without a successor is no deadlock.
SPECIFICATION Spec
CONSTANTS
  p1 = p1
  p2 = p2
  p3 = p3
  Pids = {p1, p2, p3}
  NumWorkers = 2
  MaxCrashes = 3
  MaxDeaths = 5
CHECK_DEADLOCK FALSE
SYMMETRY Symmetry
INVARIANTS
  SignalStopsWorkers
