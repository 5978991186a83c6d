\* Two workers, three pids, a limit of three crashes; six deaths.
\* The parent really ends, so a state without a successor is no deadlock.
SPECIFICATION Spec
CONSTANTS
  p1 = p1
  p2 = p2
  p3 = p3
  Pids = {p1, p2, p3}
  NumWorkers = 2
  MaxCrashes = 3
  MaxDeaths = 6
CHECK_DEADLOCK FALSE
INVARIANTS
  KillsOnlyOwn
  WorkersAccounted
  NoOrphans
PROPERTIES
  ShutdownEnds
  DeadWorkerReplaced
  ImplementsWorkforce
