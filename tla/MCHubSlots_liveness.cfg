\* Two greenlets, one of which waits with timeouts only, share two slots; three waits, a submission queue of two.
\* The loop really ends, so a state without a successor is no deadlock.
SPECIFICATION Spec
CONSTANTS
  g1 = g1
  g2 = g2
  s1 = s1
  s2 = s2
  None = None
  Greenlets = {g1, g2}
  Slots = {s1, s2}
  SqSize = 2
  GenMod = 5
  MaxWaits = 3
  MaxPollFds = 2
  Fates = {"dead"}
  Timed = {g1}
CHECK_DEADLOCK FALSE
PROPERTIES
  TimedWaitReturns
  StopEndsLoop
