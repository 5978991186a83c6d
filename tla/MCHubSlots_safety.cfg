\* Three greenlets share two slots; four waits, a submission queue of two.
\* The loop really ends, so a state without a successor is no deadlock.
SPECIFICATION SafeSpec
CONSTANTS
  g1 = g1
  g2 = g2
  g3 = g3
  s1 = s1
  s2 = s2
  None = None
  Greenlets = {g1, g2, g3}
  Slots = {s1, s2}
  SqSize = 2
  GenMod = 5
  MaxWaits = 4
  MaxPollFds = 2
  Fates = {"dead"}
  Timed = {}
SYMMETRY Symmetry
CHECK_DEADLOCK FALSE
INVARIANTS
  SlotsTypeOK
  ActiveWaitsExact
  NoLostGreenlet
  SlotsConserved
  OwnResult
  ReadyOnce
  IdleExitLeavesNobody
