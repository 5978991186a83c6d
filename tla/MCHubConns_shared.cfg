\* Greenlets use, close and throw into each other at will, and there are two acceptors.
\* The loop really ends, so a state without a successor is no deadlock.
SPECIFICATION Spec
CONSTANTS
  g1 = g1
  g2 = g2
  c0 = c0
  c1 = c1
  f1 = f1
  f2 = f2
  None = None
  Greenlets = {g1, g2}
  Conns = {c0, c1}
  Conn0 = c0
  Fds = {f1, f2}
  SqSize = 2
  MaxOps = 3
  MaxFiles = 2
  MaxGen = 0
  Shared = {"fd", "accept"}
  Fates = {"dead"}
SYMMETRY Symmetry
CHECK_DEADLOCK FALSE
INVARIANTS
  FdMapSound
PROPERTIES
  ReleasedOnce
