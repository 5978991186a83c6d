\* A greenlet closes a descriptor another one waits on.
\* The loop really ends, so a state without a successor is no deadlock.
SPECIFICATION Spec
CONSTANTS
  g1 = g1
  g2 = g2
  c0 = c0
  c1 = c1
  f1 = f1
  f2 = f2
  None = None
  Greenlets = {g1, g2}
  Conns = {c0, c1}
  Conn0 = c0
  Fds = {f1, f2}
  SqSize = 2
  MaxOps = 4
  MaxFiles = 2
  MaxGen = 1
  Shared = {"fd"}
  Fates = {}
SYMMETRY Symmetry
CHECK_DEADLOCK FALSE
INVARIANTS
  NoLostGreenlet
