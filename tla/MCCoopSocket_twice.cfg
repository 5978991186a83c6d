\* Every wait may be for ever, so a state without a successor is no deadlock.
SPECIFICATION Spec
CONSTANTS
    Greenlets = {g1, g2}
    NFds = 2
    MaxGen = 2
    MaxJobs = 2
    MaxThrows = 0
    Socks = {s1, s2}
    MaxRefs = 1
    Addresses = 2
    MaxLoose = 1
    MaxKept = 1
SYMMETRY Symmetry
INVARIANTS
    CloseHitsOwn
CHECK_DEADLOCK FALSE
