\* Every wait may be for ever, so a state without a successor is no deadlock.
SPECIFICATION Spec
CONSTANTS
    Greenlets = {g1, g2}
    NFds = 3
    MaxGen = 2
    MaxJobs = 2
    MaxThrows = 1
    Socks = {s1, s2}
    MaxRefs = 1
    Addresses = 2
    MaxLoose = 1
    MaxKept = 1
SYMMETRY Symmetry
INVARIANTS
    OwnFile
    EverythingOwned
    AnswerStored
CONSTRAINT Unstruck
CHECK_DEADLOCK FALSE
