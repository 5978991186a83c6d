\* Every wait may be for ever, so a state without a successor is no deadlock.
SPECIFICATION Spec
CONSTANTS
    Greenlets = {g1}
    Fds = {1, 2}
    Files = {1, 2}
INVARIANTS
    ReportsTrue
    NothingIsTimeout
CHECK_DEADLOCK FALSE
