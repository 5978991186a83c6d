SPECIFICATION Spec
CONSTANTS
    g1 = g1
    g2 = g2
    Greenlets = {g1, g2}
    Reader = g1
    Size = 2
    MaxIn = 2
    MaxOut = 1
INVARIANTS
    ResultsTrue
    ThreadNeverStalls
PROPERTIES
    ReadReturns
