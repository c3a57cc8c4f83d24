SPECIFICATION Spec
CONSTANTS
    x = x
    y = y
    BIOs <- MCBIOs
    Data = {one, two}
    Junk = two
    NULL = NULL
    Sizes = {3}
    DefaultSize = 1
    MaxCall = 3
SYMMETRY MCSymmetry
CONSTRAINT OneLargeRing
VIEW StateView
INVARIANTS TypeOK RingConsistent LentWhileFilled
PROPERTIES IsQueuePair GuaranteeKept
