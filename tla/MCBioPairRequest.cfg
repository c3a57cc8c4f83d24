SPECIFICATION Spec
CONSTANTS
    x = x
    y = y
    BIOs <- MCBIOs
    Data = {one, two}
    Junk = two
    NULL = NULL
    Sizes = {3}
    DefaultSize = 1
    MaxCall = 3
SYMMETRY MCSymmetry
VIEW StateView
INVARIANT RequestWithinGuarantee
CONSTRAINT TwoEnds
