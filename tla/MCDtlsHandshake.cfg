SPECIFICATION Spec
CONSTANTS
    Scripts <- MCScripts
    AlertCount = 6
    ReduceAfter = 0
    Mtu = 2
    FallbackMtu = 1
    Faults <- MCFaults
INVARIANTS TypeOK NumbersNotReused RetransmittedAsSent NoConfusion
PROPERTY Completes
CHECK_DEADLOCK FALSE
