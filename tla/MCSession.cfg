\* Three requests, one start, two stops that follow each other.
CONSTANTS
    Requests = {r1, r2, r3}
    Starts = {b1}
    Stops = {s1, s2}
    OverlappingStops = FALSE
SPECIFICATION Spec
SYMMETRY CallSymmetry
INVARIANTS
    TypeOK
    SingleRunner
    InOrder
    AtMostTwoAttempts
    OkMeansServed
PROPERTIES
    NoStaleBytes
    StopOkMeansDrained
    ImplementsQueue
CHECK_DEADLOCK FALSE
