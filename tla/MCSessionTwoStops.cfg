\* A second async_stop while the first one waits.
CONSTANTS
    Requests = {r1}
    Starts = {}
    Stops = {s1, s2}
    OverlappingStops = TRUE
SPECIFICATION Spec
PROPERTIES
    StopOkMeansDrained
CHECK_DEADLOCK FALSE
