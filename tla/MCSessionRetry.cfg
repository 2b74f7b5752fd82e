\* One request over a connection made for it.
CONSTANTS
    Requests = {r1}
    Starts = {}
    Stops = {}
    OverlappingStops = FALSE
SPECIFICATION Spec
PROPERTIES
    RetryOnlyOnReused
CHECK_DEADLOCK FALSE
