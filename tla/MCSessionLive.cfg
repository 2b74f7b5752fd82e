\* Two requests, a start, two stops that may overlap.
CONSTANTS
    Requests = {r1, r2}
    Starts = {b1}
    Stops = {s1, s2}
    OverlappingStops = TRUE
SPECIFICATION FairSpec
PROPERTIES
    RequestsAnswered
    KeepsAnswering
    StopsAnswered
CHECK_DEADLOCK FALSE
