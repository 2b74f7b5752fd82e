\* A TLS transport closed while a request is in flight.
CONSTANTS
    Kinds = {"ssl"}
    Closes = {k1}
    BusyCloses = {k1}
    MaxCalls = 2
SPECIFICATION FairSpec
PROPERTIES
    CloseAnswered
CHECK_DEADLOCK FALSE
