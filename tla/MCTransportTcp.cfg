\* TCP, closed at any moment by three closes that may overlap.
CONSTANTS
    Kinds = {"tcp"}
    Closes = {k1, k2, k3}
    BusyCloses = {k1, k2, k3}
    MaxCalls = 6
SPECIFICATION FairSpec
INVARIANTS
    TypeOK
PROPERTIES
    ClosedNeverOk
    ConnectAnswered
    ProcessAnswered
    CloseAnswered
    ImplementsContract
CHECK_DEADLOCK FALSE
