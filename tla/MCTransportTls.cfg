\* TLS, direct or through a proxy; k1 and k3 wait for an idle transport, k2 closes a
\* direct one at any moment.
CONSTANTS
    Kinds = {"ssl", "tunnel"}
    Closes = {k1, k2, k3}
    BusyCloses = {k2}
    MaxCalls = 6
SPECIFICATION FairSpec
INVARIANTS
    TimedWhileRunning
    IdleMeansDisarmed
PROPERTIES
    CleanResponse
    ProcessAnswered
    PatientlyAnswered
    ImplementsContract
CHECK_DEADLOCK FALSE
