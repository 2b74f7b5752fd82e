\* One fetch of any of these URLs, with and without a TLS context.
CONSTANTS
    Kinds = {"tcp", "ssl"}
    Closes = {}
    BusyCloses = {}
    MaxCalls = 2
    Schemes = {"http", "https", "wss", "ftp", "file"}
    Ports <- MCPorts
SPECIFICATION FetchSpec
INVARIANTS
    FetchTypeOK
    OkMeansConnected
    DestroyedWhenQuiet
    PortKept
PROPERTIES
    FetchAnswered
    ImplementsContract
CHECK_DEADLOCK FALSE
