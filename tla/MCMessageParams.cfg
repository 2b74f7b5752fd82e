\* A request whose type is set with parameters.
CONSTANTS
    Verbs = {"get", "post", "trace"}
    Statuses = {"ok", "no_content"}
    Bytes = {"a", "b", "c"}
    Data <- MCData
    ContentTypes <- MCContentTypes
    Texts <- MCTexts
    BadTypes = {"application/vnd.api+json"}
    Methods <- MCMethods
    MaxCalls = 3
SPECIFICATION Spec
INVARIANTS
    ParametersKept
CHECK_DEADLOCK FALSE
