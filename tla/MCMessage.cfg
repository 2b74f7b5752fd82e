\* Every sequence of three calls on a request or a response.
CONSTANTS
    Verbs = {"get", "post", "trace"}
    Statuses = {"ok", "no_content"}
    Bytes = {"a", "b", "c"}
    Data <- MCData
    ContentTypes <- MCContentTypes
    Texts <- MCTexts
    BadTypes = {"application/vnd.api+json"}
    Methods <- MCMethods
    MaxCalls = 3
SPECIFICATION Spec
INVARIANTS
    TypeOK
    TypeAsDeclared
    LengthOfAllContents
    ReadAsDeclared
    NoStaleField
CHECK_DEADLOCK FALSE
