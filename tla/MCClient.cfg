\* Three fetches to two endpoints, proxies that come and go, one of them without a
\* usable port, one stop.
CONSTANTS
    f1 = f1
    f2 = f2
    f3 = f3
    Fetches <- MCFetches
    Urls <- MCUrls
    UrlOf <- MCUrlOf
    Proxies = {p1, p2}
    Portless = {p2}
    Matches <- MCMatches
    Stops = {c1}
    Limits = {1, 2}
SPECIFICATION Spec
SYMMETRY SameUrl
INVARIANTS
    TypeOK
    ExactlyOnce
    StopOkMeansQuiet
CHECK_DEADLOCK FALSE
