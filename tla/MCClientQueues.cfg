\* Three fetches of one URL, one stop.
CONSTANTS
    f1 = f1
    f2 = f2
    f3 = f3
    Fetches <- MCFetches
    Urls <- MCUrls
    UrlOf <- MCUrlOf
    Proxies = {}
    Matches = {}
    Portless = {}
    Stops = {c1}
    Limits = {1, 2}
SPECIFICATION FairPastSpec
PROPERTIES
    SessionsAreQueues
    FetchesAnswered
    ClientStopAnswered
CHECK_DEADLOCK FALSE
