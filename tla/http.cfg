CONSTANTS
    Urls <- MCUrls
    Replies <- MCReplies
    Netrc = {"b"}
    MaxRedirect = 3
    GlobalLimit = 1
    HostLimit = 1
    ReadSizes = {1, 4}
    MaxFaults = 1
    MaxRequests = 2
    Faults = {"connect", "cut", "reset", "idle"}
SPECIFICATION Spec
INVARIANTS BodyExact IdleCloseHarmless 
PROPERTIES RequestEnds
CHECK_DEADLOCK FALSE
