\* One request, then three units each way through full sockets.
SPECIFICATION FairSpec
CONSTANTS
    Requests <- MCRequests
    Rules <- MCRules
    Resolve <- MCResolve
    Units = 3
    Cap = 2
    MAXBUFFSIZE = 2
INVARIANTS Delivered ConnectsAsAsked
PROPERTY RelayProgress
CHECK_DEADLOCK FALSE
