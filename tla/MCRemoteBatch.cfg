\* A console and one other request, through a proxy and without.
SPECIFICATION FairSpec
CONSTANTS
    Files <- MCFiles
    Outputs <- MCOutputs
    Proxies = {TRUE, FALSE}
    MaxSent = 4
    MaxRequests = 2
INVARIANT SentOnPrompt
PROPERTIES  ResponseEnds
CHECK_DEADLOCK FALSE
