\* Two requests of up to two hosts; one wait at a time.
SPECIFICATION FairSpec
CONSTANTS
    MAXSERVER = 2
    MaxRequests = 2
    MaxWaits = 1
INVARIANTS OwnHosts OpenForSessions
PROPERTY ResponseEnds
CHECK_DEADLOCK FALSE
