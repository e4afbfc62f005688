\* Three processes start, fork, close, remove and are killed.
SPECIFICATION FairSpec
CONSTANTS
    Procs = {p1, p2, p3}
    MAX_CLIENTS = 5
    MaxStarts = 3
    MaxSets = 4
INVARIANT Exclusion
PROPERTY ServerStarts
CHECK_DEADLOCK FALSE
