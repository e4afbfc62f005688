\* As many clients as servers have opened the set.
SPECIFICATION Spec
CONSTANTS
    Procs = {p1, p2}
    MAX_CLIENTS = 1
    MaxStarts = 2
    MaxSets = 2
INVARIANT ZeroMeansUninitialized
CHECK_DEADLOCK FALSE
