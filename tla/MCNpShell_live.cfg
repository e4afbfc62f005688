\* Children and the pipes between them in every interleaving.
SPECIFICATION FairSpec
CONSTANTS
    Lines <- MCLines
    MCPrograms = {"source", "filter", "clrpath"}
    MCNumbers = {0, 2}
    MCBang = {2}
    MCLast = {"none"}
    MaxLine = 2
    MaxCommands = 3
    PipeCapacity = 1
    SourceUnits = 2
    FdLimit = 20
PROPERTIES WaitEndsUnlessBlocked ZombiesReaped EofAfterWriters SigpipeOnlyAfterReader
CHECK_DEADLOCK FALSE
