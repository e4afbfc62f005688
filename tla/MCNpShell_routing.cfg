\* Every kind of line, and descriptors for two pipes only.
SPECIFICATION Spec
CONSTANTS
    Lines <- MCLines
    MCPrograms = {"noop", "printenv", "exit"}
    MCNumbers = {0, 2, 3}
    MCBang = {}
    MCLast = {"none", ">"}
    MaxLine = 2
    MaxCommands = 4
    PipeCapacity = 1
    SourceUnits = 1
    FdLimit = 7
INVARIANTS TypeOK NoAmbiguousPipe OverdueOnlyWithoutProcess PromptAfterForeground ZombieIsSignalled
PROPERTY ImplementsRouting
CHECK_DEADLOCK FALSE
