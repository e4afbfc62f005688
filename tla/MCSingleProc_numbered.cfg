\* One user, numbered pipes and a pipe to itself.
SPECIFICATION Spec
CONSTANTS
    Lines <- NumberedLines
    MAX_CLIENTS = 1
    FdMax = 8
    Names = {"alice"}
    EnvVars = {"PATH"}
    EnvValues = {"bin:."}
    MaxOverdue = 1
INVARIANTS TablesOwnDescriptors
CHECK_DEADLOCK FALSE
