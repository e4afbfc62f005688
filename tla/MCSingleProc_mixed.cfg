\* Lines that use numbered pipes, user pipes and files together.
SPECIFICATION Spec
CONSTANTS
    Lines <- MixedLines
    MAX_CLIENTS = 2
    FdMax = 7
    Names = {}
    EnvVars = {"PATH", "X"}
    EnvValues = {"bin:.", "v"}
    MaxOverdue = 0
INVARIANTS EnvFollowsUser UserPipeSymmetric
 
CHECK_DEADLOCK FALSE
