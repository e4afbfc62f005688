\* Two users and a client without a slot; user pipes only.
SPECIFICATION Spec
CONSTANTS
    Lines <- UserPipeLines
    MAX_CLIENTS = 2
    FdMax = 7
    Names = {}
    EnvVars = {"PATH"}
    EnvValues = {"bin:."}
    MaxOverdue = 0
INVARIANTS FreeSlotIsClean SocketOfUser NoLeakedDescriptor
PROPERTIES  OthersUntouched
CHECK_DEADLOCK FALSE
