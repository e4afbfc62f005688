\* A user is logged in; another client connects; one command is typed.
SPECIFICATION FairSpec
CONSTANTS
    MAX_CLIENTS = 2
    MaxConn = 2
    Started = {1}
    Menu = {"exit","tell"}
    Names = {}
    Budget = 1
 
PROPERTIES Addressed SocketClosed 
CHECK_DEADLOCK FALSE
