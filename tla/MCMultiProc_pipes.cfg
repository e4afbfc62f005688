\* Two users are logged in and type two commands in all.
SPECIFICATION Spec
CONSTANTS
    MAX_CLIENTS = 2
    MaxConn = 2
    Started = {1,2}
    Menu = {"out","in","exit","name","tell"}
    Names = {"alice"}
    Budget = 2
INVARIANTS Exclusion  SenderReleased
  
CHECK_DEADLOCK FALSE
