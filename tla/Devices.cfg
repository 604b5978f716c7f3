\* Every input to the connections view and the editors, in every order.
CONSTANTS
    None = None
    MaxUnit = 2
    MaxNested = 1
    MaxProc = 4
    MaxControl = 2
    MaxChannel = 2
    MaxPort = 2
    Sides = 1
    MaxName = 2
    ProcPorts <- MCProcPorts
    MaxActions = 3
    MadeTypes = {"add", "stream"}
    Beginnings <- MCBeginnings
SPECIFICATION Spec
CHECK_DEADLOCK FALSE
INVARIANTS
    ModuleIsSound
    ViewIsUsable
PROPERTIES
    EditsLoseNothing
