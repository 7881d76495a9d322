SPECIFICATION Spec
CONSTANTS
    EcfTries = 2
    UserCmds = {"requeue force", "zombie cli"}
    ForceStates = {}
    ZombieActions = {"adopt"}
    AttrAction = "block"
    ExportsRid = TRUE
    Loops <- Never
    MaxPasses = 2
    MaxProcs = 3
    MaxCmds = 2
PROPERTIES
    AdoptsOnlySameProcess
CHECK_DEADLOCK FALSE
