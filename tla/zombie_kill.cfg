SPECIFICATION Spec
CONSTANTS
    EcfTries = 2
    UserCmds = {"requeue force", "zombie cli"}
    ForceStates = {}
    ZombieActions = {"kill"}
    AttrAction = "block"
    ExportsRid = TRUE
    Loops <- Never
    MaxPasses = 2
    MaxProcs = 3
    MaxCmds = 2
PROPERTIES
    ZombieKillSparesTask
CHECK_DEADLOCK FALSE
