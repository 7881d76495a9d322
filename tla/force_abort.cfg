SPECIFICATION Spec
CONSTANTS
    EcfTries = 2
    UserCmds = {"force"}
    ForceStates = {"ABORTED"}
    ZombieActions = {}
    AttrAction = "block"
    ExportsRid = TRUE
    Loops <- Never
    MaxPasses = 2
    MaxProcs = 3
    MaxCmds = 1
PROPERTIES
    ForcedTaskAbortHolds
CHECK_DEADLOCK FALSE
