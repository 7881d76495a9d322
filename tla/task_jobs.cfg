SPECIFICATION Spec
CONSTANTS
    EcfTries = 2
    UserCmds = {"requeue", "requeue abort", "requeue force", "force", "force recursive", "run", "run force", "kill", "zombie cli", "zombie api"}
    ForceStates = {"COMPLETE", "ABORTED"}
    ZombieActions = {"fob", "fail", "adopt", "remove", "block", "kill"}
    AttrAction = "block"
    ExportsRid = TRUE
    Loops <- Sometimes
    MaxPasses = 2
    MaxProcs = 2
    MaxCmds = 2
INVARIANTS
    TypeOK
    AtMostOneZombie
    ResendsForgiven
    OneProcessPerPassword
    EndsOnce
PROPERTIES
    ForcedAbortHolds
CHECK_DEADLOCK FALSE
