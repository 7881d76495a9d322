\* One re-queue of two families, the second one suspended.
CONSTANTS
    Parent <- PairParent
    Default <- PairDefault
    Trigger <- PairNone
    Complete <- PairNone
    Repeat <- PairRepeat
    EcfTries = 1
    ForceStates = {}
    Paths <- PairPaths
    Cmds = {"suspend", "requeue", "requeue force"}
    MaxCmds = 2
    MaxFails = 0
SPECIFICATION Spec
INVARIANTS RequeueKeepsSuspended
