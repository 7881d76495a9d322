SPECIFICATION Spec
CONSTANTS
    Attrs <- SingleAndSeries
    Day = 10
    Cmds = {"run", "complete", "requeue", "abort"}
    MaxCmds = 3
    Repeats = 1
    Held = TRUE
    ByRule = TRUE
    Late = FALSE
INVARIANTS
    OncePerSlot
    EarlyRunsReplaceSlots
    NoSlotLost
    QueuedForASlot
