SPECIFICATION Spec
CONSTANTS
    Attrs <- SingleAndUneven
    Day = 8
    Cmds = {}
    MaxCmds = 0
    Repeats = 0
    Held = TRUE
    ByRule = FALSE
    Late = FALSE
INVARIANTS
    QueuedForASlot
