SPECIFICATION Spec
CONSTANTS
    Attrs <- Unsorted
    Day = 6
    Cmds = {"run"}
    MaxCmds = 1
    Repeats = 0
    Held = TRUE
    ByRule = FALSE
    Late = FALSE
INVARIANTS
    QueuedForASlot
