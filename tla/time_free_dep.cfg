SPECIFICATION Spec
CONSTANTS
    Attrs <- SeriesOnly
    Day = 10
    Cmds = {"free"}
    MaxCmds = 1
    Repeats = 0
    Held = TRUE
    ByRule = FALSE
    Late = FALSE
INVARIANTS
    EarlyRunsReplaceSlots
