SPECIFICATION LiveSpec
CONSTANTS
    Attrs <- OneCron
    Day = 7
    Cmds = {"run", "complete", "free", "requeue"}
    MaxCmds = 3
    Repeats = 0
    Held = FALSE
    ByRule = FALSE
    Late = FALSE
PROPERTIES
    CronRuns
