\* Nested repeats, aborts and retries, a failed or cut traversal, one command.
CONSTANTS
    Parent <- LoopParent
    Default <- LoopDefault
    Trigger <- LoopTrigger
    Complete <- LoopComplete
    Repeat <- LoopRepeat
    EcfTries = 2
    ForceStates = {"COMPLETE", "QUEUED", "ABORTED"}
    Paths <- LoopPaths
    Cmds = {"suspend", "free-dep", "requeue", "requeue force", "requeue abort", "force", "force recursive", "force full"}
    MaxCmds = 1
    MaxFails = 1
SPECIFICATION FairSpec
INVARIANTS ContainersAgree RuleSparesJobs EveryIterationRuns
PROPERTIES Finishes
