SPECIFICATION FairSpec
CONSTANTS
    Nodes <- MCNodes
    Tasks <- MCTasks
    Below <- MCBelow
    Preorder <- MCPreorder
    LimitNames <- FamilyLimits
    Home <- FamilyHome
    InLimits <- FamilyInLimits
    MaxTokens = 2
    InitLim <- FamilyLim
    Repeats <- MCRepeats
    EcfTries = 1
    UserCmds = {"requeue", "requeue abort", "force"}
    ForceStates = {"COMPLETE", "QUEUED", "ABORTED"}
    AlterLims = {}
    AlterValues = {}
    MaxCmds = 1
INVARIANTS
    ValueMatchesPaths
    NoTokenLeak
    LoadWithinLimit
PROPERTY
    QueuedTaskRuns
