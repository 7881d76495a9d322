SPECIFICATION Spec
CONSTANTS
    Nodes <- MCNodes
    Tasks <- MCTasks
    Below <- MCBelow
    Preorder <- MCPreorder
    LimitNames <- TaskLimits
    Home <- TaskHome
    InLimits <- TaskInLimits
    MaxTokens = 2
    InitLim <- TaskLim
    Repeats <- MCNoRepeats
    EcfTries = 2
    UserCmds = {"run", "requeue force", "force", "limit_max", "limit_value"}
    ForceStates = {"ACTIVE"}
    AlterLims = {1, 3}
    AlterValues = {0, 1}
    MaxCmds = 2
INVARIANTS
    TypeOK
    NoTokenLeak
PROPERTY
    SchedulerKeepsLimit
