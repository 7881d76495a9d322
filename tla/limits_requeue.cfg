SPECIFICATION Spec
CONSTANTS
    Nodes <- MCNodes
    Tasks <- MCTasks
    Below <- MCBelow
    Preorder <- MCPreorder
    LimitNames <- FamilyLimits
    Home <- FamilyHome
    InLimits <- FamilyInLimits
    MaxTokens = 2
    InitLim <- FamilyLim
    Repeats <- MCNoRepeats
    EcfTries = 1
    UserCmds = {"requeue force"}
    ForceStates = {}
    AlterLims = {}
    AlterValues = {}
    MaxCmds = 1
INVARIANT
    RequeueReleasesTokens
