\* A re-queue in the middle of a traversal suspends the family it is in.
CONSTANTS
    Parent <- HeldParent
    Default <- HeldDefault
    Trigger <- HeldTrigger
    Complete <- HeldComplete
    Repeat <- HeldRepeat
    EcfTries = 1
    ForceStates = {}
    Paths = {}
    Cmds = {}
    MaxCmds = 0
    MaxFails = 0
SPECIFICATION Spec
INVARIANTS SubmittedFree
